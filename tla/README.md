# Enterprise Data Automation Platform: specifications, model checks and proofs

This directory specifies, in TLA+, the parts of the platform whose behaviour depends on
the order in which things happen, checks them with TLC on small instances and proves the
main results with TLAPS for every value of the constants. It contains the modules
(`*.tla`), the TLC configurations (`*.cfg`), `PROJECT.json` (which definition models which
lines, which run checks what) and this file.

    tlc -config workflow_serial.cfg MCPlanWorkflow      # one model check
    tlapm GenerationProofs.tla                          # one module's proofs

## 1. The system

The platform turns natural-language requests into *plans* over the tables of a database
schema, previews them, lets an administrator confirm them and executes them. Around that
workflow sit a catalogue of workspaces, user accounts, a masking and a validation engine,
and a set of command-line programs that generate, convert and load data.

| component | state it keeps | operations | interacts with |
|---|---|---|---|
| Plan workflow: `agent/manager.py`, `backend/routers/agent.py` | none of its own between calls | plan, preview, confirm, execute (single table or fan-out), dispatch_subagent, run_correction_loop | reads and writes plan memory at every step; calls subagents, masking, validation |
| Plan memory: `agent/plan_memory.py` | one JSON file per plan | create, read, write, update_status (read-modify-write), list_plans | written by the Manager, read by the execution agent and the job screens |
| Row and policy caches: `backend/dependencies.py:46-49,339-360` | dictionaries of the process, keyed by plan and table | cache_*, get_cached_* | written by the preview handler, read by the execute handler |
| Subagents: `agent/subagents/*` | none; detail blobs in shared storage | run(action) | dispatched by the Manager only |
| Execution/Report agent | none | execute_sql, rollback, write_audit_record | re-reads the plan's status, writes through a `DatabasePort` |
| Shared storage: `agent/shared_storage.py` | one blob per result, fresh name | store_detail, read_detail | subagents write, Manager reads |
| User accounts: `core/auth.py`, `backend/auth_deps.py`, `backend/routers/{auth,admin}.py` | a dictionary of users and a YAML file | create_user, set_role, delete_user, authenticate, issue_token, verify_token | every request passes through verify_token |
| Workspace catalogue: `backend/dependencies.py:51-269,363-680` | three dictionaries, a SQLite database, a JSON file | create connection/workspace, discover, generate, load at start-up | REST handlers of `/api/workspaces` |
| Schema graph: `core/schema_graph.py` | tables and foreign keys, read once | topological_insert_order, parents_of | the Manager's execution order, data generation |
| Masking, validation: `core/masking.py`, `core/validation.py` | policies; none | propagate_fk_rules, verify_fk_consistency, apply_masking; validate_batch | subagents, Manager |
| Audit log: `core/audit.py` | one appended line per event | record, read_all | everyone |
| Data generator: `data_generator.py` | values of primary keys by table | generate_all, orphan repair | reads the schema graph's configuration |
| Converter and loaders: `converter.py`, `ddl_converter.py`, `sql_executor.py`, `postgres_loader.py`, `data_loader.py` | files, a database | convert, execute, load | a live PostgreSQL |
| Clients: `cli.py`, `chat.py`, `ui/console.jsx` | none | call the above | REST, or the Manager in one process |

### Which behaviours are hard

* The handlers are plain `def` functions: FastAPI runs each in a thread of a pool, so any
  two requests overlap, and nothing in the workflow takes a lock. Each file update is a
  read followed by a write of the whole plan.
* Preview, confirmation and execution are separate requests. What the human approved is
  in three places (the plan file, the row cache, the policy cache) that are changed in
  three steps and of which only the first survives the process.
* Exceptions leave an operation half way: nothing catches them but the framework.
* Confirmation and execution must happen in order, once each, whatever else arrives.

`PROJECT.json` lists the hazards one by one at the line where they bite, with the
properties that would catch them.

### What makes each component correct

* *Plan workflow*: nothing runs that was not confirmed; one confirmation, one execution;
  what is executed is what was previewed; a completed plan has a result; parents are
  written before children; no subtask is lost; a plan does not stay in `executing`.
* *Plan memory*: a reader sees some version that was written, never a torn one.
* *User accounts*: an administrator remains; the file holds what memory holds.
* *Workspace catalogue*: what was answered is found again after a restart; identifiers
  are not given twice; a job's snapshot exists.
* *Schema graph*: the order contains every table after its parents, or a cycle is real.
* *Data generator, loaders*: no orphan rows at the end; loading a table does not undo
  another.
* *Masking*: a rule reaches every column that refers to the masked one, with the same
  strategy and salt.
* *Correction loop*: it terminates, and `clean` is said of rows that were validated.

## 2. Plan of the development

| modules | what they are | composes / refines | status |
|---|---|---|---|
| `PlanWorkflow`, `MCPlanWorkflow` | handlers, Manager, plan memory, caches, execution gate | four components in one state machine | done |
| `PlanLifecycle` | abstract status machine | refined by `PlanWorkflow` | done |
| `PlanWorkflowProofs` | proofs about `PlanWorkflow` | | done |
| `WorkspaceCatalog`, `MCWorkspaceCatalog` | dictionaries, SQLite transaction, JSON file, crash and reload | | done |
| `CatalogProofs` | proofs about `WorkspaceCatalog` | | done |
| `InsertOrder`, `MCInsertOrder`, `InsertOrderProofs` | Kahn's algorithm against the definition of a topological order | grounds `TableAssumption` of `PlanWorkflow` | done |
| `UserAccounts`, `UserAccountsProofs` | users in memory and on disk, tokens, overlapping administration | | done |
| `GenerationPlan`, `Generation`, `MCGeneration`, `GenerationProofs` | analysis of samples, generation, repair, audit, load | analyser, generator and loader in one state machine | done |
| `BatchValidation`, `CorrectionLoop`, `MaskingPolicies`, `MCQuality`, `QualityProofs` | validation of a batch, correction, masking of columns that refer to each other | | done |
| `DdlScript`, `DdlConversion`, `Migration`, `MCMigration`, `DdlScriptProofs`, `MigrationProofs` | parsing of Oracle scripts; conversion, execution, load and foreign keys | converter, executor, loader and database in one state machine | done |
| `PlanStore` | plan files written in several steps | to refine to the atomic files of `PlanWorkflow` | left |

Theorems (section 10): every safety property that a passing run checks is a theorem. Left:
the files of plans written in several steps.

The set of runs is kept small: one per component and question, and the two most telling
disagreements between the code and its documents. Others are told in the text.

## 3. The plan workflow

### State and actions

`PlanWorkflow` has one action per access to shared state, so that two requests interleave
exactly where the code lets them.

| in the model | in the code |
|---|---|
| `disk[p]` | the file `plans/<p>.json`: status, intent, tables, preview, result, number of subtasks |
| `rowsCache`, `policyCache` | `_pending_rows`, `_pending_policies` |
| `req[r]` | the local variables of the handler thread `r`: where it is, its plan, the rows and policies it holds, the tables left in its loop, the `Plan` object it read and will write back (`buf`) |
| `outputs` | what executions produce: masked CSV files, SQL scripts, rows in the database |
| `history` | a record for the properties only: confirmations, what the last one approved, executions, dispatched subtasks, the processes that stored the last preview and started the last execution, previews that raised |
| `CreatePlan` | `POST /plan`: `ManagerAgent.plan()` with each kind of model reply, `PlanMemory.create()` |
| `PreviewPlan`, `CacheRows`, `CachePolicy` | `POST /{id}/preview` and its cache writes |
| `ConfirmPlan` | `POST /{id}/confirm`, `request_human_confirmation()` |
| `ExecutePlan`, `LoadRows`, `LoadPolicy`, `Gate`, `Work` | `POST /{id}/execute`, `execute()`, the gate of `execute_fan_out()` |
| `NextTable`, `DispatchSubagent`, `RecordSubtask` | the loops of `run_fan_out_preview()` and `execute_fan_out()`, `dispatch_subagent()` |
| `ExecuteSqlGate`, `ApplyStatements` | `ExecutionReportAgent.execute_sql()` |
| `UpdateStatusRead`, `UpdateStatusWrite` | `PlanMemory.update_status()` |
| `Restart` | the process ends and is started again |

Abstractions: a file is read or written in one step; a batch of rows is an opaque value
(`EmptyBatch` is the empty list); a masking policy is the fact that a table has one; a
list of tables is a set; texts, audit lines and detail blobs are left out. `LiveAdapter`
says whether `execute_fan_out()` is handed a database (the REST handler never does, the
tests and other callers may).

`PlanLifecycle` is the status machine a polling client is promised: proposed, presented,
decided, started from `confirmed` only, finished from `executing` only.

### Runs

| run | instance | what it shows |
|---|---|---|
| `workflow_serial` | one request at a time, every kind of reply and tool, 5 requests, 1 restart, uploads that are not empty | the files implement `PlanLifecycle`; one confirmation, one execution; no subtask lost; rows executed are the approved ones; rows reported are exactly the approved ones, or none where a restart came between preview and execution |
| `workflow_concurrent` | two overlapping fair requests, 4 requests, 1 restart, live adapter, plans with a table, uploads with rows in both tables or with an empty file | nothing runs unconfirmed, completed means executed with a result, parents first; without a restart and without a preview that raised, `executing` does not last |
| `double_execution` | violation | two overlapping executions from one confirmation |

The violation is a disagreement between the code and its own documents met while
modelling; `PROJECT.json` quotes the sentence it contradicts.

Some of these properties hold because of how their instance is restricted. What the code
does without the restriction, as TLC shows when it is lifted in the cfg:

| property | restriction | without it |
|---|---|---|
| `DispatchKeepsStatus` | one request at a time | a subtask recorded by one request writes back the status of its earlier read over the status another request just wrote |
| `SubtasksAllRecorded` | one request at a time | two writers of one plan file: the later one drops the subtask of the earlier |
| `ApprovedRowsOnly`, `CompletedOnApproved` | every upload non-empty | a preview that raises after it cached its rows leaves the plan confirmed, and the execution writes rows nobody approved |
| `CompletedOnApproved` | `previewed = started`: the process that stored the preview starts the execution | a restart empties the caches, and a plan confirmed before it completes over no rows, although `agent/manager.py:23-24` says that a job survives a restart mid-way; the formula demands no rows at all then, and all the approved ones otherwise |
| `CompletedOnApproved` | `approved # None`: plans that were previewed | confirmation accepts a plan in any status, so a plan is executed that nobody previewed, over no rows |
| `ExecutingEnds` | `targets # {}`: plans with a table | `execute()` of a plan without a table raises after it set `executing`; no code ever sets `failed` |
| `ExecutingEnds` | `raised = 0`: no preview of the plan raised | a preview's `dispatch_subagent()` reads the plan while it is `executing`, the execution completes, the preview writes the plan back with `executing`, and its empty file makes it raise (`manager.py:416`) before it writes a status of its own: the plan stays in `executing` |
| `ExecutingEnds` | no restart | the thread that would have written the next status is gone |

The policy cache has the same defect as the row cache in another form: entries are added
and never removed, so that a table previewed with masking, previewed again without it,
confirmed and executed is masked by the first policy.

### Bounds, and why they are enough

One plan: plans share nothing but their keys, and no action reads two of them. Two tables,
one referring to the other: the smallest schema on which an order can be wrong and a loop
has a middle. Two batches besides the empty one: approved and other. The concurrent run, which follows
no rows, has one batch and the empty one, so that previews raise in it. Four to six requests:
a create, a preview, a confirmation, an execution and one or two more in any place, which
is what every trace above needs (all have traces within four or five requests). Two
threads: each conflict is between one reader-then-writer and one other. `EveryTool = FALSE`
keeps one dispatch per table, since the dispatches of a loop repeat the same
read-modify-write. `CHECK_DEADLOCK FALSE` because the bound on requests ends every run.

### Fairness

`FairSpec` asks weak fairness of each thread's next step (`Continue(r)`): the operating
system runs every thread of the pool, and no step of a handler waits for another
thread. It asks nothing of clients: no request has to arrive.

## 4. The workspace catalogue

### State and actions

`WorkspaceCatalog` is a second state machine, which shares no state with the plan
workflow. Its records are numbered in the code by the size of their dictionary
(`ws-{len + 1}`), so a dictionary is a sequence in the model and a number that was taken
earlier may point at a record that has been put since (`Put` replaces it, as the Python
assignment does).

| in the model | in the code |
|---|---|
| `records`, `jobs` | `_connections`, `_workspaces`, `_workspace_snapshots`; `_workspace_jobs` |
| `db`, `writer` | the committed content of `workspace_catalog.sqlite3`, and the thread with its write lock |
| `file` | `workspace_runtime_state.json`; `Torn` between its truncation and its last byte |
| `req[r]` | the locals of the handler thread: the number it took, what is left to copy, its uncommitted rows or JSON text (`image`) |
| `answered`, `raised`, `replaced` | records for the properties only: what was answered, whether a request of this process failed, which snapshot numbers were inserted a second time |
| `Create`, `Discover`, `Generate` | `POST /api/connections`, `/api/workspaces`, `/{id}/discover`, `/{id}/generate`: the number is taken |
| `Insert`, `NumberJob`, `AppendJob` | the dictionary and list updates that follow |
| `Begin`, `CopyPart`, `Commit` | `_persist_catalog()`: the first DELETE, the INSERTs of one dictionary at a time, the commit |
| `Dump`, `TruncateFile`, `WriteFile` | `_persist_runtime_state()`; then the answer goes out |
| `Raise` | an exception in any of these: SQLite rolls back, memory stays |
| `Restart` | the process stops at any point; `_load_runtime_state()` then `_load_catalog()` |

Three things raise, and all are in the model: the write lock is not obtained in time
(`LockTimeout`), a key is added to a dictionary during a loop over it (`Disturbed`), and
two jobs have the same id (`JobKeysClash`). SQLite and the file system are modelled by
what the code uses of them: a write lock, all-or-nothing commits, a file truncated and
then written. A record's content is one value; for a snapshot or a job it is its
workspace. The copy of one dictionary is one step, and so are the two loops over the
snapshots that copy their tables with the columns, and their foreign keys
(`backend/dependencies.py:159-213`). The rows of these loops have the snapshot's workspace
and number for a key, so what is kept of them is, for each number, the workspace they are
of (`details`).

### Runs

| run | instance | what it shows |
|---|---|---|
| `catalog_concurrent` | two overlapping requests, every operation, 4 requests, 2 workspaces, lock timeouts, 1 restart, symmetric threads | what was answered is found again after a crash at any moment; no commit loses records; each stored snapshot has its own tables and relations unless its number was taken again; a quiet process in which nothing failed has everything on disk; `Covering`, the inductive invariant of the proofs |
| `catalog_serial` | one request at a time, 5 requests, 2 restarts, two contents | records are loaded as answered; jobs are loaded with their snapshots |
| `catalog_live` | two fair threads, creations only, no timeout, no restart | memory ahead of the database gets written, also after a copy that raised |

Two workspaces that both ran a job give the same id to two jobs: the copy violates the
primary key of `jobs` and raises, as does every later one. The second discovery is served
from memory and never stored, and nothing says so (`backend/dependencies.py:157`). The
properties above except such processes (`raised`).

The same two discoveries are the exception of `DetailsCoverSnapshots` (`replaced`): when
the second insertion falls between the loop over the snapshots and the loops over their
tables, one transaction commits the first workspace's snapshot with the tables of the
second's. Without the exception TLC finds such a commit.

`AnsweredAsGiven` needs the serial instance: with two threads, two overlapping discoveries
take the same number, and the later snapshot replaces the earlier, for another workspace
if need be, although both were answered (`backend/dependencies.py:447`).

Two threads and four requests reach every conflict: one transaction against one change,
one number taken twice (two workspaces and two discoveries). Two workspaces are the
fewest whose job numbers can clash. `CHECK_DEADLOCK FALSE` because the bound on requests
ends every run.

`FairSpec` asks weak fairness of each thread's next step. The lock is not awarded fairly,
and needs not be: requests are finite in an instance and each holder of the lock
finishes. `EventuallyPersisted` says nothing of jobs, whose keys may clash for good,
nor of a process whose transactions time out.

## 5. The schema graph

`InsertOrder` is `SchemaGraph.topological_insert_order()`, one step per turn of its loops.
The state is the function's local variables (`edges`, `inDegree`, `ready`, `order`), the
foreign keys not yet seen (`left`) and the loop it is in (`stage`). `Init` ranges over
every schema: a table may refer to another several times, to itself, and to tables the
export lacks. Tables are numbers in the alphabetical order of their names, and the first
loop takes the foreign keys in any order, since the code iterates over dictionaries filled
from a file.

| in the model | in the code |
|---|---|
| `CountForeignKey`, `Counts` | the loop over `node.foreign_keys`: edges and in-degrees |
| `FindRoots` | `ready = sorted(...)` |
| `PlaceTable`, `MayComeNext`, `BecomesReady` | `ready.sort(); current = ready.pop(0)` and the loop over its children |
| `Finish` | the comparison of lengths, `CycleError` |
| `Parents` | `parents_of()`, within the export |

The children of one table are handled in one step: each has its own counter, and the list
is sorted before anything is taken from it.

| run | instance | what it shows |
|---|---|---|
| `insert_order` | all 9261 schemas of three tables with up to two foreign keys each, one table outside the export | parents first and no table twice; a cycle is reported exactly when tables wait for one another; the order is a function of the schema; `Ordering`, the loop invariant of the proofs |

Three tables give cycles of two and of three, chains, diamonds without a bottom and
repeated keys; the proofs hold for any number. `CHECK_DEADLOCK FALSE`: the function
returns.

`PlanWorkflow` takes the result as a constant (`InsertRank`) and assumes of it what
`OrderParentsPrecede` and `OrderFindsCycles` prove (`TableAssumption`): a schema with a
real cycle has no order, every fan-out execution raises right after it marked its plan
`executing`, and such schemas are outside the workflow model.

## 6. User accounts

`UserAccounts` is `LocalDevAuthProvider` (`core/auth.py`) behind the administration
handlers (`backend/routers/admin.py`), which run in threads like the others.

| in the model | in the code |
|---|---|
| `users` | `_users`: the role of each account |
| `file` | `config/users.yaml`: the accounts and the note kept beside them; `Empty` after `open(..., "w")`, `Torn` when a shorter text was written over a longer one |
| `tokens` | who holds an unexpired token that says ADMIN |
| `Arrive`, `Check`, `Change` | `require_role(ADMIN)`; what `create_user()`, `set_role()` and `delete_user()` check; what they change in the dictionary |
| `SaveRead`, `SaveOpen`, `SaveDump`, `SaveFlush` | `_save_users()`: read the file, truncate it, dump the dictionary, close |
| `SignIn`, `Expire` | `authenticate()` and `issue_token()`; the `exp` of the token |
| `Restart` | `_load_users()` of whatever the file holds |

| run | instance | what it shows |
|---|---|---|
| `accounts` | two users, two roles, two threads, 3 administration requests, 1 restart | a request that overlaps no other never takes the last administrator away; unless a crash cuts it short, it ends with nothing changed, with the file as memory has it and the note, or by raising over a file that was torn before it came; whoever loses the role ends up without a token that grants it |

Both safety properties say "overlaps no other", because without it they are false: two
requests that demote one of two administrators each count two, and both succeed; two
saves may leave a file that is empty, torn, or without the note. A torn file outlives the
overlap: the next request, though alone, changes memory and then raises in `SaveRead`
(`core/auth.py:110-111`), so its change is served and never stored (`NotSaved`). A crash
between the opening and the flush leaves an empty file whoever is alone: `AloneSaves` is
silent about it, and `Restart` then loads no accounts. Two users and two
threads are the fewest for that race; three requests allow a third that meets what the
race left. `FairSpec` asks that a token expires: `exp` is compared with the clock.
`RevocationTakesEffect` is what `verify_token()`, which never looks at the account again,
still gives. `CHECK_DEADLOCK FALSE`: requests are bounded.

## 7. Generated data

`GenerationPlan` defines, as functions of the samples, what `pattern_analyzer.py` and
`data_generator.py` decide first: how a column is generated (`Profile`), which table owns
a key (`Score`, `BestOwners`), which columns refer to it (`Explicit`, `ForeignKeys`).
Where a Python set breaks a tie, every choice is allowed (`Ownerships`). `Generation` is
the program `generate_data.py` over that plan.

| in the model | in the code |
|---|---|
| `PlaceTable`, `FinishOrder`, `Parents`, `Listed` | the order of `_build_fk_map_and_order()`; tables on a cycle follow as listed |
| `GenerateReady`, `Defer`, `EndRound`, `ForceTable`, `Fail` | the rounds of `generate_all()`; a table that raises |
| `Contents`, `Constrained`, `Sequence`, `Write` | `_generate_table()`, `_generate_cell()`, `_apply_row_constraints()`, `_register_pk_values()`; `pool` has the values of each key column, `used` those drawn for each column name |
| `RepairReference`, `Registry` | `_fix_orphan_fks()`, one reference at a time |
| `Audit` | `validate_fk_integrity()` |
| `LoadTable`, `Cascade` | `PostgresLoader._load_table()`: TRUNCATE ... CASCADE, then the rows; `Constraint` has the foreign keys that the database itself has |

| run | instance | what it shows |
|---|---|---|
| `generation` | 33 schemas of two or three tables of the provider schema, 2 rows, one table that fails to generate or to load | one round is enough when references form no cycle and every key has values; after the repair the audit reports nothing; the files have no orphan of a key that no repair moves (`Firm`); what was loaded stays when references form no cycle and account for the database's foreign keys |
| `zero_orphans` | violation | a key that is itself a reference is repaired after its children took its values: the files end with orphans, and the audit passes |

Notions that the code computes by following references are stated by sets instead: tables
refer to one another in a circle when some set of tables has none that refers outside of
it (`Acyclic`), and the tables that refer to one through others are those in every set closed
under references (`Descendants`). Both are equal to the path-wise notion and can be
reasoned about without recursion.

What the properties except, the code does, and the run reaches it:

* `_apply_row_constraints()` writes over the audit columns after their values were drawn
  and before they are registered. An audit column that is a key and itself refers to
  another key (`g_aud_user_id`, distinct in its sample, and a `p_user_id`) is then repaired
  after its own children took "SYSTEM" from it: the files end with orphans although
  nothing was forced and nothing is circular. `Firm` leaves such keys out of `NoOrphans`.
* TRUNCATE ... CASCADE follows the keys of the database. `config/relationships_verified.yaml`
  has keys that `PROVIDER_FK_MAP` lacks, such as the one from `P_AFFL_TX` to `P_AFFL_TB`.
  When the heuristics take `p_affl_tx` for the owner of `p_affl_sk`, it is loaded first and
  the load of `p_affl_tb` empties it. `ConstraintsFound` says when that cannot be.

The code states "Zero orphans are guaranteed" (`data_generator.py:336`). The audit cannot
see the orphans because repair and audit both compare with the registry of generated
values, not with the files. The schemas are parts of the shipped one: a child before its
parent, two tables that own each other's key depending on their samples, a heuristic
that takes a column that is not a key for one, and a table without references. Two rows
are the fewest for which a column can have one good and one orphan cell.

## 8. Validation, correction, masking

`BatchValidation` defines the rules of `core/validation.py` and, from the documentation
of PostgreSQL, what an insertion asks (`Loads`): values in required columns and keys, texts
that fit their VARCHAR, keys and unique values that are neither repeated nor in the target
(`stored`, `taken`), and references that the target or an earlier row has. `CorrectionLoop` is
`run_correction_loop()` over the default rules, one action per iteration.
`MaskingPolicies` is a session of changes to the rules (`Propose`, `Override`,
`Propagate`) and of cells masked (`MaskCell`; `SeedGenerator` then `DrawWord` for a
synthetic value, since all requests share one generator that is seeded and then read).

| run | instance | what it shows |
|---|---|---|
| `quality` | every batch of three rows of one column, of each kind of name, and of two rows of two columns with a composite key or a reference to the table itself; limits 1 to 3. Sessions of three changes of rules and two masked cells over a chain of two references | `clean` is returned exactly for rows without errors; no iteration makes more errors than it corrects; rows found valid can be inserted exactly when no length is warned of and no unique value is in the target already; columns that the consistency check passes mask equal keys alike |

`MCQuality` runs both machines from one configuration; they share no state. What the
properties except, the code does:

* With `max_iterations = 1` the only correction is never validated: rows without errors
  come back as not clean (`VerdictExact` asks for more than one).
* A text longer than its column is a warning (`core/validation.py:220-223`), so a batch
  found valid may still be refused; and `UniqueRule` compares rows of the batch with one
  another, never with those stored. `ValidatedLoads` names these two gaps, and says that
  there is no third.
* The check compares strategies and salts, not the provider of a synthetic value nor a
  static value: two columns that pass may mask the same key differently
  (`SameDetail`).
* Two requests that mask synthetic values at once read from each other's seed: the mask
  of a key then depends on the other request (`alone`).
* `agent/subagents/masking_agent.py:6-8` says that a salt is shared across columns linked
  by foreign keys; `propose_masking_rule()` gives each table its own, and
  `propagate_fk_rules()` is called by tests only.
* The text of `ForeignKeyRule` (`core/validation.py:185`) advises a caller to add the
  batch's own keys to `existing_keys` for self references: `PrimaryKeyRule` then reports
  every row of the batch as already present.

## 9. Migration from Oracle

`DdlScript` is the parser of `ddl_converter.py` over tokens: `_split_statements()` with
its look-ahead, `_paren_body_at()` and `_top_level_split()`. A script is written from
statements made of texts, strings, comments and line breaks, and the property compares
what was parsed with what was written. What the parser has made of a text after each of
its tokens is a recursive function of the position (`Scan`, `LookAhead`, `Depths`,
`Cuts`). `DdlConversion` is what the converter makes of each statement; `Migration` is a
run of `converter.py`: each file converted statement by statement, the result executed
statement by statement, its sample rows loaded one by one, and the foreign keys of all
files added at the end. The database is modelled by tables with rows, indexes and foreign
keys, with what DROP ... CASCADE, CREATE, ON CONFLICT and ADD CONSTRAINT do to them:
tables and indexes share their names (`Taken`), a foreign key needs a unique index on the
columns that it refers to (`Serves`), and a repeated row is skipped where a unique index
refuses it. `Mentions` has what `_first_table_name()` finds in the raw text of a file.

Abstractions: a row has one key, which is what every unique index of its table is on and
is not null there, and one reference, that of every foreign key of its table; rows that
are equal count once.

| run | instance | what it shows |
|---|---|---|
| `migration` | scripts of two statements with up to two pieces each and a comment before the second; tables of two definitions of up to two pieces; three runs over three tables, two of which refer to each other, two faults at any step, an end of the process at any step | statements and definitions are found whole and alone; a run that ends without a fault leaves the same tables, indexes, foreign keys and samples, whatever the runs before it left: those of the files, with the exceptions below |

What the properties except, the code does:

* A line comment on the last line of a statement that no semicolon ends hides the end of
  that line (`ddl_converter.py:136`): the next statement is joined to it. `Separated`
  asks for a semicolon, or a new line of its own.
* `_paren_body_at()` counts parentheses in strings: after `DEFAULT ')'` the rest of the
  table's definitions is dropped without a word (`PlainStrings`).
* A primary key or a unique constraint added by ALTER TABLE is ignored
  (`ConvertAlter`, as the code's docstring says of all but foreign keys): `IndexesLost`.
  A foreign key that refers to it then fails in every run: `KeysExpected` asks for an
  index that is kept.
* `_first_table_name()` searches the text of the file, not its statements, and takes a
  schema without quotes for the table (`FirstTable`): for `CREATE TABLE PROVIDER.X` it
  returns "provider", and a comment may mention another table first. The table is created,
  its samples are not loaded, or those of a table of an earlier file are tried again, and
  no fault is reported: `Sampled` says whose samples are loaded.
* A foreign key that cannot be added is logged, and the summary still reports no failure
  (`converter.py:330`): with faults, a database without declared keys looks migrated.

Three runs: one to leave something behind, one that is interrupted over it, one to
converge. Two tables that refer to each other make every CASCADE and every order matter;
one of them has a plain schema and its key added by ALTER TABLE. The third refers to both
and its file begins with a comment on another table. Three rows of a sample are loaded
(`MaxRows`; two in the code): the first two have the same key and the third has none, and
the child has a fourth row, beyond the bound, to which the first one refers.
`CHECK_DEADLOCK FALSE`: faults and runs are bounded.

## 10. What is proved

All proofs are for any number of plans, threads, tables, requests and restarts.

| theorem | module | says |
|---|---|---|
| `TypeCorrect` | `PlanWorkflowProofs` | `Spec => []TypeOK`; beyond types, a request in flight has a plan, a loop has a current table and a tool to run |
| `Authorised`, `Completed` | `PlanWorkflowProofs` | `ExecutionAuthorised`, `CompletedHasResult` under every interleaving |
| `ParentsComeFirst` | `PlanWorkflowProofs` | `ParentsFirst` under every interleaving |
| `SerialImplementsLifecycle`, `SerialRunsOnce`, `SerialRecordsSubtasks`, `SerialStartsConfirmed`, `SerialDispatchKeepsStatus` | `PlanWorkflowProofs` | under `OneAtATime` (at most one request in flight), the files refine `PlanLifecycle`, one confirmation gives one execution, no subtask is lost |
| `SerialRunsApprovedRows`, `SerialCompletesOnApproved` | `PlanWorkflowProofs` | under `OneAtATime` and `FullUploads` (no uploaded file is empty), `ApprovedRowsOnly` and `CompletedOnApproved` |
| `CatalogTypeCorrect` | `CatalogProofs` | `Spec => []TypeOK` of `WorkspaceCatalog`; beyond types, numbers taken earlier stay within one of the length of their dictionary |
| `CatalogCovers`, `AnswersSurvive`, `CommitsGrow` | `CatalogProofs` | `Covering`, `AnsweredIsLoaded` and `CommittedNeverShrinks` under every interleaving, timeout and restart |
| `QuietCatalogInSync`, `SnapshotsHaveDetails` | `CatalogProofs` | `QuiescentInSync` and `DetailsCoverSnapshots`, likewise |
| `SerialAnswersStand`, `SerialJobsHaveSnapshots` | `CatalogProofs` | under `OneAtATime`, `AnsweredAsGiven` and `JobsHaveSnapshots`, through any timeouts and restarts |
| `OrderTypeCorrect`, `OrderInvariant`, `OrderParentsPrecede`, `OrderFindsCycles`, `OrderAlphabetical` | `InsertOrderProofs` | for every schema: `TypeOK`, `Ordering`, `ParentsPrecede`, `CycleFoundExactly`, `AlphabeticalAmongReady` |
| `AccountsTypeCorrect` | `UserAccountsProofs` | `Spec => []TypeOK` of `UserAccounts`, however requests and restarts overlap |
| `AdministratorStays` | `UserAccountsProofs` | `AloneKeepsAdmin`: for any finite set of users and any number of threads, tokens and restarts |
| `FileFollows` | `UserAccountsProofs` | `AloneSaves`, likewise: with the exceptions of section 6, a torn file and a crash |
| `GenerationInvariant` | `GenerationProofs` | `Spec => []GenInv`, the invariant of the generation, the repair and the load |
| `OneRound`, `AuditAlwaysPasses`, `FilesHaveNoOrphans`, `NoLoadIsUndone` | `GenerationProofs` | `OneRoundEnough`, `AuditPasses`, `NoOrphans`, `LoadedStays`: for any samples, number of rows and failures, and every choice that ties and random draws leave open |
| `VerdictIsExact`, `CorrectionNeverWorsens` | `QualityProofs` | `VerdictExact`, `NeverWorse`: for every table, batch and keys of the target; the first for every limit above one, the second for every limit |
| `ValidRowsLoad` | `QualityProofs` | `LoopSpec => []ValidatedLoads`: for every table, batch, keys and unique values of the target, the two gaps of section 8 named |
| `JoinsSurvive` | `QualityProofs` | `MaskSpec => []MaskedJoins`: for any columns, links, rules, values and overlapping requests |
| `SplitExactHolds` | `DdlScriptProofs` | `SplitExact`: for every script of statements made of texts, strings, comments and new lines, of any length, each but the last ended by a semicolon or a new line of its own |
| `BodyExactHolds` | `DdlScriptProofs` | `BodyExact`: for every table whose strings end and whose parentheses match, with any number of definitions, if no string holds a parenthesis |
| `RunsLeaveDeclared` | `MigrationProofs` | `MigrationSpec => []MigrationInv`, the invariant of the runs |
| `RunsConverge` | `MigrationProofs` | `RerunConverges`: for any export of the assumed form and whatever its text mentions, samples, limit on the rows, and number of runs and faults |

*Authority.* `ExecutionAuthorised` is not inductive: a thread holds a copy of the plan
(`buf`) that it will write over the file later, and its position in the code implies
checks it made earlier. `Authority` says of every file *and of every copy in flight* that
it claims no more than what happened (`Earned`), and of every thread that it is not past
the gate without a confirmation (`Licensed`). It needs no absence of overlap: statuses
written late are still statuses somebody earned. That is why authority survives the
races of section 3 while uniqueness does not.

*Serial.* The other properties are false when requests overlap (the violation runs) and
are proved for the condition under which they hold, `OneAtATime`, a temporal hypothesis
`[](...)`. `Serial` relates the thread in flight to its plan's file: the copy it will
write back is still the file's content (`Fits`), and a confirmation that was not used is
one the file still shows (`Settled`).

*Sorted.* `ParentsFirst` compares outputs of one execution with one another, and an
execution hands its tables to the database in separate steps. `Sorted` relates what was
produced to what is left: no table an execution still has to do comes before one that it
did, in the order that section 5 proves to put parents first. It needs that no two
requests carry the number of one execution, which holds although two requests may execute
one plan, because each start appends to the history what it then is numbered by.

*Approval.* What is executed comes from the row cache, what is approved is in the plan
file, and a preview changes the two in different steps. `Approval` says that outside of a
preview the rows cached for a table are exactly those that the stored preview shows if
this process stored it, and none if an earlier one did (`Cached`); what a preview in
flight has cached so far, and which tables an execution has yet to load (`Unloaded`); a
plan that is confirmed or executing has the preview that was approved. `FullUploads` is needed: the
preview of an empty file raises after rows were cached and before the preview is stored,
and then an execution does work on rows nobody approved (section 3).

*Covering.* Every commit deletes all rows and writes what a thread copied from
dictionaries that others were changing, so it is not evident that a commit never undoes
an earlier one. `Covering` orders three stores part by part (`KeepsPart`: as many
records, the same jobs first): the database before what a transaction has copied, what it
has copied before memory. It holds because the copy starts after the write lock is taken,
so that whatever an earlier transaction committed was in memory by then; the mutant
`MayWriteAtOnce` (no waiting) breaks it. A thread's own record is in memory before it
asks for the lock, hence in what it commits, hence in every later commit: that is
`AnswersSurvive`. Note what it does not say: the record found under an answered number
may be another thread's (section 4).

*Syncing.* `QuiescentInSync` speaks of rest, so the invariant must say who is going to
make it true: for each part of the catalogue, either some thread has yet to copy it, or a
thread holds a copy that is memory's, or nobody writes and the database has it
(`Fresh`). A thread that changes memory persists afterwards, so the one that changed it
last is one of the first kind; `~raised` is there because a copy that raises is not
repeated. `Detailed` rests on the order of the loops: tables and relations are copied
after the snapshots, and a snapshot of the transaction is still memory's when they are,
unless its number is marked as replaced (`Agrees`).

*Given.* Records are found by number, and a number is the length of a dictionary plus
one. When requests do not overlap the next number is free until its record is put
(`Alone`), so the database is what memory began with, record by record (`Begins`), and
loading it after a restart gives back each record under the number that was answered. A
job names the snapshot that its own request has put, or none.

*Ordering.* `ParentsPrecede` is inductive only with the meaning of the counters: each is
the number of parents not placed (`Counted`, by the facts on finite sets of the library),
`ready` is the set of tables that wait for nothing (`Readiness`), and `edges` are the
parents of the keys seen so far (`Edges`). That a cycle is never placed (`CyclesUnplaced`)
is preserved because a table is placed after its parents: the first of a cycle to be
placed would need another before it. Termination of the loops is not proved.

*Administrators.* `AloneKeepsAdmin` is about the change, its guard about the accounts of
an earlier step. `Safe`, the strengthening, says that a request which overlapped no other
is the only one in flight, and that between its check and its change what was checked
still holds: only the change of another request, which there is not, or a restart, which
empties the requests, could alter the accounts. The rest is counting: more than one
administrator leaves another one (`AnotherAdmin`). `AloneSaves` adds what such a request
may rely on at each step of its save (`Due`): the file it found, then the note it read,
then the file it emptied, then the accounts it copied. If there was no note when it
came, nothing is said of the file until the save opens it: an overlap may have left it
torn, and then the save raises.

*Quality.* `ValidLoads` compares the rules of the engine with the constraints of the
database one by one; it needs the keys of every table that is referred to
(`BatchAssumption`), since `ForeignKeyRule` is silent without them. What is left over are
lengths and stored unique values, on both sides of the equivalence. `MaskedJoins` is not
inductive, because rules change after cells were masked: `Honest` says of each masked cell
that its mask is what the rule *of that moment* makes of its value, and `Undisturbed` that
a request which overlapped no other still finds the generator as it seeded it.

*Correction.* `VerdictExact` is about the last iteration, which corrects without
validating again. `LoopInv` says that correcting once is enough: what a correction makes
of a cell is nothing it would correct again, so the rows that come back after a second
iteration are rows whose errors were counted. For `NeverWorse`: what is corrected of
a complete row is a key that repeats an earlier one, and the corrected key may be that of
a later row, which then is the repetition. Each error of this kind is sent to one that is
gone: of the row that now is the first with the key (`Payer`). The map is one to one,
hence there are no more errors than before.

*Generation.* `GenInv` follows the program through its phases. While tables are ordered
it is the invariant of Kahn's algorithm (`Placing`), here for an order that goes on with
the tables on a cycle; so an order has its parents first unless references form a circle
(`Ordered`). In a regular run what is left of a round is the end of that order
(`Suffix`), and every table before it has registered its keys (`Rounds`): nothing is
deferred. `Kept` says that registered values are in the files until a repair touches
their column, `Sound` that tables which were not forced refer to registered values
in every column that is not written over; from the two, no orphans. `Repaired` says that a repair changes only the column of its
reference, and a column has one reference (`Linked`), so none undoes another. `Loads`
says that no table that was loaded refers to one that is still to come: the tables of a
suffix are closed under references, hence under `Cascade` when `ConstraintsFound`. Which column a table's key is and which columns refer
to it, as the heuristics of `GenerationPlan` score them, is not looked into: the theorems
hold for any outcome with the shape that `Linked` states, and `Linked` is proved of it.

*Parsing.* Both properties say what a recursive function makes of every text. The
induction over positions is that of the least counterexample (`Induction`,
`IntervalInduction`, from `WFMin` of the library), and that a function with the given
equations exists is proved once (`Recursion`). A script is then followed piece by piece.
What has to be known after a piece of a statement is `Kept`: either everything from the
keyword on is in the statement that is being collected, or only white space is left and a
new line has ended the statement already, because the look-ahead found the next keyword
past the new lines and comments in between; either way `strip()` gives the same statement.
The look-ahead is right because comments close themselves: from the end of one it goes on
as from code.
`ScanStatement` is the step from one statement to the next, `ScriptSplit` the script. For
a table, `Closed` makes quotes and parentheses come out even after each piece, so the body
ends at the last parenthesis and no earlier (`ParenBodyOf`), and a comma is at depth zero
outside of strings exactly between two definitions (`CutDefinition`, `BodySplit`).

*Migration.* `RerunConverges` speaks of the end of one run, and what it starts from is
whatever earlier runs left. `Schema` says how bad that can be: tables, indexes and foreign
keys that the files declare, none of a table that is not there. A run without a fault then
makes each file `Migrated` in turn, and later files leave it so: of other tables their
DROP ... CASCADE takes foreign keys only, and a table that is done has none (`Untouched`),
because they are added after the last file.
`Program` follows the conversion: whatever stands before or between, the list begins with
the DROP and the CREATE of the file's table and has the index of every statement for one.
`Executing` says how far this list is: before the DROP anything may be left in the
database, before the CREATE the table and with it all its index names are gone, so it is
not rejected, and no name is another table's (`NameAssumption`); after it each declared
index that is kept is there or still to come. The sample that a file loads may be that of
an earlier file's table, or of none: `Count` is how many rows of a table's sample were
tried by the files so far (`LoadedBy`), `CountNow` the same while one is loading, and
`Migrated` compares the table with these rows (`FirstsOf`). No foreign key refuses a row,
since none is there yet, and a sample that is loaded again changes nothing. What remains
is that a key is added if and only if an index serves it and the samples respect it.

Assumptions used: those named in `PlanWorkflow` (`TableAssumption`, `InputAssumption`,
`NoneAssumption`), in `WorkspaceCatalog` (`CatalogAssumption`, `NoneAssumption`), in
`InsertOrder` (`OrderAssumption`), in `UserAccounts` (`AccountAssumption`,
`BoundAssumption`), in `GenerationPlan` and `Generation` (`ScaleAssumption`,
`RowAssumption`, `SchemaAssumption`, `FileAssumption`), in `CorrectionLoop`
(`BatchAssumption`, `CellAssumption`, `IterationAssumption`), in `DdlScript`
(`ScriptAssumption`, `DefinitionsAssumption`) and in `Migration` (`SourceAssumption`,
`NameAssumption`, `SampleAssumption`), which TLC evaluates on every run. Those of
`DdlScript` say what is well-formed: a statement starts with its keyword, no other keyword
stands outside of strings and comments, new lines and comments may stand anywhere, the
quotes in a string are doubled, a comment does not hold its own end; a definition is not
blank, and its commas are in lists or strings. Those of `Migration` are about the input.
`SourceAssumption` is the form of the export that `ddl_converter.py:4-8` describes: a file
has one table, with its indexes and comments after it; no two files have the same table.
What the text of a file mentions, and in which form, is not restricted.
`NameAssumption` is what Oracle enforced in the schema that was exported: foreign keys
refer to tables that are there (here: that were exported too), and names of constraints
and indexes are not used twice. It asks for more than Oracle in one
respect: no index has the name of a table, since PostgreSQL keeps both in one namespace.
Two theorems add `FullUploads`, which the run `workflow_serial` satisfies, and those called
`Serial...` the temporal hypothesis `[]OneAtATime`, which the behaviours of the serial runs
satisfy.

Only model-checked:

* The liveness properties `ExecutingEnds`, `EventuallyPersisted` and
  `RevocationTakesEffect`, and that loops terminate: out of the prover's reach.
* The two disagreements of the violation runs, which are counterexamples.

## 11. What is not modelled

`components` of `PROJECT.json` has each part and its reason. In short:

* Formats: hashes, masks, SQL text, types and defaults of columns, timestamps, reports
  and logs. No property is about them.
* Adapters and drivers (`adapters/`): thin calls; four of the adapters are stubs. What
  PostgreSQL and SQLite promise is modelled where the code relies on it, and marked
  external.
* Read-only parts: the schema agent, the schema and job screens, the glossary, the
  pattern statistics that do not decide how keys are generated.
* Shared storage and the audit log: every blob has a fresh name and one writer, every
  event is one appended line.
* The browser client: what it may send is what the requests of the models range over.
* Steps inside the write of a plan file, and Redis variants that nothing constructs.
