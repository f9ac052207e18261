------------------------------ MODULE PlanWorkflow ------------------------------
(***************************************************************************)
(* The plan workflow: Plan -> Preview -> Confirm -> Execute, as served by   *)
(* the REST handlers of backend/routers/agent.py on top of ManagerAgent     *)
(* (agent/manager.py) and PlanMemory (agent/plan_memory.py).                *)
(*                                                                         *)
(* The handlers are synchronous functions, so the web framework runs each  *)
(* request in a thread of its pool: several requests are in flight at once, *)
(* and they share one JSON file per plan and two in-process dictionaries.   *)
(* A request is an element of Request; one step of it is one access to     *)
(* shared state (a file read, a file write, a dictionary read or write),   *)
(* and steps of different requests interleave.                             *)
(*                                                                         *)
(* Abstractions.  A file is read or written in one step.  A batch of rows  *)
(* is an opaque value; EmptyBatch is [].  A masking policy is the fact     *)
(* that a table has one (every policy the workflow makes for a table is    *)
(* the same).  A list of tables is a set: a request naming one table twice *)
(* is outside the model.  A JSON detail blob of SharedStorage has a fresh  *)
(* name and is read only by its writer, so it is left out.                 *)
(***************************************************************************)
EXTENDS Naturals, Sequences, FiniteSets

CONSTANTS
  PlanId,        \* uuids a plan may get
  Request,       \* handler threads
  Table,         \* tables of the introspected schema
  InsertRank,    \* position of a table in SchemaGraph.topological_insert_order()
  Parents,       \* tables a table has foreign keys to
  Batch,         \* batches of rows
  EmptyBatch,    \* the batch with no row
  Upload,        \* the files a preview request may carry: a batch for each table
  Reply,         \* replies the language model may give
  NoTable,       \* a reply that names no table
  UnknownTable,  \* a name that is not in the schema
  None,          \* Python's None, for a preview or result not there yet
  LiveAdapter,   \* TRUE when execute_fan_out() is handed a DatabasePort
  EveryTool,     \* bound: FALSE keeps one dispatch per table of each loop, as the
                 \* others only repeat its read-modify-write of the plan
  MaxRequests,   \* bound: requests served
  MaxRestarts    \* bound: restarts of the backend process

ASSUME TableAssumption ==
  /\ InsertRank \in [Table -> Nat]
  /\ \A t, u \in Table : InsertRank[t] = InsertRank[u] => t = u
  /\ Parents \in [Table -> SUBSET Table]
  /\ \A t \in Table : \A u \in Parents[t] : InsertRank[u] < InsertRank[t]

Intent == {"validate", "mask", "schema_question", "multi_table_job", "unclear"}

ASSUME InputAssumption ==
  /\ EmptyBatch \in Batch
  /\ Upload \subseteq [Table -> Batch]
  /\ Reply \subseteq [intent : Intent \cup {"unparsable"},
                      table  : Table \cup {NoTable, UnknownTable},
                      tables : SUBSET (Table \cup {UnknownTable})]
  /\ NoTable \notin Table /\ UnknownTable \notin Table
  /\ LiveAdapter \in BOOLEAN /\ EveryTool \in BOOLEAN
  /\ MaxRequests \in Nat /\ MaxRestarts \in Nat

VARIABLES
  disk,        \* plan files: what PlanMemory.read() returns for each id
  rowsCache,   \* _pending_rows: a batch for each plan and table
  policyCache, \* _pending_policies: the plans and tables that have one
  req,         \* state of each request in flight
  outputs,     \* what the executions produced: CSV files, scripts, rows
  served,      \* number of requests started
  restarts,    \* number of restarts of the process
  history      \* what happened, for the properties: see Untouched

vars == <<disk, rowsCache, policyCache, req, outputs, served, restarts, history>>

-----------------------------------------------------------------------------
(* Plan records *)

Status == {"planning", "awaiting_confirmation", "confirmed", "rejected",
           "executing", "completed", "failed"}

\* A batch for each table and the tables with a masking policy: what a preview
\* shows, what an execution works on, what a result reports.
Dataset == [rows : [Table -> Batch], masked : SUBSET Table]

NoData == [rows |-> [t \in Table |-> EmptyBatch], masked |-> {}]

ASSUME NoneAssumption == None \notin Dataset

\* "absent" is the status of a plan whose file does not exist.  targets is
\* plan.tables of a fan-out plan, and the set of plan.table of any other.
PlanRecord == [status   : Status \cup {"absent"},
               intent   : Intent,
               targets  : SUBSET Table,
               preview  : Dataset \cup {None},
               result   : Dataset \cup {None},
               subtasks : Nat]

NoPlan == [status |-> "absent", intent |-> "unclear", targets |-> {},
           preview |-> None, result |-> None, subtasks |-> 0]

Exists(p) == disk[p].status # "absent"

FanOut(p) == disk[p].intent = "multi_table_job"

-----------------------------------------------------------------------------
(* Requests *)

Step == {"idle", "cache_rows", "next_table", "dispatch", "record", "status_read", "status_write",
         "cache_policy", "load_rows", "load_policy", "gate", "work",
         "sql_gate", "sql_apply"}

\* The tools the Manager dispatches to subagents.
Action == {"profile_file", "diff_against_schema", "validate_batch",
           "classify_sensitivity", "propose_masking_rule", "apply_masking_dry_run",
           "generate_sql", "estimate_execution_time", "build_rollback_plan",
           "execute_sql"}

RequestState == [at   : Step,
                 op   : {"none", "preview", "confirm", "execute"},
                 plan : PlanId \cup {None},
                 data : Dataset,            \* rows and policies it works with
                 todo : SUBSET Table,       \* tables left in the current loop
                 table : Table \cup {NoTable}, \* table the loop is at
                 acts : Seq(Action),        \* dispatches left for the current table
                 buf  : PlanRecord,         \* plan object read and not yet written back
                 goal : Status,             \* status its next update_status() sets
                 run  : Nat]                \* its execution's number, for history

Idle == [at |-> "idle", op |-> "none", plan |-> None, data |-> NoData, todo |-> {},
         table |-> NoTable, acts |-> <<>>, buf |-> NoPlan, goal |-> "planning", run |-> 0]

\* A request in flight has a plan, and a table and a tool where it uses them.
InPlace(s) ==
  /\ s.at # "idle" => s.plan \in PlanId
  /\ s.at = "load_policy" => s.table \in Table
  /\ s.at \in {"dispatch", "record", "sql_gate", "sql_apply"} => s.table \in Table /\ s.acts # <<>>

\* A masked CSV, a SQL script, or rows in the database.
OutputRecord == [plan : PlanId, run : Nat, table : Table, rows : Batch,
                 masked : BOOLEAN, form : {"csv", "script", "database"}]

HistoryRecord == [confirms : Nat, approved : Dataset \cup {None},
                  runs : Seq(Dataset \cup {None}), dispatched : Nat,
                  previewed : Nat, started : Nat, raised : Nat]

\* confirms: confirmations written; approved: the preview in the record that the
\* last confirmation wrote; runs: for each execution started, what was approved
\* when it started; dispatched: subtasks dispatched; previewed, started: the process
\* (by the restarts before it) that stored the last preview, that started the last
\* execution; raised: previews that ended in an exception.
Untouched == [confirms |-> 0, approved |-> None, runs |-> <<>>, dispatched |-> 0,
              previewed |-> 0, started |-> 0, raised |-> 0]

TypeOK ==
  /\ disk \in [PlanId -> PlanRecord]
  /\ rowsCache \in [PlanId \X Table -> Batch]
  /\ policyCache \subseteq PlanId \X Table
  /\ req \in [Request -> RequestState]
  /\ \A r \in Request : InPlace(req[r])
  /\ outputs \subseteq OutputRecord
  /\ served \in Nat
  /\ restarts \in Nat
  /\ history \in [PlanId -> HistoryRecord]

Init ==
  /\ disk = [p \in PlanId |-> NoPlan]
  /\ rowsCache = [k \in PlanId \X Table |-> EmptyBatch]
  /\ policyCache = {}
  /\ req = [r \in Request |-> Idle]
  /\ outputs = {}
  /\ served = 0
  /\ restarts = 0
  /\ history = [p \in PlanId |-> Untouched]

caches == <<rowsCache, policyCache>>
bounds == <<served, restarts>>

-----------------------------------------------------------------------------
(* POST /plan: ManagerAgent.plan() and PlanMemory.create() *)

Recognised(reply) ==
  /\ reply.intent # "unparsable"
  /\ reply.table # UnknownTable
  /\ reply.tables \subseteq Table

NeedsClarifying(reply) ==
  \/ reply.intent = "unclear"
  \/ reply.intent \in {"validate", "mask"} /\ reply.table = NoTable
  \/ reply.intent = "multi_table_job" /\ Cardinality(reply.tables) < 2

\* Mutant: a resolved plan is born confirmed.
NewPlanConfirmed(intent, targets) ==
  [NoPlan EXCEPT !.status  = IF intent = "unclear" THEN "planning" ELSE "confirmed",
                 !.intent  = intent,
                 !.targets = targets]

\* A clarifying question is attached exactly when the intent is "unclear".
NewPlan(intent, targets) ==
  [NoPlan EXCEPT !.status  = IF intent = "unclear" THEN "planning"
                                                   ELSE "awaiting_confirmation",
                 !.intent  = intent,
                 !.targets = targets]

Draft(reply) ==
  LET named == {reply.table} \ {NoTable}
  IN IF ~Recognised(reply) THEN NewPlan("unclear", {})
     ELSE IF NeedsClarifying(reply) THEN NewPlan("unclear", named)
     ELSE NewPlan(reply.intent,
                  IF reply.intent = "multi_table_job" THEN reply.tables ELSE named)

CreatePlan(p, reply) ==
  /\ ~Exists(p)
  /\ served < MaxRequests
  /\ served' = served + 1
  /\ disk' = [disk EXCEPT ![p] = Draft(reply)]
  /\ UNCHANGED <<caches, req, outputs, restarts, history>>

-----------------------------------------------------------------------------
(* The read-modify-write of PlanMemory.update_status(), used by every handler *)

\* Mutant: a new preview leaves the status as it was.
UpdatedQuietly(s) ==
  [s.buf EXCEPT !.status  = IF s.op = "preview" THEN @ ELSE s.goal,
                !.preview = IF s.op = "preview" THEN s.data ELSE @,
                !.result  = IF s.goal = "completed" THEN s.data ELSE @]

\* Mutant: the result is not passed to update_status().
UpdatedWithoutResult(s) ==
  [s.buf EXCEPT !.status  = s.goal,
                !.preview = IF s.op = "preview" THEN s.data ELSE @]

\* Mutant: the plan is built anew, without the subtasks it had.
UpdatedAnew(s) ==
  [s.buf EXCEPT !.status   = s.goal,
                !.preview  = IF s.op = "preview" THEN s.data ELSE @,
                !.result   = IF s.goal = "completed" THEN s.data ELSE @,
                !.subtasks = 0]

\* The plan object update_status() writes: the one it read, with the new status
\* and the extra field of the call.
Updated(s) ==
  [s.buf EXCEPT !.status  = s.goal,
                !.preview = IF s.op = "preview" THEN s.data ELSE @,
                !.result  = IF s.goal = "completed" THEN s.data ELSE @]

UpdateStatusRead(r) ==
  /\ req[r].at = "status_read"
  /\ req' = [req EXCEPT ![r] = [@ EXCEPT !.at = "status_write", !.buf = disk[req[r].plan]]]
  /\ UNCHANGED <<disk, caches, outputs, bounds, history>>

\* What the request goes on to do after the write: preview_plan() caches its
\* policies, execute() starts to work, and anything else answers.
AfterUpdate(s) ==
  IF s.op = "preview" /\ s.data.masked # {}
  THEN [s EXCEPT !.at = "cache_policy", !.todo = s.data.masked, !.buf = NoPlan]
  ELSE IF s.goal = "executing"
  THEN [s EXCEPT !.at   = IF s.buf.intent = "multi_table_job" THEN "next_table" ELSE "work",
                 !.todo = s.buf.targets,
                 !.buf  = NoPlan,
                 !.goal = "completed",
                 !.run  = Len(history[s.plan].runs) + 1]
  ELSE Idle

Recorded(h, s) ==
  CASE s.goal = "confirmed" -> [h EXCEPT !.confirms = @ + 1, !.approved = s.buf.preview]
    [] s.goal = "executing" -> [h EXCEPT !.runs = Append(@, h.approved), !.started = restarts]
    [] s.goal = "awaiting_confirmation" -> [h EXCEPT !.previewed = restarts]
    [] OTHER -> h

UpdateStatusWrite(r) ==
  LET s == req[r]
  IN /\ s.at = "status_write"
     /\ disk' = [disk EXCEPT ![s.plan] = Updated(s)]
     /\ history' = [history EXCEPT ![s.plan] = Recorded(@, s)]
     /\ req' = [req EXCEPT ![r] = AfterUpdate(s)]
     /\ UNCHANGED <<caches, outputs, bounds>>

-----------------------------------------------------------------------------
(* dispatch_subagent(): run the tool, then read, append a subtask, write *)

DispatchStep(acts) == IF Head(acts) = "execute_sql" THEN "sql_gate" ELSE "dispatch"

PreviewActions(data) ==
  IF ~EveryTool THEN <<"profile_file">>
  ELSE IF data.masked = {}
  THEN <<"profile_file", "diff_against_schema", "validate_batch">>
  ELSE <<"profile_file", "diff_against_schema", "validate_batch",
         "classify_sensitivity", "propose_masking_rule", "apply_masking_dry_run">>

ExecuteActions ==
  IF EveryTool /\ LiveAdapter
  THEN <<"generate_sql", "estimate_execution_time", "build_rollback_plan", "execute_sql">>
  ELSE IF EveryTool THEN <<"generate_sql", "estimate_execution_time", "build_rollback_plan">>
  ELSE IF LiveAdapter THEN <<"execute_sql">> ELSE <<"generate_sql">>

\* Mutant: tables are executed as listed.
MayBeNextAsListed(op, t, todo) == t \in todo

\* The order of the loop over tables: execute_fan_out() sorts them so that
\* parents come first, run_fan_out_preview() takes them as listed.
MayBeNext(op, t, todo) == op = "execute" => \A u \in todo : InsertRank[t] <= InsertRank[u]

\* The loop picks its next table, or ends with update_status().
NextTable(r) ==
  LET s == req[r]
      acts == IF s.op = "execute" THEN ExecuteActions ELSE PreviewActions(s.data)
  IN /\ s.at = "next_table"
     /\ \/ /\ s.todo = {}
           /\ req' = [req EXCEPT ![r] = [s EXCEPT !.at = "status_read"]]
        \/ \E t \in s.todo :
             /\ MayBeNext(s.op, t, s.todo)
             /\ req' = [req EXCEPT ![r] = [s EXCEPT !.at = DispatchStep(acts), !.table = t,
                                                    !.todo = @ \ {t}, !.acts = acts]]
     /\ UNCHANGED <<disk, caches, outputs, bounds, history>>

\* What an execution of the request produces for table t.
Output(s, t, form) ==
  [plan |-> s.plan, run |-> s.run, table |-> t, rows |-> s.data.rows[t],
   masked |-> t \in s.data.masked, form |-> form]

\* The tool runs, and dispatch_subagent() reads the plan.  Only generate_sql
\* leaves something behind: the script of the rows, if there are any.
DispatchSubagent(r) ==
  LET s == req[r]
  IN /\ s.at = "dispatch"
     /\ outputs' = IF Head(s.acts) = "generate_sql" /\ s.data.rows[s.table] # EmptyBatch
                   THEN outputs \cup {Output(s, s.table, "script")} ELSE outputs
     /\ req' = [req EXCEPT ![r] = [s EXCEPT !.at = "record", !.buf = disk[s.plan]]]
     /\ UNCHANGED <<disk, caches, bounds, history>>

\* A profile of an empty file has no detail_pointer: run_fan_out_preview()
\* raises when it dereferences it, after the dispatch was recorded.
Raises(s) == Head(s.acts) = "profile_file" /\ s.data.rows[s.table] = EmptyBatch

AfterRecord(s) ==
  IF Raises(s) THEN Idle
  ELSE IF Len(s.acts) = 1
  THEN [s EXCEPT !.at = "next_table", !.table = NoTable, !.acts = <<>>, !.buf = NoPlan]
  ELSE [s EXCEPT !.at = DispatchStep(Tail(s.acts)), !.acts = Tail(@), !.buf = NoPlan]

\* Mutant: the object written carries the status the caller's plan had when the
\* request began (the bug ADR-0004 reports as fixed).
WithSubtaskOfCaller(r) ==
  [req[r].buf EXCEPT !.subtasks = @ + 1, !.status = "awaiting_confirmation"]

\* The plan object dispatch_subagent() writes.
WithSubtask(r) == [req[r].buf EXCEPT !.subtasks = @ + 1]

Dispatched(h, s) ==
  [h EXCEPT !.dispatched = @ + 1, !.raised = IF Raises(s) THEN @ + 1 ELSE @]

RecordSubtask(r) ==
  LET s == req[r]
  IN /\ s.at = "record"
     /\ disk' = [disk EXCEPT ![s.plan] = WithSubtask(r)]
     /\ history' = [history EXCEPT ![s.plan] = Dispatched(@, s)]
     /\ req' = [req EXCEPT ![r] = AfterRecord(s)]
     /\ UNCHANGED <<caches, outputs, bounds>>

-----------------------------------------------------------------------------
(* POST /{plan_id}/preview: preview_plan(), preview(), run_fan_out_preview() *)

\* The tables a preview makes a masking policy for: those of a fan-out job when
\* the request says mask, and the table of a "mask" plan.
PreviewPolicies(plan, mask) ==
  IF plan.intent = "mask" \/ (plan.intent = "multi_table_job" /\ mask)
  THEN plan.targets ELSE {}

\* A plan without a table raises before anything is stored under a table.
PreviewPlan(r, p, uploaded, mask) ==
  /\ req[r].at = "idle"
  /\ served < MaxRequests
  /\ Exists(p) /\ disk[p].intent # "unclear" /\ disk[p].targets # {}
  /\ served' = served + 1
  /\ req' = [req EXCEPT ![r] =
       [Idle EXCEPT !.at = "cache_rows", !.op = "preview", !.plan = p,
                    !.data = [rows |-> [t \in Table |-> IF t \in disk[p].targets
                                                        THEN uploaded[t] ELSE EmptyBatch],
                              masked |-> PreviewPolicies(disk[p], mask)],
                    !.todo = disk[p].targets,
                    !.goal = "awaiting_confirmation"]]
  /\ UNCHANGED <<disk, caches, outputs, restarts, history>>

\* cache_rows() for one table; after the last one the Manager takes over.
CacheRows(r) ==
  LET s == req[r]
  IN /\ s.at = "cache_rows"
     /\ \E t \in s.todo :
          /\ rowsCache' = [rowsCache EXCEPT ![<<s.plan, t>>] = s.data.rows[t]]
          /\ req' = [req EXCEPT ![r] =
               IF s.todo # {t} THEN [s EXCEPT !.todo = @ \ {t}]
               ELSE IF FanOut(s.plan)
               THEN [s EXCEPT !.at = "next_table", !.todo = disk[s.plan].targets]
               ELSE [s EXCEPT !.at = "status_read", !.todo = {}]]
     /\ UNCHANGED <<disk, policyCache, outputs, bounds, history>>

CachePolicy(r) ==
  LET s == req[r]
  IN /\ s.at = "cache_policy"
     /\ \E t \in s.todo :
          /\ policyCache' = policyCache \cup {<<s.plan, t>>}
          /\ req' = [req EXCEPT ![r] = IF s.todo = {t} THEN Idle
                                       ELSE [s EXCEPT !.todo = @ \ {t}]]
     /\ UNCHANGED <<disk, rowsCache, outputs, bounds, history>>

-----------------------------------------------------------------------------
(* POST /{plan_id}/confirm: confirm_plan(), request_human_confirmation() *)

\* Mutant: a status that PlanStatus does not declare.
DecisionMisspelt(yes) == IF yes THEN "approved" ELSE "rejected"

Decision(yes) == IF yes THEN "confirmed" ELSE "rejected"

ConfirmPlan(r, p, yes) ==
  /\ req[r].at = "idle"
  /\ served < MaxRequests
  /\ Exists(p)
  /\ served' = served + 1
  /\ req' = [req EXCEPT ![r] = [Idle EXCEPT !.at = "status_read", !.op = "confirm",
                                            !.plan = p, !.goal = Decision(yes)]]
  /\ UNCHANGED <<disk, caches, outputs, restarts, history>>

-----------------------------------------------------------------------------
(* POST /{plan_id}/execute: execute_plan(), execute(), execute_fan_out() *)

ExecutePlan(r, p) ==
  /\ req[r].at = "idle"
  /\ served < MaxRequests
  /\ Exists(p)
  /\ served' = served + 1
  /\ req' = [req EXCEPT ![r] =
       [Idle EXCEPT !.at = IF disk[p].targets = {} THEN "gate" ELSE "load_rows",
                    !.op = "execute", !.plan = p,
                    !.todo = disk[p].targets, !.goal = "executing"]]
  /\ UNCHANGED <<disk, caches, outputs, restarts, history>>

LoadRows(r) ==
  LET s == req[r]
  IN /\ s.at = "load_rows"
     /\ \E t \in s.todo :
          req' = [req EXCEPT ![r] = [s EXCEPT !.at = "load_policy", !.table = t,
                                              !.data.rows[t] = rowsCache[<<s.plan, t>>]]]
     /\ UNCHANGED <<disk, caches, outputs, bounds, history>>

LoadPolicy(r) ==
  LET s == req[r]
  IN /\ s.at = "load_policy"
     /\ req' = [req EXCEPT ![r] = [s EXCEPT
          !.at = IF s.todo = {s.table} THEN "gate" ELSE "load_rows",
          !.table = NoTable,
          !.todo = @ \ {s.table},
          !.data.masked = IF <<s.plan, s.table>> \in policyCache THEN @ \cup {s.table} ELSE @]]
     /\ UNCHANGED <<disk, caches, outputs, bounds, history>>

\* Mutant: anything that awaits or has a confirmation may run.
MayExecuteShown(plan) == plan.status \in {"confirmed", "awaiting_confirmation"}

\* Mutant: a completed plan may run again.
MayExecuteAgain(plan) == plan.status \in {"confirmed", "completed"}

MayExecute(plan) == plan.status = "confirmed"

\* execute() re-reads the plan and refuses it with PermissionError.
Gate(r) ==
  /\ req[r].at = "gate"
  /\ req' = [req EXCEPT ![r] = IF MayExecute(disk[req[r].plan])
                               THEN [@ EXCEPT !.at = "status_read"] ELSE Idle]
  /\ UNCHANGED <<disk, caches, outputs, bounds, history>>

\* The work of execute().  It raises when the plan has no table; "mask" writes
\* the masked rows, under the cached policy or the default one; every other
\* intent produces a summary only.
Work(r) ==
  LET s == req[r]
      masking == disk[s.plan].intent = "mask"
      ready == [s EXCEPT !.at = "status_read", !.todo = {},
                         !.data.masked = IF masking THEN s.todo ELSE {}]
  IN /\ s.at = "work"
     /\ req' = [req EXCEPT ![r] = IF s.todo = {} THEN Idle ELSE ready]
     /\ outputs' = outputs \cup
          {Output(ready, t, "csv") : t \in {t \in s.todo : masking /\ s.data.rows[t] # EmptyBatch}}
     /\ UNCHANGED <<disk, caches, bounds, history>>

\* Mutant: execute_sql() takes its plan to be confirmed still.
MayWriteConfirmed(plan) == plan.status = "confirmed"

\* ExecutionReportAgent.execute_sql(): its own gate on the stored status.
MayWrite(plan) == plan.status \in {"confirmed", "executing"}

ExecuteSqlGate(r) ==
  /\ req[r].at = "sql_gate"
  /\ req' = [req EXCEPT ![r] = IF MayWrite(disk[req[r].plan])
                               THEN [@ EXCEPT !.at = "sql_apply"] ELSE Idle]
  /\ UNCHANGED <<disk, caches, outputs, bounds, history>>

\* adapter.execute() for every statement: failures are counted and the loop goes
\* on, so the table's rows are in the database or not.
ApplyStatements(r) ==
  LET s == req[r]
  IN /\ s.at = "sql_apply"
     /\ \/ outputs' = outputs
        \/ /\ s.data.rows[s.table] # EmptyBatch
           /\ outputs' = outputs \cup {Output(s, s.table, "database")}
     /\ req' = [req EXCEPT ![r] = [s EXCEPT !.at = "dispatch"]]
     /\ UNCHANGED <<disk, caches, bounds, history>>

-----------------------------------------------------------------------------
\* The process stops and starts again: requests in flight and both dictionaries
\* are gone, the plan files stay.
Restart ==
  /\ restarts < MaxRestarts
  /\ restarts' = restarts + 1
  /\ req' = [r \in Request |-> Idle]
  /\ rowsCache' = [k \in PlanId \X Table |-> EmptyBatch]
  /\ policyCache' = {}
  /\ UNCHANGED <<disk, outputs, served, history>>

Continue(r) ==
  \/ CacheRows(r) \/ CachePolicy(r) \/ NextTable(r)
  \/ DispatchSubagent(r) \/ RecordSubtask(r)
  \/ UpdateStatusRead(r) \/ UpdateStatusWrite(r)
  \/ LoadRows(r) \/ LoadPolicy(r) \/ Gate(r) \/ Work(r)
  \/ ExecuteSqlGate(r) \/ ApplyStatements(r)

Serve(r) ==
  \E p \in PlanId :
    \/ \E uploaded \in Upload, mask \in BOOLEAN : PreviewPlan(r, p, uploaded, mask)
    \/ \E yes \in BOOLEAN : ConfirmPlan(r, p, yes)
    \/ ExecutePlan(r, p)

Next ==
  \/ \E p \in PlanId, reply \in Reply : CreatePlan(p, reply)
  \/ \E r \in Request : Serve(r) \/ Continue(r)
  \/ Restart

Spec == Init /\ [][Next]_vars

\* The operating system runs every thread of the pool: a request that can take
\* a step takes one eventually.  Nothing says that a client sends a request.
FairSpec == Spec /\ \A r \in Request : WF_vars(Continue(r))

-----------------------------------------------------------------------------
(* The status machine that the plan files show *)

statuses == [p \in PlanId |-> disk[p].status]

Lifecycle == INSTANCE PlanLifecycle WITH status <- statuses

-----------------------------------------------------------------------------
(* Properties that hold whatever the interleaving *)

\* No execution starts, and nothing is produced, for a plan that nobody ever
\* confirmed: stale writes of whole plan records never forge a confirmation
\* (execute() and execute_sql() trust the stored status alone).
ExecutionAuthorised ==
  /\ \A p \in PlanId : Len(history[p].runs) > 0 => history[p].confirms > 0
  /\ \A o \in outputs : o.run \in 1 .. Len(history[o.plan].runs)

\* A record that says "completed" carries the result of an execution that did
\* start, also when another request wrote the record back from an older read.
CompletedHasResult ==
  \A p \in PlanId : disk[p].status = "completed" =>
    disk[p].result # None /\ Len(history[p].runs) > 0

\* In each execution a table's rows follow those of the tables it references,
\* whatever order the tables were listed in (execute_fan_out()'s ordering).
ParentsFirst ==
  \A o \in outputs : \A t \in Parents[o.table] :
    \A r \in Request :
      (req[r].plan = o.plan /\ req[r].run = o.run /\ req[r].op = "execute")
        => t \notin req[r].todo

\* A plan that has a table does not stay in "executing", unless the process is restarted
\* or a preview of the plan raised: every other thread that writes that status, be it a
\* stale one, goes on to write another.  (A preview of an empty file raises after it may
\* have written a stale "executing" back; an execution without a table raises after it
\* wrote its own.)
ExecutingEnds ==
  \A p \in PlanId :
    (disk[p].status = "executing" /\ disk[p].targets # {} /\ restarts = 0)
      ~> (disk[p].status # "executing" \/ history[p].raised > 0 \/ restarts > 0)

-----------------------------------------------------------------------------
(* Properties that hold when requests are served one at a time *)

\* The statuses a client reads move as PlanLifecycle says: in particular a plan
\* starts from "confirmed" only and completes from "executing" only.
ImplementsLifecycle == Lifecycle!Spec

\* One confirmation authorises one execution.
OneRunPerConfirmation ==
  \A p \in PlanId : Len(history[p].runs) <= history[p].confirms

\* An execution starts from a record that says "confirmed" at that moment.
StartsFromConfirmed ==
  [][\A p \in PlanId : history'[p].runs # history[p].runs => disk[p].status = "confirmed"]_vars

\* Recording a subtask leaves the plan's status alone (dispatch_subagent()).
DispatchKeepsStatus ==
  [][\A p \in PlanId : disk'[p].subtasks # disk[p].subtasks
                         => disk'[p].status = disk[p].status]_vars

\* Every subtask dispatched for a plan is in the plan's subtasks.
SubtasksAllRecorded ==
  \A p \in PlanId : disk[p].subtasks = history[p].dispatched

\* The rows an execution produces are rows that the approved preview showed.
ApprovedRowsOnly ==
  \A o \in outputs :
    LET shown == history[o.plan].runs[o.run]
    IN shown # None /\ o.rows = shown.rows[o.table]

\* A completed plan reports a result over exactly the rows that were approved if the
\* process that stored their preview is the one that started the execution, and over no
\* rows at all otherwise: after a restart in between, or without a preview.
CompletedOnApproved ==
  \A p \in PlanId : disk[p].status = "completed" =>
    LET h == history[p]
        kept == h.approved # None /\ h.previewed = h.started
    IN \A t \in Table : disk[p].result.rows[t] = IF kept THEN h.approved.rows[t] ELSE EmptyBatch

-----------------------------------------------------------------------------
(* Inductive strengthenings: see PlanWorkflowProofs *)

\* The statuses that show, or wrongly grant, the right to execute.
Armed == {"confirmed", "executing", "completed"}

\* A plan object says no more than what happened to its plan.
Earned(plan, h) ==
  /\ plan.status \in Armed => h.confirms > 0
  /\ plan.status = "completed" => plan.result # None /\ Len(h.runs) > 0

BeforeGate == {"load_rows", "load_policy", "gate"}

PreviewTool == Action \ {"generate_sql", "execute_sql"}

\* What a request in flight may be about to do, given the history h of its plan:
\* the object it would write back, and how far its execution has come, grant
\* nothing that was not confirmed; only a started execution produces anything.
Licensed(s, h) ==
  /\ Earned(s.buf, h)
  /\ s.op = "execute" /\ s.at \notin BeforeGate => h.confirms > 0
  /\ s.goal = "executing" => /\ s.op = "execute"
                             /\ s.at \in BeforeGate \cup {"status_read", "status_write"}
  /\ s.goal = "completed" => /\ s.op = "execute" /\ s.at \notin BeforeGate
                             /\ s.run \in 1 .. Len(h.runs)
  /\ s.at \in {"work", "sql_gate", "sql_apply"} => s.goal = "completed"
  /\ s.at \in {"cache_rows", "next_table", "dispatch", "record"}
       => s.op = "preview" \/ s.goal = "completed"
  /\ s.op = "preview" => s.goal = "awaiting_confirmation" /\ s.acts \in Seq(PreviewTool)

\* What carries ExecutionAuthorised and CompletedHasResult: every plan file says
\* no more than what happened, and neither does what a request may write over it.
Authority ==
  /\ \A p \in PlanId : Earned(disk[p], history[p])
  /\ \A r \in Request : req[r].at # "idle" => Licensed(req[r], history[req[r].plan])
  /\ ExecutionAuthorised

\* How a request in flight stands to the file of its plan when no other request
\* touches it: the object about to be written back is still what the file holds,
\* and the file's status follows the execution.
Fits(s, plan) ==
  /\ plan.status # "absent"
  /\ s.at \in {"record", "status_write"} => s.buf = plan
  /\ s.op # "none"
  /\ s.op = "preview" => s.goal = "awaiting_confirmation" /\ plan.intent # "unclear"
  /\ s.op = "confirm" => s.goal \in {"confirmed", "rejected"}
  /\ s.op = "execute" => s.goal \in {"executing", "completed"}
  /\ s.goal = "executing" /\ s.at \notin BeforeGate => plan.status = "confirmed"
  /\ s.goal = "completed" => plan.status = "executing"

\* A confirmation not used yet is one that the plan file still shows.
Settled(plan, h) ==
  /\ plan.status # "failed"
  /\ plan.status = "planning" => plan.intent = "unclear"
  /\ plan.status = "absent" => plan.subtasks = 0
  /\ plan.subtasks = h.dispatched
  /\ Len(h.runs) + (IF plan.status = "confirmed" THEN 1 ELSE 0) <= h.confirms

\* What carries the properties of requests served one at a time.
Serial ==
  /\ \A r \in Request : req[r].at # "idle" => Fits(req[r], disk[req[r].plan])
  /\ \A p \in PlanId : Settled(disk[p], history[p])
=============================================================================
