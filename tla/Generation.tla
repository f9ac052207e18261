------------------------------- MODULE Generation -------------------------------
(***************************************************************************)
(* The generation of test data and its load: generate_data.py, with        *)
(* DataGenerator (data_generator.py) and PostgresLoader                    *)
(* (postgres_loader.py).                                                   *)
(*                                                                         *)
(* Tables are generated in rounds that wait for the tables they refer to;  *)
(* a round without progress forces the rest.  Then the files are repaired, *)
(* audited, and loaded one by one into the database.                       *)
(*                                                                         *)
(* Abstractions.  A cell is a number or Null; the content of a column that *)
(* is no sequence is any of Plain.  Columns are independent of each other: *)
(* what _apply_row_constraints() writes over a column of audit data is     *)
(* modelled, and the order it puts on dates is not, since a date stays one *)
(* of Plain and a date that was drawn from a key is a text by then.  Of    *)
(* the database, the model keeps which tables have rows; its foreign keys  *)
(* are Constraint, which need not be those of the map.                     *)
(***************************************************************************)
EXTENDS GenerationPlan

CONSTANTS
  Schema,     \* samples to start from
  Rows,       \* rows per table
  Attempts,   \* draws of a value that must not repeat (150)
  Plain,      \* values of a column that is no sequence
  AuditUser,  \* the user of every audit column (AUDIT_USER)
  Constraint, \* foreign keys of the database: <<child, parent>>, the names of two
              \* tables, the child's rows referring to the parent's or, through
              \* other tables, to rows that do
  Null,       \* an empty cell
  NoFile,     \* a table whose CSV file does not exist
  MaxFailures \* bound: tables whose generation or load fails

ASSUME RowAssumption ==
  /\ Rows \in Nat \ {0} /\ Attempts \in Nat \ {0}
  /\ Plain \subseteq Nat /\ AuditUser \in Int /\ Null \notin Int

\* A table has one sample.
ASSUME SchemaAssumption ==
  \A s \in Schema : /\ s \in Seq(TableSample)
                    /\ \A t, u \in DOMAIN s : s[t].name = s[u].name => t = u

\* A table without a file is told from every file.
ASSUME FileAssumption ==
  \A s \in Schema : \A t \in DOMAIN s :
    NoFile \notin [ColumnsOf(s[t]) -> [1 .. Rows -> Int \cup {Null}]]

VARIABLES
  schema,    \* the tables that have a sample
  refs,      \* _fk_map
  deps,      \* while ordering: the tables each table still waits for
  queue,     \* while ordering: the tables that wait for none
  order,     \* _order
  phase,     \* what the program is doing
  todo,      \* tables, or columns, left in the current loop
  deferred,  \* tables that were not ready in this round
  moved,     \* whether this round took a table
  pool,      \* _pk_registry: the values of each key column that was generated
  used,      \* _unique_registry: the values drawn for each column name, but those
             \* of the audit columns, which are written over
  files,     \* the CSV files, each a column of cells for each column name
  report,    \* the references that validate_fk_integrity() found broken
  stored,    \* tables of the database that have rows
  loaded,    \* tables whose LoadResult reports rows
  history    \* what happened: tables forced, failed, and not loaded

vars == <<schema, refs, deps, queue, order, phase, todo, deferred, moved, pool, used,
          files, report, stored, loaded, history>>

plan == <<schema, refs, order>>

database == <<stored, loaded>>

Tables == DOMAIN schema

KeyOf(ref) == <<ref[2], ref[3]>>

\* Tables of S, in the order of their files.
Listed(S) ==
  LET place(t) == Cardinality({u \in S : u <= t})
  IN [i \in 1 .. Cardinality(S) |-> CHOOSE t \in S : place(t) = i]

\* The tables that a table refers to.
Parents(t) == {ref[2] : ref \in {ref \in refs : ref[1][1] = t}}

-----------------------------------------------------------------------------
(* The order: the last part of _build_fk_map_and_order() *)

Init ==
  /\ schema \in Schema
  /\ \E owner \in Ownerships(schema) : refs = ForeignKeys(schema, owner)
  /\ deps = [t \in Tables |-> Parents(t)]
  /\ queue = Listed({t \in Tables : deps[t] = {}})
  /\ order = <<>>
  /\ phase = "order"
  /\ todo = <<>>
  /\ deferred = <<>>
  /\ moved = FALSE
  /\ pool = [x \in Columns(schema) |-> {}]
  /\ used = [col \in AllColumns(schema) |-> {}]
  /\ files = [t \in Tables |-> NoFile]
  /\ report = {}
  /\ stored = {}
  /\ loaded = {}
  /\ history = [forced |-> {}, failed |-> {}, unloaded |-> {}]

\* Mutant: the first parent that is placed lets a table in.
WaitsForOne(waiting) == TRUE

NoLongerWaits(waiting) == waiting = {}

PlaceTable ==
  /\ phase = "order" /\ queue # <<>>
  /\ LET node == Head(queue)
         freed == Listed({t \in Tables : node \in deps[t] /\ NoLongerWaits(deps[t] \ {node})})
     IN /\ order' = Append(order, node)
        /\ deps' = [t \in Tables |-> deps[t] \ {node}]
        /\ queue' = Tail(queue) \o freed
  /\ UNCHANGED <<schema, refs, phase, todo, deferred, moved, pool, used, files, report, database,
                 history>>

\* Tables that wait for one another follow as they are listed.
FinishOrder ==
  /\ phase = "order" /\ queue = <<>>
  /\ order' = order \o Listed(Tables \ ToSet(order))
  /\ todo' = order'
  /\ phase' = "round"
  /\ UNCHANGED <<schema, refs, deps, queue, deferred, moved, pool, used, files, report, database,
                 history>>

-----------------------------------------------------------------------------
(* A table: _generate_table(), _generate_cell(), _register_pk_values() *)

RefersTo(x) == {KeyOf(ref) : ref \in {ref \in refs : ref[1] = x}}

\* The key's pool that a column draws from, if it refers to one that has values.
Drawn(x) == UNION {IF key \in DOMAIN pool THEN pool[key] ELSE {} : key \in RefersTo(x)}

\* The next value of a sequence that was not drawn for any table's column of that
\* name, or, after the last attempt, one that was.
NextValue(value, col) ==
  LET fresh == {k \in 1 .. Attempts : value + k \notin used[col]}
  IN value + (IF fresh = {} THEN Attempts ELSE CHOOSE k \in fresh : \A l \in fresh : k <= l)

\* The cells of a sequence, whose empty rows are those of gaps.
Sequence(start, col, gaps) ==
  {[i \in 1 .. Rows |-> IF i \in gaps THEN Null ELSE value[i]] :
     value \in {value \in [0 .. Rows -> start .. start + Rows * Attempts] :
                  /\ value[0] = start
                  /\ \A i \in 1 .. Rows :
                       value[i] = IF i \in gaps THEN value[i - 1] ELSE NextValue(value[i - 1], col)}}

\* What the cells of column x may be.
Cells(x) ==
  LET prof == ProfileOf(schema[x[1]], x[2])
      empty == IF prof.nulls THEN {Null} ELSE {}
  IN IF Drawn(x) # {} THEN [1 .. Rows -> Drawn(x) \cup empty]
     ELSE IF prof.strategy = "null" THEN {[i \in 1 .. Rows |-> Null]}
     ELSE IF prof.strategy = "sequential"
     THEN UNION {Sequence(prof.start, x[2], gaps) :
                   gaps \in IF prof.nulls THEN SUBSET (1 .. Rows) ELSE {{}}}
     ELSE [1 .. Rows -> Plain \cup empty]

\* What _apply_row_constraints() writes over, whatever was drawn: the users, all by
\* one, and the times, those that are not empty by others.
AuditUsers ==
  {<<"g", "aud", "user", "id">>, <<"g", "aud", "add", "user", "id">>,
   <<"g", "aud", "upd", "user", "id">>, <<"g", "web", "user", "id">>}

AuditTimes == {<<"g", "aud", "add", "ts">>, <<"g", "aud", "ts">>}

Overwritten == AuditUsers \cup AuditTimes

Constrained(x) ==
  IF x[2] \in AuditUsers THEN {[i \in 1 .. Rows |-> AuditUser]}
  ELSE IF x[2] \in AuditTimes
  THEN {c \in [1 .. Rows -> Plain \cup {Null}] :
          \E cells \in Cells(x) : \A i \in 1 .. Rows : c[i] = Null <=> cells[i] = Null}
  ELSE Cells(x)

Contents(t) ==
  LET cells == [col \in ColumnsOf(schema[t]) |-> Constrained(<<t, col>>)]
  IN {f \in [DOMAIN cells -> UNION {cells[col] : col \in DOMAIN cells}] :
        \A col \in DOMAIN cells : f[col] \in cells[col]}

Registered(x) ==
  LET prof == ProfileOf(schema[x[1]], x[2]) IN prof.strategy = "sequential" \/ prof.unique

\* The file is written, and the values of its keys are registered.
Write(t, content) ==
  /\ files' = [files EXCEPT ![t] = content]
  /\ pool' = [x \in DOMAIN pool |->
                IF x[1] = t /\ Registered(x)
                THEN pool[x] \cup (ToSet(content[x[2]]) \ {Null}) ELSE pool[x]]
  /\ used' = [col \in DOMAIN used |->
                IF /\ col \in ColumnsOf(schema[t]) \ Overwritten /\ Drawn(<<t, col>>) = {}
                   /\ ProfileOf(schema[t], col).unique
                THEN used[col] \cup (ToSet(content[col]) \ {Null}) ELSE used[col]]

MayFail == Cardinality(history.failed) + Cardinality(history.unloaded) < MaxFailures

\* Generation raises: there is no new file, and no value is registered.
Fail(t) ==
  /\ MayFail
  /\ history' = [history EXCEPT !.failed = @ \cup {t}]
  /\ UNCHANGED <<files, pool, used>>

-----------------------------------------------------------------------------
(* The rounds of generate_all() *)

\* _is_table_ready(): every key that the table refers to has values.
Ready(t) == \A ref \in refs : ref[1][1] = t => Drawn(ref[1]) # {}

GenerateReady ==
  /\ phase = "round" /\ todo # <<>>
  /\ LET t == Head(todo)
     IN /\ Ready(t)
        /\ \/ Fail(t)
           \/ /\ \E content \in Contents(t) : Write(t, content)
              /\ UNCHANGED history
  /\ todo' = Tail(todo)
  /\ moved' = TRUE
  /\ UNCHANGED <<plan, deps, queue, phase, deferred, report, database>>

Defer ==
  /\ phase = "round" /\ todo # <<>> /\ ~Ready(Head(todo))
  /\ deferred' = Append(deferred, Head(todo))
  /\ todo' = Tail(todo)
  /\ UNCHANGED <<plan, deps, queue, phase, moved, pool, used, files, report, database, history>>

\* The deferred tables make the next round, or are forced when this one did
\* nothing.  Every round but the last takes a table, so the limit on the number of
\* rounds is never met.
EndRound ==
  /\ phase = "round" /\ todo = <<>>
  /\ phase' = IF deferred # <<>> /\ moved THEN "round" ELSE "force"
  /\ todo' = deferred
  /\ deferred' = <<>>
  /\ moved' = FALSE
  /\ UNCHANGED <<plan, deps, queue, pool, used, files, report, database, history>>

ForceTable ==
  /\ phase = "force" /\ todo # <<>>
  /\ LET t == Head(todo)
     IN \/ Fail(t)
        \/ /\ \E content \in Contents(t) : Write(t, content)
           /\ history' = [history EXCEPT !.forced = @ \cup {t}]
  /\ todo' = Tail(todo)
  /\ UNCHANGED <<plan, deps, queue, phase, deferred, moved, report, database>>

-----------------------------------------------------------------------------
(* _fix_orphan_fks() and validate_fk_integrity() *)

StartRepair ==
  /\ phase = "force" /\ todo = <<>>
  /\ phase' = "repair"
  /\ todo' = SetToSeq(refs)
  /\ UNCHANGED <<plan, deps, queue, deferred, moved, pool, used, files, report, database, history>>

\* Mutant: values are registered under the name of their column only.
RegistryOfName(ref) ==
  UNION {pool[x] : x \in {x \in DOMAIN pool : x[2] = ref[3]}}

\* The values of the key that a reference names, as they were registered: what a
\* repair did to the key's own file is not in them.
Registry(ref) == IF KeyOf(ref) \in DOMAIN pool THEN pool[KeyOf(ref)] ELSE {}

Orphans(cells, keys) == {i \in 1 .. Rows : cells[i] # Null /\ cells[i] \notin keys}

\* Mutant: the search stops at the first orphan of a column.
MendedOnce(cells, keys) ==
  {c \in [1 .. Rows -> keys \cup ToSet(cells)] :
     \A i \in 1 .. Rows : IF Orphans(cells, keys) # {} /\ i = CHOOSE j \in Orphans(cells, keys) : TRUE
                         THEN c[i] \in keys ELSE c[i] = cells[i]}

\* What a column of cells may become: each orphan is replaced by any of the keys.
Mended(cells, keys) ==
  {c \in [1 .. Rows -> keys \cup ToSet(cells)] :
     \A i \in 1 .. Rows : IF i \in Orphans(cells, keys) THEN c[i] \in keys ELSE c[i] = cells[i]}

RepairReference ==
  /\ phase = "repair" /\ todo # <<>>
  /\ LET ref == Head(todo)
         t == ref[1][1]
         col == ref[1][2]
     IN IF Registry(ref) = {} \/ files[t] = NoFile THEN UNCHANGED files
        ELSE \E cells \in Mended(files[t][col], Registry(ref)) :
               files' = [files EXCEPT ![t] = [@ EXCEPT ![col] = cells]]
  /\ todo' = Tail(todo)
  /\ UNCHANGED <<plan, deps, queue, phase, deferred, moved, pool, used, report, database, history>>

\* Mutant: tables are loaded as they are listed.
LoadOrderListed == [t \in Tables |-> t]

LoadOrder == order

Audit ==
  /\ phase = "repair" /\ todo = <<>>
  /\ report' = {ref \in refs :
                  /\ Registry(ref) # {} /\ files[ref[1][1]] # NoFile
                  /\ Orphans(files[ref[1][1]][ref[1][2]], Registry(ref)) # {}}
  /\ phase' = "load"
  /\ todo' = LoadOrder
  /\ UNCHANGED <<plan, deps, queue, deferred, moved, pool, used, files, database, history>>

-----------------------------------------------------------------------------
(* PostgresLoader.load_all() *)

\* The table and those that the database knows to refer to it.
Cascade(t) ==
  {t} \cup {u \in Tables : <<schema[u].name, schema[t].name>> \in Constraint}

\* TRUNCATE ... CASCADE and the insertions.  A load that fails reports no rows:
\* it may have failed before it truncated, or after it inserted some.
LoadTable ==
  /\ phase = "load" /\ todo # <<>>
  /\ LET t == Head(todo)
         cleared == stored \ Cascade(t)
     IN IF files[t] = NoFile THEN UNCHANGED <<database, history>>
        ELSE \/ stored' = cleared \cup {t} /\ loaded' = loaded \cup {t} /\ UNCHANGED history
             \/ /\ MayFail
                /\ history' = [history EXCEPT !.unloaded = @ \cup {t}]
                /\ stored' \in {stored, cleared, cleared \cup {t}} /\ UNCHANGED loaded
  /\ todo' = Tail(todo)
  /\ UNCHANGED <<plan, deps, queue, phase, deferred, moved, pool, used, files, report>>

Finish ==
  /\ phase = "load" /\ todo = <<>>
  /\ phase' = "done"
  /\ UNCHANGED <<plan, deps, queue, todo, deferred, moved, pool, used, files, report, database, history>>

Done == phase = "done" /\ UNCHANGED vars

Next ==
  \/ PlaceTable \/ FinishOrder
  \/ GenerateReady \/ Defer \/ EndRound \/ ForceTable
  \/ StartRepair \/ RepairReference \/ Audit
  \/ LoadTable \/ Finish \/ Done

Spec == Init /\ [][Next]_vars

-----------------------------------------------------------------------------
(* Properties *)

\* No tables refer to one another in a circle: of any tables, one refers to none of them.
Acyclic == \A S \in (SUBSET Tables) \ {{}} : \E t \in S : Parents(t) \cap S = {}

\* The key is a column that every generation of its table registers values of.
Filled(key) ==
  /\ key \in Columns(schema) /\ Registered(key)
  /\ ~ProfileOf(schema[key[1]], key[2]).nulls

\* One round is enough, and nothing is forced, when the references form no cycle,
\* every key is registered, and no table fails: the order puts parents first.
OneRoundEnough ==
  \/ deferred = <<>> /\ history.forced = {}
  \/ ~Acyclic \/ history.failed # {}
  \/ \E ref \in refs : ~Filled(KeyOf(ref))

\* The audit has nothing to report, whatever was forced and whichever tables
\* failed: no repair undoes another (generate_data.py prints "PASSED").
AuditPasses == phase = "load" => report = {}

\* The values that the file of a key has.
Written(key) ==
  IF files[key[1]] = NoFile THEN {}
  ELSE IF key[2] \in DOMAIN files[key[1]] THEN ToSet(files[key[1]][key[2]]) ELSE {}

\* The orphans that the files themselves show: a value that the column of keys,
\* as it was written and repaired, does not have.
TrueOrphans ==
  {ref \in refs :
     /\ Registry(ref) # {} /\ files[ref[1][1]] # NoFile
     /\ Orphans(files[ref[1][1]][ref[1][2]], Written(KeyOf(ref))) # {}}

\* A key that no repair moves: it refers to no other, or nothing was forced and it is
\* not written over after its values were drawn.
Firm(key) ==
  \/ \A ref \in refs : ref[1] # key
  \/ history.forced = {} /\ key[2] \notin Overwritten

\* The files have no orphan of a key that no repair moves.
NoOrphans == phase = "done" => \A ref \in TrueOrphans : ~Firm(KeyOf(ref))

\* The table and those that refer to it, through any number of others: what is in
\* every set that has the table and, with a table, those that refer to it.
Descendants(t) ==
  LET closed == {S \in SUBSET Tables : \A u \in Tables : Parents(u) \cap S # {} => u \in S}
  IN {u \in Tables : \A S \in closed : t \in S => u \in S}

\* The references that the generator found account for the database's foreign keys.
ConstraintsFound == \A t \in Tables : Cascade(t) \subseteq Descendants(t)

\* What a load reported stays: no later TRUNCATE ... CASCADE empties the table,
\* when the references form no cycle and account for the database's foreign keys.
LoadedStays == loaded \subseteq stored \/ ~Acyclic \/ ~ConstraintsFound

\* "Zero orphans are guaranteed" (generate_all()), for references whose key has
\* values, when no table failed.
ZeroOrphans == (phase = "done" /\ history.failed = {}) => TrueOrphans = {}
=============================================================================
