---------------------------- MODULE WorkspaceCatalog ----------------------------
(***************************************************************************)
(* The workspace catalogue of backend/dependencies.py: connections,         *)
(* workspaces, metadata snapshots and jobs are kept in dictionaries of the  *)
(* process; each request that changes one rewrites a SQLite database (the   *)
(* catalogue) in one transaction and then a JSON file, and the process      *)
(* reads them back when it starts.                                         *)
(*                                                                         *)
(* Requests run in threads, so several are in flight: a step is one access  *)
(* to a dictionary, to the database or to the file.                        *)
(*                                                                         *)
(* Abstractions.  Records are numbered as the code numbers them (conn-1,    *)
(* ws-1, snapshot-1, job-1 ...) from the length of their dictionary, so a   *)
(* dictionary is a sequence.  A record's content is an opaque value; what   *)
(* matters of a snapshot or a job is its workspace.  SQLite is modelled by  *)
(* its contract: the first DELETE of a transaction takes the write lock,    *)
(* and a transaction that does not commit leaves nothing.                  *)
(***************************************************************************)
EXTENDS Naturals, Sequences, FiniteSets

CONSTANTS
  Request,      \* handler threads
  Payload,      \* contents of a connection or a workspace
  Operation,    \* operations that are requested
  None,         \* no thread, no database, no file
  Torn,         \* a JSON file that does not parse
  LockTimeout,  \* TRUE when waiting for the database lock may time out
  MaxWorkspace, \* bound: workspaces
  MaxRequests,  \* bound: requests served
  MaxRestarts   \* bound: restarts of the process

ASSUME CatalogAssumption ==
  /\ Operation \subseteq {"connections", "workspaces", "discover", "generate"}
  /\ None \notin Request
  /\ LockTimeout \in BOOLEAN
  /\ MaxWorkspace \in Nat /\ MaxRequests \in Nat /\ MaxRestarts \in Nat

VARIABLES
  records,   \* _connections, _workspaces, _workspace_snapshots
  jobs,      \* _workspace_jobs
  replaced,  \* for the properties: snapshots whose number was inserted again
  db,        \* workspace_catalog.sqlite3 as committed
  writer,    \* thread that has the write lock of the database
  file,      \* workspace_runtime_state.json
  req,       \* state of each request in flight
  answered,  \* for the properties: what requests were told they created
  raised,    \* for the properties: a request of this process ended in an error
  served,
  restarts

vars == <<records, jobs, replaced, db, writer, file, req, answered, raised, served, restarts>>
memory == <<records, jobs, replaced>>
stores == <<db, writer, file>>
bounds == <<served, restarts>>

-----------------------------------------------------------------------------
(* Records *)

Dictionary == {"connections", "workspaces", "snapshots"}

Workspace == 1 .. MaxWorkspace

\* The content of a connection or a workspace; the workspace of a snapshot.
Content == Payload \cup Workspace

\* snapshot is 0 in a job that generates data.
Job == [id : Nat, snapshot : Nat]

\* The rows of a snapshot beside its record: of catalog_tables and catalog_columns,
\* and of catalog_foreign_keys.
Detail == {"tables", "keys"}

\* What the catalogue stores.  The detail rows of a snapshot have its number and its
\* workspace for a key: by number, the workspace they are of.
Image == [records : [Dictionary -> Seq(Content)],
          jobs    : [Workspace -> Seq(Job)],
          details : [Detail -> Seq(Content)]]

Empty == [records |-> [d \in Dictionary |-> <<>>],
          jobs    |-> [w \in Workspace |-> <<>>],
          details |-> [d \in Detail |-> <<>>]]

\* dictionary[n] = content, for a number n that was taken from its length.
Put(seq, n, content) ==
  IF n = Len(seq) + 1 THEN Append(seq, content) ELSE [seq EXCEPT ![n] = content]

ASSUME NoneAssumption == None \notin Image

\* What a request is told: the record it created, or the job of a workspace.
Answer == [into : Dictionary, id : Nat, content : Content]
          \cup [into : {"jobs"}, id : Nat, content : Workspace]

-----------------------------------------------------------------------------
(* Requests *)

Part == Dictionary \cup {"jobs"} \cup Detail

\* Mutant: the catalogue rows are copied before the snapshots they belong to.
AllPartsDetailsFirst == <<"connections", "workspaces", "tables", "keys", "snapshots", "jobs">>

\* Mutant: the snapshots are forgotten.
AllPartsWithoutSnapshots == <<"connections", "workspaces", "jobs", "tables", "keys">>

\* The order in which _persist_catalog() copies.
AllParts == <<"connections", "workspaces", "snapshots", "jobs", "tables", "keys">>

Step == {"idle", "insert", "number", "append", "begin", "copy", "commit", "dump",
         "truncate", "write"}

RequestState == [at      : Step,
                 into    : Dictionary \cup {"jobs"}, \* what the answer reports
                 id      : Nat,                      \* number of the record
                 content : Content \cup {None},
                 job     : Nat,                      \* number of the job
                 parts   : Seq(Part),                \* parts left to copy
                 image   : Image]                    \* transaction, or JSON text

Idle == [at |-> "idle", into |-> "jobs", id |-> 0, content |-> None, job |-> 0,
         parts |-> <<>>, image |-> Empty]

\* What a request may rely on at each step, with these records.
InPlace(recs, s) ==
  /\ s.at # "idle" => s.content \in Content
  /\ s.at = "insert" => s.into \in Dictionary /\ s.id \in 1 .. Len(recs[s.into]) + 1
  /\ s.at # "idle" /\ s.into \in {"snapshots", "jobs"} => s.content \in Workspace
  /\ s.at \in {"number", "append"} => s.into \in {"snapshots", "jobs"}
  /\ s.at \in {"begin", "copy"} => s.parts # <<>>

TypeOK ==
  /\ records \in [Dictionary -> Seq(Content)]
  /\ jobs \in [Workspace -> Seq(Job)]
  /\ replaced \subseteq Nat
  /\ db \in Image \cup {None}
  /\ writer \in Request \cup {None}
  /\ file \in Image \cup {None, Torn}
  /\ req \in [Request -> RequestState]
  /\ \A r \in Request : InPlace(records, req[r])
  /\ answered \subseteq Answer
  /\ raised \in BOOLEAN
  /\ served \in Nat /\ restarts \in Nat

Init ==
  /\ records = Empty.records
  /\ jobs = Empty.jobs
  /\ replaced = {}
  /\ db = None
  /\ writer = None
  /\ file = None
  /\ req = [r \in Request |-> Idle]
  /\ answered = {}
  /\ raised = FALSE
  /\ served = 0
  /\ restarts = 0

Goto(r, s) == req' = [req EXCEPT ![r] = s]

\* An exception: the framework answers 500, and the transaction is rolled back.
Raise(r) ==
  /\ Goto(r, Idle)
  /\ raised' = TRUE
  /\ writer' = IF writer = r THEN None ELSE writer
  /\ UNCHANGED <<memory, db, file, answered, bounds>>

Accept(op) ==
  /\ op \in Operation
  /\ served < MaxRequests
  /\ served' = served + 1
  /\ UNCHANGED <<memory, stores, answered, raised, restarts>>

-----------------------------------------------------------------------------
(* The operations on the dictionaries *)

\* Mutant: a number is skipped.
NewIdSkipping(d) == Len(records[d]) + 2

\* Mutant: the number of the last record is taken again.
NewIdReused(d) == IF records[d] = <<>> THEN 1 ELSE Len(records[d])

\* conn-{n}, ws-{n}, snapshot-{n}: the length of the dictionary plus one.
NewId(d) == Len(records[d]) + 1

\* create_connection_record(), create_workspace_record(): the number.
Create(r, d, content) ==
  /\ req[r].at = "idle"
  /\ d \in {"connections", "workspaces"}
  /\ d = "workspaces" => Len(records[d]) < MaxWorkspace
  /\ Accept(d)
  /\ Goto(r, [Idle EXCEPT !.at = "insert", !.into = d, !.content = content,
                          !.id = NewId(d)])

\* discover_workspace_snapshot(): the number is taken before the schema is read.
Discover(r, w) ==
  /\ req[r].at = "idle"
  /\ w \in 1 .. Len(records["workspaces"])
  /\ Accept("discover")
  /\ Goto(r, [Idle EXCEPT !.at = "insert", !.into = "snapshots", !.content = w,
                          !.id = NewId("snapshots")])

\* generate_workspace_data(): no snapshot, only a job.
Generate(r, w) ==
  /\ req[r].at = "idle"
  /\ w \in 1 .. Len(records["workspaces"])
  /\ Accept("generate")
  /\ Goto(r, [Idle EXCEPT !.at = "number", !.into = "jobs", !.content = w])

\* Mutant: only the JSON file is written.
PersistFileOnly(s) == [s EXCEPT !.at = "dump"]

\* A change of the dictionaries is followed by _persist_catalog().
Persist(s) == [s EXCEPT !.at = "begin", !.parts = AllParts]

\* What follows the insertion of a record.
AfterInsert(s) == IF s.into = "snapshots" THEN [s EXCEPT !.at = "number"] ELSE Persist(s)

Insert(r) ==
  LET s == req[r]
  IN /\ s.at = "insert"
     /\ records' = [records EXCEPT ![s.into] = Put(@, s.id, s.content)]
     /\ replaced' = IF s.into = "snapshots" /\ s.id <= Len(records["snapshots"])
                    THEN replaced \cup {s.id} ELSE replaced
     /\ Goto(r, AfterInsert(s))
     /\ UNCHANGED <<jobs, stores, answered, raised, bounds>>

\* The number of a job is the length of its workspace's list, plus one.
NumberJob(r) ==
  /\ req[r].at = "number"
  /\ Goto(r, [req[r] EXCEPT !.at = "append", !.job = Len(jobs[req[r].content]) + 1])
  /\ UNCHANGED <<memory, stores, answered, raised, bounds>>

AppendJob(r) ==
  LET s == req[r]
      job == [id |-> s.job, snapshot |-> IF s.into = "snapshots" THEN s.id ELSE 0]
  IN /\ s.at = "append"
     /\ jobs' = [jobs EXCEPT ![s.content] = Append(@, job)]
     /\ Goto(r, Persist(s))
     /\ UNCHANGED <<records, replaced, stores, answered, raised, bounds>>

-----------------------------------------------------------------------------
(* _persist_catalog() *)

\* Mutant: the write lock is not awaited.
MayWriteAtOnce(r) == TRUE

\* The first DELETE waits for the write lock.
MayWrite(r) == writer = None

\* _connect_catalog() makes the database if there is none; the DELETEs take the
\* write lock, or fail with "database is locked" after a while.
Begin(r) ==
  /\ req[r].at = "begin"
  /\ \/ /\ MayWrite(r)
        /\ writer' = r
        /\ db' = IF db = None THEN Empty ELSE db
        /\ Goto(r, [req[r] EXCEPT !.at = "copy"])
        /\ UNCHANGED <<memory, file, answered, raised, bounds>>
     \/ LockTimeout /\ ~MayWrite(r) /\ Raise(r)

\* Another thread is about to add a key to the dictionary of this part: when it
\* does so during the loop, the loop raises RuntimeError.  A discovery makes the
\* list of its workspace's jobs before it takes a number, a generation after.
Disturbed(r, part) ==
  \E q \in Request \ {r} :
    \/ /\ req[q].at = "insert"
       /\ req[q].into = (IF part \in Detail THEN "snapshots" ELSE part)
       /\ req[q].id = Len(records[req[q].into]) + 1
    \/ /\ part = "jobs"
       /\ req[q].at = (IF req[q].into = "snapshots" THEN "number" ELSE "append")
       /\ jobs[req[q].content] = <<>>

\* Two jobs have the same id, which is the primary key of the jobs table.
JobKeysClash ==
  \E v, w \in Workspace : \E i \in 1 .. Len(jobs[v]), j \in 1 .. Len(jobs[w]) :
    <<v, i>> # <<w, j>> /\ jobs[v][i].id = jobs[w][j].id

Copied(image, part) ==
  CASE part = "jobs" -> [image EXCEPT !.jobs = jobs]
    [] part \in Detail -> [image EXCEPT !.details[part] = records["snapshots"]]
    [] OTHER -> [image EXCEPT !.records[part] = records[part]]

\* INSERTs for one part.
CopyPart(r) ==
  LET s == req[r]
      part == Head(s.parts)
  IN /\ s.at = "copy"
     /\ \/ /\ ~(part = "jobs" /\ JobKeysClash)
           /\ Goto(r, [s EXCEPT !.image = Copied(@, part), !.parts = Tail(@),
                                !.at = IF Tail(s.parts) = <<>> THEN "commit" ELSE @])
           /\ UNCHANGED <<memory, stores, answered, raised, bounds>>
        \/ (Disturbed(r, part) \/ (part = "jobs" /\ JobKeysClash)) /\ Raise(r)

Commit(r) ==
  /\ req[r].at = "commit"
  /\ db' = req[r].image
  /\ writer' = None
  /\ Goto(r, [req[r] EXCEPT !.at = "dump"])
  /\ UNCHANGED <<memory, file, answered, raised, bounds>>

-----------------------------------------------------------------------------
(* _persist_runtime_state() *)

\* json.dumps() goes through the same dictionaries.
Dump(r) ==
  /\ req[r].at = "dump"
  /\ \/ /\ Goto(r, [req[r] EXCEPT !.at = "truncate", !.image =
                      [records |-> records, jobs |-> jobs, details |-> Empty.details]])
        /\ UNCHANGED <<memory, stores, answered, raised, bounds>>
     \/ (\E part \in Part : Disturbed(r, part)) /\ Raise(r)

TruncateFile(r) ==
  /\ req[r].at = "truncate"
  /\ file' = Torn
  /\ Goto(r, [req[r] EXCEPT !.at = "write"])
  /\ UNCHANGED <<memory, db, writer, answered, raised, bounds>>

\* Two threads that write at once may leave a mixture; then the answer goes out.
WriteFile(r) ==
  LET s == req[r]
  IN /\ s.at = "write"
     /\ file' \in IF file \in {Torn, s.image} THEN {s.image} ELSE {s.image, Torn}
     /\ answered' = answered \cup {[into |-> s.into, content |-> s.content,
                                    id |-> IF s.into = "jobs" THEN s.job ELSE s.id]}
     /\ Goto(r, Idle)
     /\ UNCHANGED <<memory, db, writer, raised, bounds>>

-----------------------------------------------------------------------------
\* Mutant: what the JSON file says is used first.
LoadedFromFile ==
  IF file \notin {None, Torn} THEN file ELSE IF db # None THEN db ELSE Empty

\* _load_runtime_state() then _load_catalog(): the database has the last word.
Loaded ==
  IF db # None THEN db ELSE IF file \notin {None, Torn} THEN file ELSE Empty

\* The process stops, whatever it was doing, and starts again.
Restart ==
  /\ restarts < MaxRestarts
  /\ restarts' = restarts + 1
  /\ records' = Loaded.records
  /\ jobs' = Loaded.jobs
  /\ writer' = None
  /\ req' = [r \in Request |-> Idle]
  /\ raised' = FALSE
  /\ UNCHANGED <<replaced, db, file, answered, served>>

Continue(r) ==
  \/ Insert(r) \/ NumberJob(r) \/ AppendJob(r)
  \/ Begin(r) \/ CopyPart(r) \/ Commit(r)
  \/ Dump(r) \/ TruncateFile(r) \/ WriteFile(r)

Serve(r) ==
  \/ \E d \in Dictionary, content \in Payload : Create(r, d, content)
  \/ \E w \in Workspace : Discover(r, w) \/ Generate(r, w)

Next == (\E r \in Request : Serve(r) \/ Continue(r)) \/ Restart

Spec == Init /\ [][Next]_vars

\* Every thread of the pool runs.  Nobody is promised the lock while others keep
\* taking it, and nobody is made to send a request.
FairSpec == Spec /\ \A r \in Request : WF_vars(Continue(r))

-----------------------------------------------------------------------------
(* Properties that hold whatever the interleaving *)

\* What a request was told it created is found again, by its number, if the
\* process stops at this moment and starts again.
AnsweredIsLoaded ==
  \A a \in answered :
    IF a.into = "jobs"
    THEN \E i \in 1 .. Len(Loaded.jobs[a.content]) : Loaded.jobs[a.content][i].id = a.id
    ELSE a.id <= Len(Loaded.records[a.into])

\* No commit loses records that an earlier one stored, although each deletes
\* every row and copies dictionaries that other threads are changing.
CommittedNeverShrinks ==
  [][db # None => /\ db' # None
                  /\ \A d \in Dictionary : Len(db.records[d]) <= Len(db'.records[d])
                  /\ \A w \in Workspace : Len(db.jobs[w]) <= Len(db'.jobs[w])]_vars

\* When no request is in flight and none failed, the database is what memory is:
\* whoever copied last copied everything.
QuiescentInSync ==
  ((\A r \in Request : req[r].at = "idle") /\ ~raised)
    => records = Loaded.records /\ jobs = Loaded.jobs

\* The details of a store are those of its snapshots, but for snapshots that a second
\* discovery with the same number replaced.
Detailing(store, d) ==
  \A n \in 1 .. Len(store.records["snapshots"]) : n \notin replaced =>
    /\ n <= Len(store.details[d])
    /\ store.details[d][n] = store.records["snapshots"][n]

\* Each snapshot in the database has its own tables, columns and foreign keys there.
DetailsCoverSnapshots == db # None => \A d \in Detail : Detailing(db, d)

\* Memory that runs ahead of the database does not stay so (no timeout of the
\* lock, no restart, no jobs, whose keys may clash).
EventuallyPersisted == (records # Loaded.records) ~> (records = Loaded.records)

-----------------------------------------------------------------------------
(* Properties that hold when requests are served one at a time *)

\* A record that a request was told it created is kept as it was created.
AnsweredAsGiven ==
  \A a \in answered : a.into # "jobs" =>
    a.id <= Len(Loaded.records[a.into]) /\ Loaded.records[a.into][a.id] = a.content

\* A job that was loaded names a snapshot that was loaded too, of its workspace.
JobsHaveSnapshots ==
  \A w \in Workspace : \A i \in 1 .. Len(Loaded.jobs[w]) :
    LET n == Loaded.jobs[w][i].snapshot
    IN n # 0 => n <= Len(Loaded.records["snapshots"]) /\ Loaded.records["snapshots"][n] = w

-----------------------------------------------------------------------------
(* Inductive strengthening: see CatalogProofs *)

Memory == [records |-> records, jobs |-> jobs]

\* What a store must keep of part p of an earlier one: as many records, the same
\* jobs first.
KeepsPart(p, before, after) ==
  /\ p \in Dictionary => Len(before.records[p]) <= Len(after.records[p])
  /\ p = "jobs" => \A w \in Workspace :
       /\ Len(before.jobs[w]) <= Len(after.jobs[w])
       /\ \A i \in 1 .. Len(before.jobs[w]) : after.jobs[w][i] = before.jobs[w][i]

\* The store has the record, or the job, with this number.
Has(store, into, id, content) ==
  IF into = "jobs" THEN \E i \in 1 .. Len(store.jobs[content]) : store.jobs[content][i].id = id
  ELSE id <= Len(store.records[into])

Made(store, s) == Has(store, s.into, IF s.into = "jobs" THEN s.job ELSE s.id, s.content)

Copying == {"copy", "commit"}

Stored == {"dump", "truncate", "write"}

Pending(s) == {s.parts[i] : i \in 1 .. Len(s.parts)}

\* Where a request stands: alone in its transaction, whose copied parts lie
\* between the database and memory; its own record is where it was put last.
Placed(r, s) ==
  /\ s.at = "begin" => s.parts = AllParts
  /\ s.at = "commit" => s.parts = <<>>
  /\ s.at \in Copying \cup Stored => db # None
  /\ s.at \in Copying =>
       /\ writer = r
       /\ \A p \in Part \ Pending(s) : KeepsPart(p, db, s.image) /\ KeepsPart(p, s.image, Memory)
  /\ s.at \in {"number", "append"} /\ s.into # "jobs" => Made(Memory, s)
  /\ s.at \in {"begin"} \cup Copying => Made(Memory, s)
  /\ s.at \in Copying /\ s.into \notin Pending(s) => Made(s.image, s)
  /\ s.at \in Stored => Made(db, s)

\* What carries AnsweredIsLoaded and CommittedNeverShrinks: the database trails
\* memory, and a transaction that has copied a part has it at least as the database.
Covering ==
  /\ db = None => file = None
  /\ db # None => \A p \in Part : KeepsPart(p, db, Memory)
  /\ \A r \in Request : Placed(r, req[r])
  /\ \A a \in answered : db # None /\ Has(db, a.into, a.id, a.content)
=============================================================================
