------------------------------ MODULE CatalogProofs ------------------------------
(***************************************************************************)
(* Theorems about WorkspaceCatalog, for any sets of threads and contents,   *)
(* any bounds and any number of overlapping requests, timeouts and          *)
(* restarts: types; Covering is inductive, what was answered is loaded      *)
(* again, and no commit loses a record.                                    *)
(*                                                                         *)
(* When the catalogue comes to rest the database is memory, with the       *)
(* tables of each snapshot; and, when requests do not overlap, the records *)
(* that were answered are kept as they were given and jobs name snapshots  *)
(* of their workspace.                                                     *)
(***************************************************************************)
EXTENDS WorkspaceCatalog, SequenceTheorems, TLAPS

LEMMA EmptyType == Empty \in Image
  BY EmptySeq DEF Empty, Image

LEMMA IdleType == Idle \in RequestState
  BY EmptyType, EmptySeq DEF Idle, RequestState, Step

LEMMA AllPartsType == AllParts \in Seq(Part) /\ AllParts # <<>>
  BY DEF AllParts, Part, Dictionary, Detail

\* A record is put at most one place after the end of its dictionary.
LEMMA PutProperties ==
  ASSUME NEW S, NEW seq \in Seq(S), NEW n \in 1 .. Len(seq) + 1, NEW c \in S
  PROVE  /\ Put(seq, n, c) \in Seq(S)
         /\ Len(seq) <= Len(Put(seq, n, c))
         /\ n <= Len(Put(seq, n, c))
  <1>1. CASE n = Len(seq) + 1
    BY <1>1, AppendProperties DEF Put
  <1>2. CASE n # Len(seq) + 1
    <2>1. n \in 1 .. Len(seq)
      BY <1>2, LenProperties
    <2> QED
      BY <1>2, <2>1, ExceptSeq, LenProperties DEF Put
  <1> QED
    BY <1>1, <1>2

-----------------------------------------------------------------------------
(* Type correctness *)

\* A request goes to a state that fits, while no dictionary loses a record.
LEMMA Moves ==
  ASSUME TypeOK, NEW r \in Request, NEW s \in RequestState, Goto(r, s),
         records' \in [Dictionary -> Seq(Content)],
         \A d \in Dictionary : Len(records[d]) <= Len(records'[d]),
         InPlace(records', s)
  PROVE  req' \in [Request -> RequestState] /\ \A q \in Request : InPlace(records', req'[q])
  <1>1. req' \in [Request -> RequestState]
    BY DEF TypeOK, Goto
  <1>2. ASSUME NEW q \in Request PROVE InPlace(records', req'[q])
    <2>1. CASE q = r
      BY <2>1 DEF TypeOK, Goto
    <2>2. CASE q # r
      <3>1. req'[q] = req[q] /\ InPlace(records, req[q]) /\ req[q].id \in Nat
        BY <2>2 DEF TypeOK, Goto, RequestState
      <3>2. \A d \in Dictionary : Len(records[d]) \in Nat /\ Len(records'[d]) \in Nat
        BY LenProperties DEF TypeOK
      <3>3. req[q].at = "insert" =>
              req[q].into \in Dictionary /\ req[q].id \in 1 .. Len(records'[req[q].into]) + 1
        BY <3>1, <3>2 DEF InPlace
      <3> QED
        BY <3>1, <3>3 DEF InPlace
    <2> QED
      BY <2>1, <2>2
  <1> QED
    BY <1>1, <1>2

\* The same, when the records stay as they are.
LEMMA MovesOnly ==
  ASSUME TypeOK, NEW r \in Request, NEW s \in RequestState, Goto(r, s),
         records' = records, InPlace(records, s)
  PROVE  req' \in [Request -> RequestState] /\ \A q \in Request : InPlace(records', req'[q])
  <1>1. \A d \in Dictionary : Len(records[d]) \in Nat
    BY LenProperties DEF TypeOK
  <1>2. \A d \in Dictionary : Len(records[d]) <= Len(records'[d])
    BY <1>1
  <1> QED
    BY <1>2, Moves DEF TypeOK

LEMMA RaiseType == ASSUME TypeOK, NEW r \in Request, Raise(r) PROVE TypeOK'
  <1>1. InPlace(records, Idle)
    BY DEF InPlace, Idle
  <1>2. req' \in [Request -> RequestState] /\ \A q \in Request : InPlace(records', req'[q])
    BY <1>1, IdleType, MovesOnly DEF Raise, memory
  <1> QED
    BY <1>2 DEF TypeOK, Raise, memory, bounds

LEMMA ServeType == ASSUME TypeOK, NEW r \in Request, Serve(r) PROVE TypeOK'
  <1>1. \A d \in Dictionary : Len(records[d]) \in Nat
    BY LenProperties DEF TypeOK
  <1>n. \A d \in Dictionary : NewId(d) \in Nat
    BY <1>1 DEF NewId
  <1>2. ASSUME NEW d \in Dictionary, NEW content \in Payload, Create(r, d, content)
        PROVE  TypeOK'
    <2> DEFINE s == [Idle EXCEPT !.at = "insert", !.into = d, !.content = content,
                                 !.id = NewId(d)]
    <2>1. s \in RequestState
      BY <1>n, IdleType DEF RequestState, Step, Content
    <2>2. InPlace(records, s)
      BY <1>1, <1>2, IdleType DEF InPlace, RequestState, NewId, Content, Create
    <2>3. Goto(r, s) /\ records' = records
      BY <1>2 DEF Create, Accept, memory
    <2> HIDE DEF s
    <2>4. req' \in [Request -> RequestState] /\ \A q \in Request : InPlace(records', req'[q])
      BY <2>1, <2>2, <2>3, MovesOnly
    <2> QED
      BY <1>2, <2>4 DEF TypeOK, Create, Accept, memory, stores
  <1>3. ASSUME NEW w \in Workspace, Discover(r, w) PROVE TypeOK'
    <2> DEFINE s == [Idle EXCEPT !.at = "insert", !.into = "snapshots", !.content = w,
                                 !.id = NewId("snapshots")]
    <2>1. s \in RequestState
      BY <1>n, IdleType DEF RequestState, Step, Content, Dictionary
    <2>2. InPlace(records, s)
      BY <1>1, IdleType DEF InPlace, RequestState, NewId, Content, Dictionary
    <2>3. Goto(r, s) /\ records' = records
      BY <1>3 DEF Discover, Accept, memory
    <2> HIDE DEF s
    <2>4. req' \in [Request -> RequestState] /\ \A q \in Request : InPlace(records', req'[q])
      BY <2>1, <2>2, <2>3, MovesOnly
    <2> QED
      BY <1>3, <2>4 DEF TypeOK, Discover, Accept, memory, stores
  <1>4. ASSUME NEW w \in Workspace, Generate(r, w) PROVE TypeOK'
    <2> DEFINE s == [Idle EXCEPT !.at = "number", !.into = "jobs", !.content = w]
    <2>1. s \in RequestState
      BY IdleType DEF RequestState, Step, Content
    <2>2. InPlace(records, s)
      BY IdleType DEF InPlace, RequestState, Content
    <2>3. Goto(r, s) /\ records' = records
      BY <1>4 DEF Generate, Accept, memory
    <2> HIDE DEF s
    <2>4. req' \in [Request -> RequestState] /\ \A q \in Request : InPlace(records', req'[q])
      BY <2>1, <2>2, <2>3, MovesOnly
    <2> QED
      BY <1>4, <2>4 DEF TypeOK, Generate, Accept, memory, stores
  <1> QED
    BY <1>2, <1>3, <1>4 DEF Serve

\* Going to _persist_catalog() keeps a request in its type.
LEMMA PersistType ==
  ASSUME NEW s \in RequestState, s.content \in Content,
         s.into \in {"snapshots", "jobs"} => s.content \in Workspace
  PROVE  Persist(s) \in RequestState /\ \A recs : InPlace(recs, Persist(s))
  BY AllPartsType DEF Persist, RequestState, Step, InPlace

LEMMA InsertType == ASSUME TypeOK, NEW r \in Request, Insert(r) PROVE TypeOK'
  <1> DEFINE s == req[r]
             e == AfterInsert(s)
             dict == Put(records[s.into], s.id, s.content)
  <1>1. s \in RequestState /\ s.at = "insert" /\ s.content \in Content /\ s.into \in Dictionary
        /\ s.id \in 1 .. Len(records[s.into]) + 1
        /\ (s.into = "snapshots" => s.content \in Workspace)
    BY DEF TypeOK, InPlace, Insert
  <1>2. dict \in Seq(Content) /\ Len(records[s.into]) <= Len(dict)
    BY <1>1, PutProperties DEF TypeOK
  <1>3. records' = [records EXCEPT ![s.into] = dict]
    BY DEF Insert
  <1>4. Goto(r, e)
    BY DEF Insert
  <1>5. records' \in [Dictionary -> Seq(Content)]
    BY <1>1, <1>2, <1>3 DEF TypeOK
  <1>6. \A d \in Dictionary : Len(records[d]) <= Len(records'[d])
    <2>1. \A d \in Dictionary : Len(records[d]) \in Nat
      BY LenProperties DEF TypeOK
    <2> HIDE DEF dict
    <2> QED
      BY <1>1, <1>2, <1>3, <2>1 DEF TypeOK
  <1>7. e \in RequestState /\ InPlace(records', e)
    <2> HIDE DEF dict, s
    <2>1. CASE s.into = "snapshots"
      BY <1>1, <2>1 DEF AfterInsert, RequestState, Step, InPlace
    <2>2. CASE s.into # "snapshots"
      BY <1>1, <2>2, PersistType DEF AfterInsert, Dictionary
    <2> QED
      BY <2>1, <2>2
  <1> HIDE DEF e, dict, s
  <1>8. req' \in [Request -> RequestState] /\ \A q \in Request : InPlace(records', req'[q])
    BY <1>4, <1>5, <1>6, <1>7, Moves
  <1>9. req[r].id \in Nat /\ replaced' \in {replaced, replaced \cup {req[r].id}}
    BY DEF TypeOK, RequestState, Insert
  <1>10. replaced' \subseteq Nat
    BY <1>9 DEF TypeOK
  <1> QED
    BY <1>5, <1>8, <1>10 DEF TypeOK, Insert, stores, bounds

LEMMA JobsType ==
  ASSUME TypeOK, NEW r \in Request, NumberJob(r) \/ AppendJob(r) PROVE TypeOK'
  <1> DEFINE s == req[r]
  <1>1. s \in RequestState /\ s.content \in Workspace /\ s.into \in {"snapshots", "jobs"}
        /\ s.content \in Content
    BY DEF TypeOK, InPlace, NumberJob, AppendJob, Content
  <1>2. CASE NumberJob(r)
    <2> DEFINE e == [s EXCEPT !.at = "append", !.job = Len(jobs[s.content]) + 1]
    <2>1. Len(jobs[s.content]) + 1 \in Nat
      BY <1>1, LenProperties DEF TypeOK
    <2>2. Goto(r, e) /\ records' = records
      BY <1>2 DEF NumberJob, memory
    <2>3. e \in RequestState /\ InPlace(records, e)
      <3> HIDE DEF s
      <3> QED
        BY <1>1, <2>1 DEF RequestState, Step, InPlace
    <2> HIDE DEF e
    <2>4. req' \in [Request -> RequestState] /\ \A q \in Request : InPlace(records', req'[q])
      BY <2>2, <2>3, MovesOnly
    <2> QED
      BY <1>2, <2>4 DEF TypeOK, NumberJob, memory, stores, bounds
  <1>3. CASE AppendJob(r)
    <2> DEFINE job == [id |-> s.job, snapshot |-> IF s.into = "snapshots" THEN s.id ELSE 0]
               list == Append(jobs[s.content], job)
               e == Persist(s)
    <2>1. job \in Job
      BY <1>1 DEF RequestState, Job
    <2>2. list \in Seq(Job)
      BY <1>1, <2>1, AppendProperties DEF TypeOK
    <2>3. jobs' = [jobs EXCEPT ![s.content] = list] /\ Goto(r, e) /\ records' = records
      BY <1>3 DEF AppendJob
    <2>4. e \in RequestState /\ InPlace(records, e)
      BY <1>1, PersistType
    <2> HIDE DEF e, list, job
    <2>5. req' \in [Request -> RequestState] /\ \A q \in Request : InPlace(records', req'[q])
      BY <2>3, <2>4, MovesOnly
    <2>6. jobs' \in [Workspace -> Seq(Job)]
      BY <1>1, <2>2, <2>3 DEF TypeOK
    <2> QED
      BY <1>3, <2>5, <2>6 DEF TypeOK, AppendJob, stores, bounds
  <1> QED
    BY <1>2, <1>3

\* What a transaction has after one more part.
LEMMA CopiedType ==
  ASSUME TypeOK, NEW image \in Image, NEW part \in Part PROVE Copied(image, part) \in Image
  <1>1. CASE part \in Dictionary
    <2> DEFINE recs == [image.records EXCEPT ![part] = records[part]]
    <2>1. recs \in [Dictionary -> Seq(Content)]
      BY <1>1 DEF Image, TypeOK
    <2>2. Copied(image, part) = [image EXCEPT !.records = recs]
      BY <1>1 DEF Copied, Dictionary, Detail, Image
    <2>3. image.jobs \in [Workspace -> Seq(Job)] /\ image.details \in [Detail -> Seq(Content)]
      BY DEF Image
    <2> HIDE DEF recs
    <2>4. [image EXCEPT !.records = recs]
            = [records |-> recs, jobs |-> image.jobs, details |-> image.details]
      BY DEF Image
    <2> QED
      BY <2>1, <2>2, <2>3, <2>4 DEF Image
  <1>2. CASE part = "jobs"
    <2>1. image.records \in [Dictionary -> Seq(Content)] /\ image.details \in [Detail -> Seq(Content)]
      BY DEF Image
    <2>2. Copied(image, part)
            = [records |-> image.records, jobs |-> jobs, details |-> image.details]
      BY <1>2 DEF Copied, Image, Detail
    <2> QED
      BY <2>1, <2>2 DEF Image, TypeOK
  <1>3. CASE part \in Detail
    <2> DEFINE details == [image.details EXCEPT ![part] = records["snapshots"]]
    <2>1. details \in [Detail -> Seq(Content)]
      BY <1>3 DEF Image, TypeOK, Dictionary
    <2>2. Copied(image, part) = [image EXCEPT !.details = details]
      BY <1>3 DEF Copied, Detail, Image
    <2> HIDE DEF details
    <2> QED
      BY <2>1, <2>2 DEF Image
  <1> QED
    BY <1>1, <1>2, <1>3 DEF Part

LEMMA BeginType == ASSUME TypeOK, NEW r \in Request, Begin(r) PROVE TypeOK'
  <1> DEFINE s == req[r]
             e == [s EXCEPT !.at = "copy"]
  <1>1. CASE LockTimeout /\ ~MayWrite(r) /\ Raise(r)
    BY <1>1, RaiseType
  <1>2. CASE ~(LockTimeout /\ ~MayWrite(r) /\ Raise(r))
    <2>1. s \in RequestState /\ s.at = "begin" /\ InPlace(records, s)
      BY DEF TypeOK, Begin
    <2>2. /\ Goto(r, e) /\ writer' = r /\ db' = IF db = None THEN Empty ELSE db
          /\ UNCHANGED <<memory, file, answered, raised, bounds>>
      BY <1>2 DEF Begin
    <2>3. e \in RequestState /\ InPlace(records, e)
      <3> HIDE DEF s
      <3> QED
        BY <2>1 DEF RequestState, Step, InPlace
    <2> HIDE DEF e
    <2>4. req' \in [Request -> RequestState] /\ \A q \in Request : InPlace(records', req'[q])
      BY <2>2, <2>3, MovesOnly DEF memory
    <2>5. db' \in Image \cup {None}
      BY <2>2, EmptyType DEF TypeOK
    <2> QED
      BY <2>2, <2>4, <2>5 DEF TypeOK, memory, bounds
  <1> QED
    BY <1>1, <1>2

LEMMA CopyPartType == ASSUME TypeOK, NEW r \in Request, CopyPart(r) PROVE TypeOK'
  <1> DEFINE s == req[r]
             image == Copied(s.image, Head(s.parts))
             parts == Tail(s.parts)
             e == [s EXCEPT !.image = image, !.parts = parts,
                            !.at = IF parts = <<>> THEN "commit" ELSE @]
  <1>1. s \in RequestState /\ s.at = "copy" /\ InPlace(records, s) /\ s.parts # <<>>
    BY DEF TypeOK, InPlace, CopyPart
  <1>2. CASE Raise(r)
    BY <1>2, RaiseType
  <1>3. CASE ~Raise(r)
    <2>1. Goto(r, e) /\ UNCHANGED <<memory, stores, answered, raised, bounds>>
      BY <1>3 DEF CopyPart
    <2>2. Head(s.parts) \in Part /\ parts \in Seq(Part) /\ s.image \in Image
      BY <1>1, HeadTailProperties DEF RequestState
    <2>3. image \in Image
      BY <2>2, CopiedType
    <2>4. e \in RequestState /\ InPlace(records, e)
      <3> HIDE DEF s, image, parts
      <3> QED
        BY <1>1, <2>2, <2>3 DEF RequestState, Step, InPlace
    <2> HIDE DEF e
    <2>5. req' \in [Request -> RequestState] /\ \A q \in Request : InPlace(records', req'[q])
      BY <2>1, <2>4, MovesOnly DEF memory
    <2> QED
      BY <2>1, <2>5 DEF TypeOK, memory, stores, bounds
  <1> QED
    BY <1>2, <1>3

LEMMA CommitType == ASSUME TypeOK, NEW r \in Request, Commit(r) PROVE TypeOK'
  <1> DEFINE s == req[r]
             e == [s EXCEPT !.at = "dump"]
  <1>1. s \in RequestState /\ s.at = "commit" /\ InPlace(records, s) /\ s.image \in Image
    BY DEF TypeOK, RequestState, Commit
  <1>2. Goto(r, e) /\ records' = records
    BY DEF Commit, memory
  <1>3. e \in RequestState /\ InPlace(records, e)
    <2> HIDE DEF s
    <2> QED
      BY <1>1 DEF RequestState, Step, InPlace
  <1> HIDE DEF e
  <1>4. req' \in [Request -> RequestState] /\ \A q \in Request : InPlace(records', req'[q])
    BY <1>2, <1>3, MovesOnly
  <1> QED
    BY <1>1, <1>4 DEF TypeOK, Commit, memory, bounds

LEMMA FileType ==
  ASSUME TypeOK, NEW r \in Request, Dump(r) \/ TruncateFile(r) \/ WriteFile(r)
  PROVE  TypeOK'
  <1> DEFINE s == req[r]
  <1>1. s \in RequestState /\ InPlace(records, s) /\ s.at # "idle" /\ s.content \in Content
    BY DEF TypeOK, InPlace, Dump, TruncateFile, WriteFile
  <1>2. CASE Raise(r)
    BY <1>2, RaiseType
  <1>3. CASE Dump(r) /\ ~Raise(r)
    <2> DEFINE text == [records |-> records, jobs |-> jobs, details |-> Empty.details]
               e == [s EXCEPT !.at = "truncate", !.image = text]
    <2>1. Goto(r, e) /\ UNCHANGED <<memory, stores, answered, raised, bounds>>
      BY <1>3 DEF Dump
    <2>2. text \in Image
      BY EmptyType DEF TypeOK, Image
    <2>3. e \in RequestState /\ InPlace(records, e)
      <3> HIDE DEF s, text
      <3> QED
        BY <1>1, <2>2 DEF RequestState, Step, InPlace
    <2> HIDE DEF e
    <2>4. req' \in [Request -> RequestState] /\ \A q \in Request : InPlace(records', req'[q])
      BY <2>1, <2>3, MovesOnly DEF memory
    <2> QED
      BY <2>1, <2>4 DEF TypeOK, memory, stores, bounds
  <1>4. CASE TruncateFile(r)
    <2> DEFINE e == [s EXCEPT !.at = "write"]
    <2>1. Goto(r, e) /\ records' = records
      BY <1>4 DEF TruncateFile, memory
    <2>2. e \in RequestState /\ InPlace(records, e)
      <3> HIDE DEF s
      <3> QED
        BY <1>1 DEF RequestState, Step, InPlace
    <2> HIDE DEF e
    <2>3. req' \in [Request -> RequestState] /\ \A q \in Request : InPlace(records', req'[q])
      BY <2>1, <2>2, MovesOnly
    <2> QED
      BY <1>4, <2>3 DEF TypeOK, TruncateFile, memory, bounds
  <1>5. CASE WriteFile(r)
    <2> DEFINE a == [into |-> s.into, content |-> s.content,
                     id |-> IF s.into = "jobs" THEN s.job ELSE s.id]
    <2>1. /\ Goto(r, Idle) /\ answered' = answered \cup {a}
          /\ file' \in IF file \in {Torn, s.image} THEN {s.image} ELSE {s.image, Torn}
          /\ UNCHANGED <<memory, db, writer, raised, bounds>>
      BY <1>5 DEF WriteFile
    <2>2. a \in Answer
      BY <1>1 DEF RequestState, InPlace, Answer
    <2>3. file' \in Image \cup {None, Torn}
      BY <1>1, <2>1 DEF RequestState
    <2> HIDE DEF a
    <2>4. req' \in [Request -> RequestState] /\ \A q \in Request : InPlace(records', req'[q])
      <3>1. InPlace(records, Idle)
        BY DEF InPlace, Idle
      <3> QED
        BY <2>1, <3>1, IdleType, MovesOnly DEF memory
    <2> QED
      BY <2>1, <2>2, <2>3, <2>4 DEF TypeOK, memory, bounds
  <1> QED
    BY <1>2, <1>3, <1>4, <1>5

\* What a start reads is an image, whatever was cut off.
LEMMA LoadedType == ASSUME TypeOK PROVE Loaded \in Image
  BY EmptyType DEF TypeOK, Loaded

LEMMA RestartType == ASSUME TypeOK, Restart PROVE TypeOK'
  <1>1. records' \in [Dictionary -> Seq(Content)] /\ jobs' \in [Workspace -> Seq(Job)]
    BY LoadedType DEF Restart, Image
  <1>2. req' \in [Request -> RequestState]
    BY IdleType DEF Restart
  <1>3. \A q \in Request : InPlace(records', req'[q])
    BY DEF Restart, InPlace, Idle
  <1>4. writer' = None /\ raised' = FALSE /\ restarts' = restarts + 1
        /\ UNCHANGED <<replaced, db, file, answered, served>>
    BY DEF Restart
  <1>5. restarts' \in Nat /\ served' \in Nat
    BY <1>4 DEF TypeOK
  <1>6. db' \in Image \cup {None} /\ file' \in Image \cup {None, Torn}
    BY <1>4 DEF TypeOK
  <1>7. writer' \in Request \cup {None} /\ raised' \in BOOLEAN
    BY <1>4, Zenon
  <1>8. answered' \subseteq Answer /\ replaced' \subseteq Nat
    BY <1>4 DEF TypeOK
  <1> QED
    BY <1>1, <1>2, <1>3, <1>5, <1>6, <1>7, <1>8 DEF TypeOK

LEMMA TypeInit == Init => TypeOK
  <1> SUFFICES ASSUME Init PROVE TypeOK
    OBVIOUS
  <1>1. records \in [Dictionary -> Seq(Content)] /\ jobs \in [Workspace -> Seq(Job)]
    BY EmptyType DEF Init, Image
  <1>2. \A q \in Request : InPlace(records, req[q])
    BY DEF Init, InPlace, Idle
  <1> QED
    BY <1>1, <1>2, IdleType DEF Init, TypeOK

LEMMA TypeStep == TypeOK /\ [Next]_vars => TypeOK'
  <1> SUFFICES ASSUME TypeOK, [Next]_vars PROVE TypeOK'
    OBVIOUS
  <1>1. CASE UNCHANGED vars
    BY <1>1 DEF vars, TypeOK
  <1>2. CASE Restart
    BY <1>2, RestartType
  <1>3. ASSUME NEW r \in Request, Serve(r) PROVE TypeOK'
    BY <1>3, ServeType
  <1>4. ASSUME NEW r \in Request, Continue(r) PROVE TypeOK'
    BY <1>4, InsertType, JobsType, BeginType, CopyPartType, CommitType, FileType DEF Continue
  <1> QED
    BY <1>1, <1>2, <1>3, <1>4 DEF Next

\* The state has its type: a number that was taken stays within one of the length
\* of its dictionary, whatever the threads do, and no loop runs out of parts.
THEOREM CatalogTypeCorrect == Spec => []TypeOK
  BY TypeInit, TypeStep, PTL DEF Spec

-----------------------------------------------------------------------------
(* The stores, and what one keeps of another *)

\* Dictionaries of the process, of a transaction or of the database.
IsStore(x) == x.records \in [Dictionary -> Seq(Content)] /\ x.jobs \in [Workspace -> Seq(Job)]

LEMMA Stores ==
  ASSUME TypeOK
  PROVE  /\ IsStore(Memory)
         /\ \A x \in Image : IsStore(x)
         /\ db # None => IsStore(db)
         /\ \A q \in Request : IsStore(req[q].image)
  BY DEF TypeOK, IsStore, Memory, Image, RequestState

LEMMA NextStores ==
  ASSUME TypeOK'
  PROVE  IsStore(Memory') /\ (db' # None => IsStore(db'))
  BY DEF TypeOK, IsStore, Memory, Image

LEMMA StoreLengths ==
  ASSUME NEW x, IsStore(x)
  PROVE  /\ \A d \in Dictionary : Len(x.records[d]) \in Nat
         /\ \A w \in Workspace : Len(x.jobs[w]) \in Nat
  BY LenProperties DEF IsStore

LEMMA KeepsItself == ASSUME NEW x, IsStore(x), NEW p PROVE KeepsPart(p, x, x)
  BY StoreLengths DEF KeepsPart

LEMMA KeepsChain ==
  ASSUME NEW x, IsStore(x), NEW y, IsStore(y), NEW z, IsStore(z), NEW p,
         KeepsPart(p, x, y), KeepsPart(p, y, z)
  PROVE  KeepsPart(p, x, z)
  <1>1. CASE p \in Dictionary
    <2>1. /\ Len(x.records[p]) <= Len(y.records[p])
          /\ Len(y.records[p]) <= Len(z.records[p])
      BY <1>1 DEF KeepsPart
    <2>2. /\ Len(x.records[p]) \in Nat /\ Len(y.records[p]) \in Nat
          /\ Len(z.records[p]) \in Nat
      BY <1>1, StoreLengths
    <2>3. Len(x.records[p]) <= Len(z.records[p])
      BY <2>1, <2>2
    <2>4. p # "jobs"
      BY <1>1 DEF Dictionary
    <2> QED
      BY <2>3, <2>4 DEF KeepsPart
  <1>2. CASE p = "jobs"
    <2>1. ASSUME NEW w \in Workspace
          PROVE  /\ Len(x.jobs[w]) <= Len(z.jobs[w])
                 /\ \A i \in 1 .. Len(x.jobs[w]) : z.jobs[w][i] = x.jobs[w][i]
      <3>1. Len(x.jobs[w]) <= Len(y.jobs[w]) /\ Len(y.jobs[w]) <= Len(z.jobs[w])
        BY <1>2 DEF KeepsPart
      <3>2. Len(x.jobs[w]) \in Nat /\ Len(y.jobs[w]) \in Nat /\ Len(z.jobs[w]) \in Nat
        BY StoreLengths
      <3>3. ASSUME NEW i \in 1 .. Len(x.jobs[w]) PROVE z.jobs[w][i] = x.jobs[w][i]
        <4>1. i \in 1 .. Len(y.jobs[w])
          BY <3>1, <3>2
        <4> QED
          BY <1>2, <4>1 DEF KeepsPart
      <3> QED
        BY <3>1, <3>2, <3>3
    <2> QED
      BY <1>2, <2>1 DEF KeepsPart, Dictionary
  <1> QED
    BY <1>1, <1>2 DEF KeepsPart

\* A record that a store has is in every store that keeps it.
LEMMA HasKept ==
  ASSUME NEW x, IsStore(x), NEW y, IsStore(y),
         NEW into \in Dictionary \cup {"jobs"}, NEW id \in Nat, NEW content,
         into = "jobs" => content \in Workspace,
         KeepsPart(into, x, y), Has(x, into, id, content)
  PROVE  Has(y, into, id, content)
  <1>1. CASE into = "jobs"
    <2>1. PICK i \in 1 .. Len(x.jobs[content]) : x.jobs[content][i].id = id
      BY <1>1 DEF Has
    <2>2. i \in 1 .. Len(y.jobs[content]) /\ y.jobs[content][i] = x.jobs[content][i]
      BY <1>1, <2>1, StoreLengths DEF KeepsPart
    <2> QED
      BY <1>1, <2>1, <2>2 DEF Has
  <1>2. CASE into # "jobs"
    BY <1>2, StoreLengths DEF Has, KeepsPart
  <1> QED
    BY <1>1, <1>2

\* The same, of the record of a request in flight.
LEMMA MadeKept ==
  ASSUME TypeOK, NEW q \in Request, req[q].at # "idle",
         NEW x, IsStore(x), NEW y, IsStore(y),
         KeepsPart(req[q].into, x, y), Made(x, req[q])
  PROVE  Made(y, req[q])
  <1> DEFINE s == req[q]
  <1>1. /\ s.into \in Dictionary \cup {"jobs"}
        /\ (IF s.into = "jobs" THEN s.job ELSE s.id) \in Nat
        /\ s.into = "jobs" => s.content \in Workspace
    BY DEF TypeOK, RequestState, InPlace
  <1> QED
    BY <1>1, HasKept DEF Made

LEMMA EmptyKept == ASSUME NEW x, IsStore(x), NEW p PROVE KeepsPart(p, Empty, x)
  BY StoreLengths DEF KeepsPart, Empty

-----------------------------------------------------------------------------
(* What one step leaves of the others' places *)

\* Memory and the database only grow in this step, and the thread that holds the
\* write lock keeps it.
Growing ==
  /\ \A p \in Part : KeepsPart(p, Memory, Memory')
  /\ db # None => db' # None /\ \A p \in Part : KeepsPart(p, db, db')

LEMMA PlacedStill ==
  ASSUME TypeOK, TypeOK', Growing, NEW q \in Request, Placed(q, req[q]), req'[q] = req[q],
         req[q].at \in Copying => writer' = q /\ db' = db
  PROVE  Placed(q, req[q])'
  <1> DEFINE s == req[q]
  <1>1. s.into \in Part
    BY DEF TypeOK, RequestState, Part
  <1>2. IsStore(Memory) /\ IsStore(Memory') /\ IsStore(s.image)
    BY Stores, NextStores
  <1>3. ASSUME s.at # "idle", Made(Memory, s) PROVE Made(Memory', s)
    BY <1>1, <1>2, <1>3, MadeKept DEF Growing
  <1>4. ASSUME s.at \in Stored PROVE db' # None /\ Made(db', s)
    <2>1. db # None /\ Made(db, s) /\ s.at # "idle"
      BY <1>4 DEF Placed, Stored
    <2>2. db' # None /\ KeepsPart(s.into, db, db')
      BY <1>1, <2>1 DEF Growing
    <2>3. IsStore(db) /\ IsStore(db')
      BY <2>1, <2>2, Stores, NextStores
    <2> QED
      BY <2>1, <2>2, <2>3, MadeKept
  <1>5. ASSUME s.at \in Copying
        PROVE  /\ db' # None /\ writer' = q
               /\ \A p \in Part \ Pending(s) :
                    KeepsPart(p, db', s.image) /\ KeepsPart(p, s.image, Memory')
    <2>1. db # None /\ db' = db /\ writer' = q
      BY <1>5 DEF Placed
    <2>2. ASSUME NEW p \in Part \ Pending(s)
          PROVE  KeepsPart(p, db', s.image) /\ KeepsPart(p, s.image, Memory')
      <3>1. KeepsPart(p, db, s.image) /\ KeepsPart(p, s.image, Memory) /\ KeepsPart(p, Memory, Memory')
        BY <1>5 DEF Placed, Growing
      <3> QED
        BY <1>2, <2>1, <3>1, KeepsChain
    <2> QED
      BY <2>1, <2>2
  <1>6. Placed(q, s)' <=>
          /\ s.at = "begin" => s.parts = AllParts
          /\ s.at = "commit" => s.parts = <<>>
          /\ s.at \in Copying \cup Stored => db' # None
          /\ s.at \in Copying =>
               /\ writer' = q
               /\ \A p \in Part \ Pending(s) :
                    KeepsPart(p, db', s.image) /\ KeepsPart(p, s.image, Memory')
          /\ s.at \in {"number", "append"} /\ s.into # "jobs" => Made(Memory', s)
          /\ s.at \in {"begin"} \cup Copying => Made(Memory', s)
          /\ s.at \in Copying /\ s.into \notin Pending(s) => Made(s.image, s)
          /\ s.at \in Stored => Made(db', s)
    BY DEF Placed
  <1>7. Placed(q, s)
    OBVIOUS
  <1>8. Placed(q, s)'
    <2> HIDE DEF s
    <2> QED
      BY <1>3, <1>4, <1>5, <1>6, <1>7 DEF Placed, Copying, Stored
  <1> QED
    BY <1>8

\* A step of thread r keeps Covering when r lands in its place, the others keep
\* the lock they have, the database still trails memory and new answers are stored.
LEMMA CoveringStep ==
  ASSUME TypeOK, TypeOK', Covering, Growing, NEW r \in Request,
         \A q \in Request \ {r} :
           req'[q] = req[q] /\ (req[q].at \in Copying => writer' = q /\ db' = db),
         Placed(r, req[r])',
         db' = None => file' = None,
         db' # None => \A p \in Part : KeepsPart(p, db', Memory'),
         \A a \in answered' \ answered : db' # None /\ Has(db', a.into, a.id, a.content)
  PROVE  Covering'
  <1>1. ASSUME NEW q \in Request PROVE Placed(q, req[q])'
    <2>1. CASE q = r
      BY <2>1
    <2>2. CASE q # r
      BY <2>2, PlacedStill DEF Covering
    <2> QED
      BY <2>1, <2>2
  <1>2. ASSUME NEW a \in answered' PROVE db' # None /\ Has(db', a.into, a.id, a.content)
    <2>1. CASE a \in answered
      <3>1. db # None /\ Has(db, a.into, a.id, a.content)
        BY <2>1 DEF Covering
      <3>2. /\ a.into \in Dictionary \cup {"jobs"} /\ a.into \in Part /\ a.id \in Nat
            /\ a.into = "jobs" => a.content \in Workspace
        BY <2>1 DEF TypeOK, Answer, Part, Dictionary
      <3>3. db' # None /\ KeepsPart(a.into, db, db')
        BY <3>1, <3>2 DEF Growing
      <3>4. IsStore(db) /\ IsStore(db')
        BY <3>1, <3>3, Stores, NextStores
      <3> QED
        BY <3>1, <3>2, <3>3, <3>4, HasKept
    <2> QED
      BY <2>1
  <1> QED
    BY <1>1, <1>2 DEF Covering

\* The common case: neither the database nor anyone else's lock is touched.
LEMMA CoveringAside ==
  ASSUME TypeOK, TypeOK', Covering, NEW r \in Request, db' = db,
         \A p \in Part : KeepsPart(p, Memory, Memory'),
         \A q \in Request \ {r} : req'[q] = req[q] /\ (writer = q => writer' = q),
         Placed(r, req[r])',
         db' = None => file' = None,
         \A a \in answered' \ answered : db' # None /\ Has(db', a.into, a.id, a.content)
  PROVE  Covering' /\ Growing
  <1>1. Growing
    BY Stores, KeepsItself DEF Growing
  <1>2. db' # None => \A p \in Part : KeepsPart(p, db', Memory')
    BY Stores, NextStores, KeepsChain DEF Covering
  <1>3. \A q \in Request \ {r} :
          req'[q] = req[q] /\ (req[q].at \in Copying => writer' = q /\ db' = db)
    BY DEF Covering, Placed
  <1> QED
    BY <1>1, <1>2, <1>3, CoveringStep

\* Where a thread without a request stands asks nothing.
LEMMA IdlePlaced == ASSUME NEW r \in Request, req'[r] = Idle PROVE Placed(r, req[r])'
  <1>1. req'[r].at = "idle"
    BY DEF Idle
  <1> QED
    BY <1>1 DEF Placed, Copying, Stored

LEMMA SameMemory ==
  ASSUME TypeOK, UNCHANGED memory PROVE \A p \in Part : KeepsPart(p, Memory, Memory')
  <1>1. Memory' = Memory
    BY DEF memory, Memory
  <1> QED
    BY <1>1, Stores, KeepsItself

LEMMA RaiseCovers ==
  ASSUME TypeOK, TypeOK', Covering, NEW r \in Request, Raise(r) PROVE Covering' /\ Growing
  <1>1. /\ req' = [req EXCEPT ![r] = Idle] /\ UNCHANGED <<memory, db, file, answered>>
        /\ writer' = IF writer = r THEN None ELSE writer
    BY DEF Raise, Goto
  <1>2. req'[r] = Idle /\ \A q \in Request \ {r} : req'[q] = req[q] /\ (writer = q => writer' = q)
    BY <1>1 DEF TypeOK
  <1>3. Placed(r, req[r])'
    BY <1>2, IdlePlaced
  <1>4. db' = None => file' = None
    BY <1>1 DEF Covering
  <1> QED
    BY <1>1, <1>2, <1>3, <1>4, SameMemory, CoveringAside

LEMMA ServeCovers ==
  ASSUME TypeOK, TypeOK', Covering, NEW r \in Request, Serve(r) PROVE Covering' /\ Growing
  <1>1. PICK s : /\ s.at = "insert" \/ (s.at = "number" /\ s.into = "jobs")
                 /\ Goto(r, s) /\ UNCHANGED <<memory, stores, answered>>
    <2>1. ASSUME NEW d \in Dictionary, NEW content \in Payload, Create(r, d, content)
          PROVE  \E s : /\ s.at = "insert"
                        /\ Goto(r, s) /\ UNCHANGED <<memory, stores, answered>>
      <3> DEFINE s == [Idle EXCEPT !.at = "insert", !.into = d, !.content = content,
                                   !.id = NewId(d)]
      <3>1. s.at = "insert" /\ Goto(r, s) /\ UNCHANGED <<memory, stores, answered>>
        BY <2>1 DEF Create, Accept, Idle
      <3> QED
        BY <3>1
    <2>2. ASSUME NEW w \in Workspace, Discover(r, w)
          PROVE  \E s : /\ s.at = "insert"
                        /\ Goto(r, s) /\ UNCHANGED <<memory, stores, answered>>
      <3> DEFINE s == [Idle EXCEPT !.at = "insert", !.into = "snapshots", !.content = w,
                                   !.id = NewId("snapshots")]
      <3>1. s.at = "insert" /\ Goto(r, s) /\ UNCHANGED <<memory, stores, answered>>
        BY <2>2 DEF Discover, Accept, Idle
      <3> QED
        BY <3>1
    <2>3. ASSUME NEW w \in Workspace, Generate(r, w)
          PROVE  \E s : /\ s.at = "number" /\ s.into = "jobs"
                        /\ Goto(r, s) /\ UNCHANGED <<memory, stores, answered>>
      <3> DEFINE s == [Idle EXCEPT !.at = "number", !.into = "jobs", !.content = w]
      <3>1. s.at = "number" /\ s.into = "jobs" /\ Goto(r, s) /\ UNCHANGED <<memory, stores, answered>>
        BY <2>3 DEF Generate, Accept, Idle
      <3> QED
        BY <3>1
    <2> QED
      BY <2>1, <2>2, <2>3 DEF Serve
  <1>2. req'[r] = s /\ \A q \in Request \ {r} : req'[q] = req[q] /\ (writer = q => writer' = q)
    BY <1>1 DEF TypeOK, Goto, stores
  <1>3. Placed(r, req[r])'
    BY <1>1, <1>2 DEF Placed, Copying, Stored
  <1>4. db' = db /\ answered' = answered /\ (db' = None => file' = None)
    BY <1>1 DEF stores, Covering
  <1> QED
    BY <1>1, <1>2, <1>3, <1>4, SameMemory, CoveringAside

-----------------------------------------------------------------------------
(* The dictionaries grow *)

LEMMA InsertCovers ==
  ASSUME TypeOK, TypeOK', Covering, NEW r \in Request, Insert(r) PROVE Covering' /\ Growing
  <1> DEFINE s == req[r]
             dict == Put(records[s.into], s.id, s.content)
  <1>1. /\ s \in RequestState /\ s.content \in Content /\ s.into \in Dictionary
        /\ s.id \in 1 .. Len(records[s.into]) + 1
    BY DEF TypeOK, InPlace, Insert
  <1>2. Len(records[s.into]) <= Len(dict) /\ s.id <= Len(dict)
    BY <1>1, PutProperties DEF TypeOK
  <1>3. /\ records' = [records EXCEPT ![s.into] = dict]
        /\ Goto(r, AfterInsert(s)) /\ UNCHANGED <<jobs, db, writer, file, answered>>
    BY DEF Insert, stores
  <1>4. \A p \in Part : KeepsPart(p, Memory, Memory')
    <2>1. ASSUME NEW d \in Dictionary PROVE Len(records[d]) <= Len(records'[d])
      <3>1. Len(records[d]) \in Nat
        BY LenProperties DEF TypeOK
      <3> HIDE DEF dict, s
      <3> QED
        BY <1>1, <1>2, <1>3, <3>1 DEF TypeOK
    <2>2. \A w \in Workspace : Len(jobs[w]) \in Nat
      BY LenProperties DEF TypeOK
    <2> QED
      BY <1>3, <2>1, <2>2 DEF KeepsPart, Memory
  <1>5. req'[r] = AfterInsert(s) /\ \A q \in Request \ {r} : req'[q] = req[q]
    BY <1>3 DEF TypeOK, Goto
  <1>6. s.id <= Len(records'[s.into])
    BY <1>1, <1>2, <1>3 DEF TypeOK
  <1>7. Placed(r, req[r])'
    <2> DEFINE e == AfterInsert(s)
    <2>1. e.at \in {"number", "begin"} /\ e.into = s.into /\ e.id = s.id
          /\ (e.at = "begin" => e.parts = AllParts)
      BY <1>1 DEF AfterInsert, Persist, RequestState
    <2>2. Made(Memory', e)
      BY <1>1, <1>6, <2>1 DEF Made, Has, Memory, Dictionary
    <2> HIDE DEF e
    <2>3. req'[r] = e
      BY <1>5 DEF e
    <2> QED
      BY <2>1, <2>2, <2>3 DEF Placed, Copying, Stored
  <1> QED
    BY <1>3, <1>4, <1>5, <1>7, CoveringAside DEF Covering

LEMMA JobsCover ==
  ASSUME TypeOK, TypeOK', Covering, NEW r \in Request, NumberJob(r) \/ AppendJob(r)
  PROVE  Covering' /\ Growing
  <1> DEFINE s == req[r]
  <1>1. /\ s \in RequestState /\ s.content \in Workspace /\ s.into \in {"snapshots", "jobs"}
        /\ s.at \in {"number", "append"}
    BY DEF TypeOK, InPlace, NumberJob, AppendJob
  <1>2. s.into = "snapshots" => Made(Memory, s)
    BY <1>1 DEF Covering, Placed
  <1>3. CASE NumberJob(r)
    <2> DEFINE e == [s EXCEPT !.at = "append", !.job = Len(jobs[s.content]) + 1]
    <2>1. Goto(r, e) /\ UNCHANGED <<memory, db, writer, file, answered>>
      BY <1>3 DEF NumberJob, stores
    <2>2. req'[r] = e /\ \A q \in Request \ {r} : req'[q] = req[q]
      BY <2>1 DEF TypeOK, Goto
    <2>3. e.at = "append" /\ e.into = s.into /\ e.id = s.id
      BY <1>1 DEF RequestState
    <2>4. e.into # "jobs" => Made(Memory', e)
      BY <1>1, <1>2, <2>1, <2>3 DEF Made, Has, memory, Memory
    <2> HIDE DEF e
    <2>5. Placed(r, req[r])'
      BY <2>2, <2>3, <2>4 DEF Placed, Copying, Stored
    <2> QED
      BY <2>1, <2>2, <2>5, SameMemory, CoveringAside DEF Covering
  <1>4. CASE AppendJob(r)
    <2> DEFINE job == [id |-> s.job, snapshot |-> IF s.into = "snapshots" THEN s.id ELSE 0]
               list == Append(jobs[s.content], job)
               e == Persist(s)
    <2>1. /\ jobs' = [jobs EXCEPT ![s.content] = list] /\ Goto(r, e)
          /\ UNCHANGED <<records, db, writer, file, answered>>
      BY <1>4 DEF AppendJob, stores
    <2>2. job \in Job /\ jobs[s.content] \in Seq(Job)
      BY <1>1 DEF RequestState, Job, TypeOK
    <2>3. /\ Len(list) = Len(jobs[s.content]) + 1
          /\ list[Len(jobs[s.content]) + 1] = job
          /\ \A i \in 1 .. Len(jobs[s.content]) : list[i] = jobs[s.content][i]
      BY <2>2, AppendProperties
    <2>4. \A w \in Workspace : Len(jobs[w]) \in Nat
      BY LenProperties DEF TypeOK
    <2>5. \A p \in Part : KeepsPart(p, Memory, Memory')
      <3>1. \A w \in Workspace : /\ Len(jobs[w]) <= Len(jobs'[w])
                                  /\ \A i \in 1 .. Len(jobs[w]) : jobs'[w][i] = jobs[w][i]
        <4> HIDE DEF list, job, s
        <4> QED
          BY <1>1, <2>1, <2>3, <2>4 DEF TypeOK
      <3>2. \A d \in Dictionary : Len(records[d]) \in Nat
        BY LenProperties DEF TypeOK
      <3> QED
        BY <2>1, <3>1, <3>2 DEF KeepsPart, Memory
    <2>6. req'[r] = e /\ \A q \in Request \ {r} : req'[q] = req[q]
      BY <2>1 DEF TypeOK, Goto
    <2>7. /\ e.at = "begin" /\ e.parts = AllParts /\ e.into = s.into /\ e.id = s.id
          /\ e.job = s.job /\ e.content = s.content
      BY <1>1 DEF Persist, RequestState
    <2>8. Made(Memory', e)
      <3>1. CASE s.into = "snapshots"
        BY <1>2, <2>1, <2>7, <3>1 DEF Made, Has, Memory
      <3>2. CASE s.into = "jobs"
        <4>1. jobs'[s.content] = list
          BY <1>1, <2>1 DEF TypeOK
        <4>2. Len(jobs[s.content]) + 1 \in 1 .. Len(list)
          BY <1>1, <2>3, <2>4
        <4>3. list[Len(jobs[s.content]) + 1].id = s.job
          BY <2>3
        <4> QED
          BY <2>7, <3>2, <4>1, <4>2, <4>3 DEF Made, Has, Memory
      <3> QED
        BY <1>1, <3>1, <3>2
    <2> HIDE DEF e
    <2>9. Placed(r, req[r])'
      BY <2>6, <2>7, <2>8 DEF Placed, Copying, Stored
    <2> QED
      BY <2>1, <2>5, <2>6, <2>9, CoveringAside DEF Covering
  <1> QED
    BY <1>3, <1>4

-----------------------------------------------------------------------------
(* The transaction *)

LEMMA AllPartsCover == {AllParts[i] : i \in 1 .. Len(AllParts)} = Part
  <1>1. Len(AllParts) = 6 /\ 1 .. 6 = {1, 2, 3, 4, 5, 6}
    BY DEF AllParts
  <1>2. /\ AllParts[1] = "connections" /\ AllParts[2] = "workspaces"
        /\ AllParts[3] = "snapshots" /\ AllParts[4] = "jobs"
        /\ AllParts[5] = "tables" /\ AllParts[6] = "keys"
    BY DEF AllParts
  <1> QED
    BY <1>1, <1>2 DEF Part, Dictionary, Detail

LEMMA BeginCovers ==
  ASSUME TypeOK, TypeOK', Covering, NEW r \in Request, Begin(r) PROVE Covering' /\ Growing
  <1> DEFINE s == req[r]
             e == [s EXCEPT !.at = "copy"]
  <1>1. CASE Raise(r)
    BY <1>1, RaiseCovers
  <1>2. CASE ~Raise(r)
    <2>1. /\ s \in RequestState /\ s.at = "begin" /\ MayWrite(r)
          /\ Goto(r, e) /\ writer' = r /\ db' = IF db = None THEN Empty ELSE db
          /\ UNCHANGED <<memory, file, answered>>
      BY <1>2 DEF Begin, TypeOK
    <2>2. req'[r] = e /\ \A q \in Request \ {r} : req'[q] = req[q]
      BY <2>1 DEF TypeOK, Goto
    <2>3. db' # None
      BY <2>1, EmptyType, NoneAssumption
    <2>4. Growing
      <3>1. db # None => db' = db
        BY <2>1
      <3> QED
        BY <2>1, <2>3, <3>1, SameMemory, Stores, KeepsItself DEF Growing
    <2>5. ASSUME NEW p \in Part PROVE KeepsPart(p, db', Memory')
      <3>1. CASE db = None
        BY <2>1, <3>1, NextStores, EmptyKept
      <3>2. CASE db # None
        <4>1. db' = db /\ Memory' = Memory
          BY <2>1, <3>2 DEF memory, Memory
        <4> QED
          BY <3>2, <4>1 DEF Covering
      <3> QED
        BY <3>1, <3>2
    <2>6. \A q \in Request \ {r} : req[q].at \notin Copying
      <3>1. writer \notin Request
        BY <2>1, CatalogAssumption DEF MayWrite
      <3> QED
        BY <3>1 DEF Covering, Placed
    <2>7. Placed(r, req[r])'
      <3>1. s.parts = AllParts /\ Made(Memory, s)
        BY <2>1 DEF Covering, Placed
      <3>2. e.at = "copy" /\ e.parts = AllParts /\ e.into = s.into /\ e.id = s.id
            /\ e.job = s.job /\ e.content = s.content /\ e.image = s.image
        BY <2>1, <3>1 DEF RequestState
      <3>3. Made(Memory', e)
        BY <2>1, <3>1, <3>2 DEF Made, memory, Memory
      <3>4. Pending(e) = Part
        <4> HIDE DEF e
        <4> QED
          BY <3>2, AllPartsCover DEF Pending
      <3>5. e.into \in Part
        BY <2>1, <3>2 DEF RequestState, Part
      <3> HIDE DEF e, s
      <3> QED
        BY <2>1, <2>2, <2>3, <3>2, <3>3, <3>4, <3>5 DEF Placed, Copying, Stored
    <2> QED
      BY <2>1, <2>2, <2>3, <2>4, <2>5, <2>6, <2>7, CoveringStep
  <1> QED
    BY <1>1, <1>2

\* Copying a part makes it what memory has, and leaves the other parts.
LEMMA CopiedParts ==
  ASSUME TypeOK, NEW image \in Image, NEW part \in Part
  PROVE  /\ Copied(image, part) \in Image
         /\ part \in Dictionary => Copied(image, part).records[part] = records[part]
         /\ part = "jobs" => Copied(image, part).jobs = jobs
         /\ \A d \in Dictionary \ {part} : Copied(image, part).records[d] = image.records[d]
         /\ part # "jobs" => Copied(image, part).jobs = image.jobs
  <1>1. Copied(image, part) \in Image
    BY CopiedType
  <1>2. CASE part \in Dictionary
    <2> DEFINE recs == [image.records EXCEPT ![part] = records[part]]
    <2>1. recs[part] = records[part] /\ \A d \in Dictionary \ {part} : recs[d] = image.records[d]
      BY <1>2 DEF Image
    <2>2. Copied(image, part) = [image EXCEPT !.records = recs]
      BY <1>2 DEF Copied, Dictionary, Detail, Image
    <2> HIDE DEF recs
    <2>3. [image EXCEPT !.records = recs]
            = [records |-> recs, jobs |-> image.jobs, details |-> image.details]
      BY DEF Image
    <2>4. Copied(image, part).records = recs /\ Copied(image, part).jobs = image.jobs
      BY <2>2, <2>3
    <2> QED
      BY <1>1, <1>2, <2>1, <2>4 DEF Dictionary
  <1>3. CASE part = "jobs"
    <2>1. Copied(image, part)
            = [records |-> image.records, jobs |-> jobs, details |-> image.details]
      BY <1>3 DEF Copied, Image, Detail
    <2> QED
      BY <1>1, <1>3, <2>1 DEF Dictionary
  <1>4. CASE part \in Detail
    BY <1>1, <1>4 DEF Copied, Image, Dictionary, Detail
  <1> QED
    BY <1>2, <1>3, <1>4 DEF Part

\* So a part just copied is memory's, and another is as it was, to KeepsPart.
LEMMA CopiedKeeps ==
  ASSUME TypeOK, NEW image \in Image, NEW part \in Part, NEW x, IsStore(x)
  PROVE  /\ KeepsPart(part, x, Memory) => KeepsPart(part, x, Copied(image, part))
         /\ KeepsPart(part, Copied(image, part), Memory)
         /\ \A p \in Part \ {part} :
              /\ KeepsPart(p, x, image) => KeepsPart(p, x, Copied(image, part))
              /\ KeepsPart(p, image, x) => KeepsPart(p, Copied(image, part), x)
  <1> DEFINE y == Copied(image, part)
  <1>1. IsStore(y)
    BY CopiedType, Stores
  <1>2. KeepsPart(part, Memory, Memory)
    BY Stores, KeepsItself
  <1>3. /\ part \in Dictionary => y.records[part] = Memory.records[part]
        /\ part = "jobs" => y.jobs = Memory.jobs
        /\ \A d \in Dictionary \ {part} : y.records[d] = image.records[d]
        /\ part # "jobs" => y.jobs = image.jobs
    BY CopiedParts DEF Memory
  <1> HIDE DEF y
  <1>4. KeepsPart(part, x, Memory) => KeepsPart(part, x, y)
    BY <1>3 DEF KeepsPart
  <1>5. KeepsPart(part, y, Memory)
    BY <1>2, <1>3 DEF KeepsPart
  <1>6. ASSUME NEW p \in Part \ {part}
        PROVE  /\ KeepsPart(p, x, image) => KeepsPart(p, x, y)
               /\ KeepsPart(p, image, x) => KeepsPart(p, y, x)
    BY <1>3, <1>6 DEF KeepsPart
  <1> QED
    BY <1>4, <1>5, <1>6 DEF y

LEMMA CopyPartCovers ==
  ASSUME TypeOK, TypeOK', Covering, NEW r \in Request, CopyPart(r) PROVE Covering' /\ Growing
  <1> DEFINE s == req[r]
             part == Head(s.parts)
             parts == Tail(s.parts)
             image == Copied(s.image, part)
             e == [s EXCEPT !.image = image, !.parts = parts,
                            !.at = IF parts = <<>> THEN "commit" ELSE @]
  <1>1. CASE Raise(r)
    BY <1>1, RaiseCovers
  <1>2. CASE ~Raise(r)
    <2>1. /\ s \in RequestState /\ s.at = "copy" /\ s.parts # <<>> /\ s.parts \in Seq(Part)
          /\ s.image \in Image
          /\ Goto(r, e) /\ UNCHANGED <<memory, db, writer, file, answered>>
      BY <1>2 DEF CopyPart, TypeOK, InPlace, RequestState, stores
    <2>2. req'[r] = e /\ \A q \in Request \ {r} : req'[q] = req[q]
      BY <2>1 DEF TypeOK, Goto
    <2>3. part \in Part /\ Pending(s) \subseteq {part} \cup {parts[i] : i \in 1 .. Len(parts)}
      <3>1. part \in Part /\ Len(parts) = Len(s.parts) - 1
            /\ \A i \in 1 .. Len(s.parts) - 1 : parts[i] = s.parts[i + 1]
        BY <2>1, HeadTailProperties
      <3>2. part = s.parts[1] /\ Len(s.parts) \in Nat
        BY <2>1, LenProperties
      <3>3. ASSUME NEW i \in 1 .. Len(s.parts), i # 1 PROVE s.parts[i] \in {parts[j] : j \in 1 .. Len(parts)}
        <4>1. i - 1 \in 1 .. Len(parts) /\ parts[i - 1] = s.parts[i]
          BY <3>1, <3>2, <3>3
        <4> QED
          BY <4>1
      <3> QED
        BY <3>1, <3>2, <3>3 DEF Pending
    <2>4. /\ db # None /\ writer = r /\ Made(Memory, s)
          /\ \A p \in Part \ Pending(s) : KeepsPart(p, db, s.image) /\ KeepsPart(p, s.image, Memory)
          /\ s.into \notin Pending(s) => Made(s.image, s)
      BY <2>1 DEF Covering, Placed, Copying
    <2>5. /\ e.at \in Copying /\ (e.at = "commit" => e.parts = <<>>) /\ e.parts = parts
          /\ e.image = image /\ e.into = s.into /\ e.id = s.id /\ e.job = s.job
          /\ e.content = s.content
      <3> HIDE DEF image, parts, s
      <3> QED
        BY <2>1 DEF RequestState, Copying
    <2>6. IsStore(Memory) /\ IsStore(db) /\ IsStore(s.image) /\ IsStore(image)
      BY <2>1, <2>3, <2>4, Stores, CopiedType
    <2>7. ASSUME NEW p \in Part \ Pending(e)
          PROVE  KeepsPart(p, db, image) /\ KeepsPart(p, image, Memory)
      <3>1. CASE p = part
        <4>1. KeepsPart(part, db, Memory)
          BY <2>3, <2>4 DEF Covering
        <4> QED
          BY <2>1, <2>3, <2>6, <3>1, <4>1, CopiedKeeps
      <3>2. CASE p # part
        <4>1. p \notin Pending(s)
          BY <2>3, <2>5, <3>2 DEF Pending
        <4> QED
          BY <2>1, <2>3, <2>4, <2>6, <3>2, <4>1, CopiedKeeps
      <3> QED
        BY <3>1, <3>2
    <2>8. ASSUME e.into \notin Pending(e) PROVE Made(image, s)
      <3>1. s.into \in Part /\ s.at # "idle"
        BY <2>1 DEF RequestState, Part
      <3>2. CASE s.into = part
        <4>1. KeepsPart(part, Memory, Memory)
          BY <2>6, KeepsItself
        <4>2. KeepsPart(part, Memory, image)
          BY <2>1, <2>3, <2>6, <4>1, CopiedKeeps
        <4> QED
          BY <2>4, <2>6, <3>1, <3>2, <4>2, MadeKept
      <3>3. CASE s.into # part
        <4>1. s.into \notin Pending(s)
          BY <2>3, <2>5, <2>8, <3>3 DEF Pending
        <4>2. KeepsPart(s.into, s.image, s.image)
          BY <2>6, KeepsItself
        <4>3. KeepsPart(s.into, s.image, image)
          BY <2>1, <2>3, <2>6, <3>1, <3>3, <4>2, CopiedKeeps
        <4> QED
          BY <2>4, <2>6, <3>1, <4>1, <4>3, MadeKept
      <3> QED
        BY <3>2, <3>3
    <2>9. Made(Memory', e) /\ (e.into \notin Pending(e) => Made(e.image, e))
      <3>1. Memory' = Memory
        BY <2>1 DEF memory, Memory
      <3> HIDE DEF e, s, image
      <3> QED
        BY <2>4, <2>5, <2>8, <3>1 DEF Made
    <2>10. Placed(r, req[r])'
      <3>1. Memory' = Memory /\ db' = db /\ writer' = writer
        BY <2>1 DEF memory, Memory
      <3> HIDE DEF e, s, image, part, parts
      <3> QED
        BY <2>2, <2>4, <2>5, <2>7, <2>9, <3>1 DEF Placed, Copying, Stored
    <2> QED
      BY <2>1, <2>2, <2>10, SameMemory, CoveringAside DEF Covering
  <1> QED
    BY <1>1, <1>2

LEMMA CommitCovers ==
  ASSUME TypeOK, TypeOK', Covering, NEW r \in Request, Commit(r) PROVE Covering' /\ Growing
  <1> DEFINE s == req[r]
             e == [s EXCEPT !.at = "dump"]
  <1>1. /\ s \in RequestState /\ s.at = "commit" /\ s.image \in Image
        /\ Goto(r, e) /\ db' = s.image /\ UNCHANGED <<memory, file, answered>>
    BY DEF Commit, TypeOK, RequestState
  <1>2. req'[r] = e /\ \A q \in Request \ {r} : req'[q] = req[q]
    BY <1>1 DEF TypeOK, Goto
  <1>3. /\ db # None /\ writer = r /\ s.parts = <<>>
        /\ \A p \in Part \ Pending(s) : KeepsPart(p, db, s.image) /\ KeepsPart(p, s.image, Memory)
        /\ s.into \notin Pending(s) => Made(s.image, s)
    BY <1>1 DEF Covering, Placed, Copying
  <1>4. Pending(s) = {}
    BY <1>3 DEF Pending
  <1>5. db' # None
    BY <1>1, NoneAssumption
  <1>6. Growing
    BY <1>1, <1>3, <1>4, <1>5, SameMemory DEF Growing
  <1>7. \A p \in Part : KeepsPart(p, db', Memory')
    <2>1. Memory' = Memory
      BY <1>1 DEF memory, Memory
    <2> QED
      BY <1>1, <1>3, <1>4, <2>1
  <1>8. \A q \in Request \ {r} : req[q].at \notin Copying
    BY <1>3 DEF Covering, Placed
  <1>9. Placed(r, req[r])'
    <2>1. e.at = "dump" /\ e.into = s.into /\ e.id = s.id /\ e.job = s.job
          /\ e.content = s.content
      BY <1>1 DEF RequestState
    <2>2. Made(db', e)
      BY <1>1, <1>3, <1>4, <2>1 DEF Made
    <2> HIDE DEF e, s
    <2> QED
      BY <1>2, <1>5, <2>1, <2>2 DEF Placed, Copying, Stored
  <1> QED
    BY <1>1, <1>2, <1>5, <1>6, <1>7, <1>8, <1>9, CoveringStep

-----------------------------------------------------------------------------
(* The JSON file, and the answer *)

LEMMA FileCovers ==
  ASSUME TypeOK, TypeOK', Covering, NEW r \in Request,
         Dump(r) \/ TruncateFile(r) \/ WriteFile(r)
  PROVE  Covering' /\ Growing
  <1> DEFINE s == req[r]
  <1>1. /\ s \in RequestState /\ s.at \in Stored /\ db # None /\ Made(db, s)
    BY DEF TypeOK, Covering, Placed, Stored, Dump, TruncateFile, WriteFile
  <1>2. CASE Raise(r)
    BY <1>2, RaiseCovers
  <1>3. CASE (Dump(r) /\ ~Raise(r)) \/ TruncateFile(r)
    <2>1. PICK e : /\ e.at \in Stored /\ e.into = s.into /\ e.id = s.id /\ e.job = s.job
                   /\ e.content = s.content
                   /\ Goto(r, e) /\ UNCHANGED <<memory, db, writer, answered>>
      <3>1. CASE Dump(r) /\ ~Raise(r)
        <4> DEFINE e == [s EXCEPT !.at = "truncate", !.image =
                           [records |-> records, jobs |-> jobs, details |-> Empty.details]]
        <4>1. Goto(r, e) /\ UNCHANGED <<memory, db, writer, answered>>
          BY <3>1 DEF Dump, stores
        <4>2. /\ e.at \in Stored /\ e.into = s.into /\ e.id = s.id /\ e.job = s.job
              /\ e.content = s.content
          BY <1>1 DEF RequestState, Stored
        <4> QED
          BY <4>1, <4>2
      <3>2. CASE TruncateFile(r)
        <4> DEFINE e == [s EXCEPT !.at = "write"]
        <4>1. Goto(r, e) /\ UNCHANGED <<memory, db, writer, answered>>
          BY <3>2 DEF TruncateFile
        <4>2. /\ e.at \in Stored /\ e.into = s.into /\ e.id = s.id /\ e.job = s.job
              /\ e.content = s.content
          BY <1>1 DEF RequestState, Stored
        <4> QED
          BY <4>1, <4>2
      <3> QED
        BY <1>3, <3>1, <3>2
    <2>2. req'[r] = e /\ \A q \in Request \ {r} : req'[q] = req[q]
      BY <2>1 DEF TypeOK, Goto
    <2>3. Placed(r, req[r])'
      BY <1>1, <2>1, <2>2 DEF Placed, Copying, Stored, Made
    <2> QED
      BY <1>1, <2>1, <2>2, <2>3, SameMemory, CoveringAside
  <1>4. CASE WriteFile(r)
    <2> DEFINE a == [into |-> s.into, content |-> s.content,
                     id |-> IF s.into = "jobs" THEN s.job ELSE s.id]
    <2>1. Goto(r, Idle) /\ answered' = answered \cup {a} /\ UNCHANGED <<memory, db, writer>>
      BY <1>4 DEF WriteFile
    <2>2. req'[r] = Idle /\ \A q \in Request \ {r} : req'[q] = req[q]
      BY <2>1 DEF TypeOK, Goto
    <2>3. Placed(r, req[r])'
      BY <2>2, IdlePlaced
    <2>4. \A b \in answered' \ answered : db' # None /\ Has(db', b.into, b.id, b.content)
      BY <1>1, <2>1 DEF Made
    <2> QED
      BY <1>1, <2>1, <2>2, <2>3, <2>4, SameMemory, CoveringAside
  <1> QED
    BY <1>2, <1>3, <1>4

-----------------------------------------------------------------------------
(* A start reads back what was committed *)

LEMMA RestartCovers ==
  ASSUME TypeOK, TypeOK', Covering, Restart PROVE Covering' /\ db' = db
  <1>1. \A q \in Request : req'[q] = Idle
    BY DEF Restart
  <1>2. \A q \in Request : Placed(q, req[q])'
    BY <1>1, IdlePlaced
  <1>3. ASSUME db # None, NEW p \in Part PROVE KeepsPart(p, db, Memory')
    <2>1. records' = db.records /\ jobs' = db.jobs
      BY <1>3 DEF Restart, Loaded
    <2>2. KeepsPart(p, db, db)
      BY <1>3, Stores, KeepsItself
    <2> QED
      BY <2>1, <2>2 DEF KeepsPart, Memory
  <1>4. UNCHANGED <<db, file, answered>>
    BY DEF Restart
  <1> QED
    BY <1>2, <1>3, <1>4 DEF Covering

LEMMA CoveringInit == Init => Covering
  <1> SUFFICES ASSUME Init PROVE Covering
    OBVIOUS
  <1>1. \A q \in Request : Placed(q, req[q])
    BY DEF Init, Idle, Placed, Copying, Stored
  <1> QED
    BY <1>1 DEF Init, Covering

\* A step keeps Covering, and the database it leaves keeps the one it found.
LEMMA CoveringNext ==
  TypeOK /\ TypeOK' /\ Covering /\ [Next]_vars =>
    /\ Covering'
    /\ db # None => db' # None /\ \A p \in Part : KeepsPart(p, db, db')
  <1> SUFFICES ASSUME TypeOK, TypeOK', Covering, [Next]_vars
               PROVE  /\ Covering'
                      /\ db # None => db' # None /\ \A p \in Part : KeepsPart(p, db, db')
    OBVIOUS
  <1>1. CASE UNCHANGED vars
    <2>1. UNCHANGED <<memory, db, writer, file, req, answered>>
      BY <1>1 DEF vars, memory
    <2>2. Memory' = Memory
      BY <2>1 DEF memory, Memory
    <2>3. Covering'
      BY <2>1, <2>2 DEF Covering, Placed
    <2> QED
      BY <2>1, <2>3, Stores, KeepsItself
  <1>2. CASE Restart
    BY <1>2, RestartCovers, Stores, KeepsItself
  <1>3. ASSUME NEW r \in Request, Serve(r) \/ Continue(r) PROVE Covering' /\ Growing
    BY <1>3, ServeCovers, InsertCovers, JobsCover, BeginCovers, CopyPartCovers, CommitCovers,
       FileCovers DEF Continue
  <1> QED
    BY <1>1, <1>2, <1>3 DEF Next, Growing

-----------------------------------------------------------------------------

\* Under every interleaving, timeout and restart, the database trails memory and
\* only the thread with the write lock has a transaction, with at least what it
\* will replace.
THEOREM CatalogCovers == Spec => []Covering
  <1>1. Covering /\ TypeOK /\ [Next]_vars => Covering'
    BY TypeStep, CoveringNext
  <1> QED
    BY <1>1, CoveringInit, CatalogTypeCorrect, PTL DEF Spec

\* Whatever a request was told it created is found by its number after a crash at
\* any moment: _persist_catalog() committed it before the answer went out, and no
\* later rewrite of the database dropped it.
THEOREM AnswersSurvive == Spec => []AnsweredIsLoaded
  <1>1. TypeOK /\ Covering => AnsweredIsLoaded
    <2> SUFFICES ASSUME Covering, NEW a \in answered
                 PROVE  IF a.into = "jobs"
                        THEN \E i \in 1 .. Len(Loaded.jobs[a.content]) :
                               Loaded.jobs[a.content][i].id = a.id
                        ELSE a.id <= Len(Loaded.records[a.into])
      BY DEF AnsweredIsLoaded
    <2>1. db # None /\ Has(db, a.into, a.id, a.content)
      BY DEF Covering
    <2>2. Loaded = db
      BY <2>1 DEF Loaded
    <2> QED
      BY <2>1, <2>2 DEF Has
  <1> QED
    BY <1>1, CatalogTypeCorrect, CatalogCovers, PTL

\* No commit loses a record or a job that an earlier one stored.
THEOREM CommitsGrow == Spec => CommittedNeverShrinks
  <1>1. TypeOK /\ Covering /\ [Next]_vars =>
          [db # None => /\ db' # None
                        /\ \A d \in Dictionary : Len(db.records[d]) <= Len(db'.records[d])
                        /\ \A w \in Workspace : Len(db.jobs[w]) <= Len(db'.jobs[w])]_vars
    <2> SUFFICES ASSUME TypeOK, Covering, [Next]_vars, db # None
                 PROVE  /\ db' # None
                        /\ \A d \in Dictionary : Len(db.records[d]) <= Len(db'.records[d])
                        /\ \A w \in Workspace : Len(db.jobs[w]) <= Len(db'.jobs[w])
      OBVIOUS
    <2>1. db' # None /\ \A p \in Part : KeepsPart(p, db, db')
      BY TypeStep, CoveringNext
    <2> QED
      BY <2>1 DEF KeepsPart, Part
  <1> QED
    BY <1>1, CatalogTypeCorrect, CatalogCovers, PTL DEF Spec, CommittedNeverShrinks

-----------------------------------------------------------------------------
(* Inductive strengthenings *)

SamePart(p, x, y) ==
  /\ p \in Dictionary => x.records[p] = y.records[p]
  /\ p = "jobs" => x.jobs = y.jobs

\* A thread will still copy the part, or holds a copy of it that is memory's, or
\* nobody writes and the database has it.
Fresh(p) ==
  \/ \E r \in Request : req[r].at \in {"number", "append", "begin"}
  \/ \E r \in Request : /\ req[r].at \in Copying
                        /\ p \in Pending(req[r]) \/ SamePart(p, req[r].image, Memory)
  \/ writer = None /\ SamePart(p, Loaded, Memory)

Syncing == ~raised => \A p \in Part : Fresh(p)

\* The detail rows are copied after the snapshots.
SnapshotsFirst(parts) ==
  \A i \in 1 .. Len(parts) : parts[i] = "snapshots" =>
    \A d \in Detail : \E j \in i + 1 .. Len(parts) : parts[j] = d

\* The store's snapshots are memory's still, but for those that were replaced.
Agrees(store) ==
  \A n \in 1 .. Len(store.records["snapshots"]) :
    /\ n <= Len(records["snapshots"])
    /\ n \in replaced \/ records["snapshots"][n] = store.records["snapshots"][n]

Detailed ==
  /\ db # None => Agrees(db) /\ \A d \in Detail : Detailing(db, d)
  /\ \A r \in Request : req[r].at \in Copying =>
       /\ SnapshotsFirst(req[r].parts)
       /\ "snapshots" \notin Pending(req[r]) => Agrees(req[r].image)
       /\ \A d \in Detail \ Pending(req[r]) : Detailing(req[r].image, d)

\* Of the requests, one at most is in flight.
OneAtATime == \A r, q \in Request : req[r].at # "idle" /\ req[q].at # "idle" => r = q

\* The jobs of a store name snapshots that it has, of the job's workspace.
JobsIn(store) ==
  \A w \in Workspace : \A i \in 1 .. Len(store.jobs[w]) :
    LET n == store.jobs[w][i].snapshot
    IN n # 0 => n <= Len(store.records["snapshots"]) /\ store.records["snapshots"][n] = w

\* The store has this content under this number.
Keeps(store, into, id, content) ==
  into \in Dictionary => /\ 1 <= id /\ id <= Len(store.records[into])
                         /\ store.records[into][id] = content

\* Where a request that overlaps no other stands: its number is the next one, then
\* its record is in memory, then in its transaction and in the database.
Alone(s) ==
  /\ s.at = "insert" => s.id = Len(records[s.into]) + 1
  /\ s.at \in {"number", "append", "begin"} \cup Copying =>
       Keeps(Memory, s.into, s.id, s.content)
  /\ s.at \in Copying => \A p \in Part \ Pending(s) : SamePart(p, s.image, Memory)
  /\ s.at \in Stored => Keeps(db, s.into, s.id, s.content)

\* Each dictionary of the one store is what the other's begins with.
Begins(x, y) ==
  \A d \in Dictionary :
    /\ Len(x.records[d]) <= Len(y.records[d])
    /\ \A i \in 1 .. Len(x.records[d]) : y.records[d][i] = x.records[d][i]

\* The database is what memory began with, record by record.
Given ==
  /\ JobsIn(Memory)
  /\ db # None => JobsIn(db) /\ Begins(db, Memory)
  /\ \A r \in Request : Alone(req[r])
  /\ \A a \in answered : Keeps(db, a.into, a.id, a.content)

-----------------------------------------------------------------------------
(* What each step does to a request and to the stores *)

\* The others stay where they are.
OthersStay(r) == \A q \in Request \ {r} : req'[q] = req[q]

LEMMA Moved ==
  ASSUME TypeOK, NEW r \in Request, NEW e, Goto(r, e) PROVE req'[r] = e /\ OthersStay(r)
  BY DEF TypeOK, Goto, OthersStay

LEMMA RaiseDoes ==
  ASSUME TypeOK, NEW r \in Request, Raise(r)
  PROVE  /\ req'[r].at = "idle" /\ OthersStay(r) /\ raised' = TRUE
         /\ UNCHANGED <<memory, db, file, answered>>
  BY Moved DEF Raise, Idle

LEMMA ServeDoes ==
  ASSUME TypeOK, NEW r \in Request, Serve(r)
  PROVE  /\ req[r].at = "idle" /\ OthersStay(r) /\ UNCHANGED <<memory, stores, answered, raised>>
         /\ \/ /\ req'[r].at = "insert"
               /\ req'[r].id = Len(records[req'[r].into]) + 1
            \/ req'[r].at = "number" /\ req'[r].into = "jobs"
  <1>1. ASSUME NEW d \in Dictionary, NEW content \in Payload, Create(r, d, content)
        PROVE  /\ req[r].at = "idle" /\ UNCHANGED <<memory, stores, answered, raised>>
               /\ Goto(r, [Idle EXCEPT !.at = "insert", !.into = d, !.content = content,
                                       !.id = Len(records[d]) + 1])
    BY <1>1 DEF Create, Accept, NewId
  <1>2. ASSUME NEW w \in Workspace, Discover(r, w)
        PROVE  /\ req[r].at = "idle" /\ UNCHANGED <<memory, stores, answered, raised>>
               /\ Goto(r, [Idle EXCEPT !.at = "insert", !.into = "snapshots", !.content = w,
                                       !.id = Len(records["snapshots"]) + 1])
    BY <1>2 DEF Discover, Accept, NewId
  <1>3. ASSUME NEW w \in Workspace, Generate(r, w)
        PROVE  /\ req[r].at = "idle" /\ UNCHANGED <<memory, stores, answered, raised>>
               /\ Goto(r, [Idle EXCEPT !.at = "number", !.into = "jobs", !.content = w])
    BY <1>3 DEF Generate, Accept
  <1>4. ASSUME NEW d, NEW content, NEW n,
               Goto(r, [Idle EXCEPT !.at = "insert", !.into = d, !.content = content, !.id = n])
        PROVE  /\ OthersStay(r) /\ req'[r].at = "insert" /\ req'[r].into = d /\ req'[r].id = n
    <2> DEFINE e == [Idle EXCEPT !.at = "insert", !.into = d, !.content = content, !.id = n]
    <2>1. e.at = "insert" /\ e.into = d /\ e.id = n
      BY DEF Idle
    <2>2. Goto(r, e)
      BY <1>4
    <2> HIDE DEF e
    <2> QED
      BY <2>1, <2>2, Moved
  <1>5. ASSUME NEW w, Goto(r, [Idle EXCEPT !.at = "number", !.into = "jobs", !.content = w])
        PROVE  /\ OthersStay(r) /\ req'[r].at = "number" /\ req'[r].into = "jobs"
    <2> DEFINE e == [Idle EXCEPT !.at = "number", !.into = "jobs", !.content = w]
    <2>1. e.at = "number" /\ e.into = "jobs"
      BY DEF Idle
    <2>2. Goto(r, e)
      BY <1>5
    <2> HIDE DEF e
    <2> QED
      BY <2>1, <2>2, Moved
  <1>6. CASE \E d \in Dictionary, content \in Payload : Create(r, d, content)
    <2>1. PICK d \in Dictionary, content \in Payload : Create(r, d, content)
      BY <1>6
    <2>2. /\ req[r].at = "idle" /\ UNCHANGED <<memory, stores, answered, raised>>
          /\ Goto(r, [Idle EXCEPT !.at = "insert", !.into = d, !.content = content,
                                  !.id = Len(records[d]) + 1])
      BY <1>1, <2>1
    <2>3. /\ OthersStay(r) /\ req'[r].at = "insert" /\ req'[r].into = d
          /\ req'[r].id = Len(records[d]) + 1
      BY <1>4, <2>2
    <2> QED
      BY <2>2, <2>3
  <1>7. CASE \E w \in Workspace : Discover(r, w)
    <2>1. PICK w \in Workspace : Discover(r, w)
      BY <1>7
    <2>2. /\ req[r].at = "idle" /\ UNCHANGED <<memory, stores, answered, raised>>
          /\ Goto(r, [Idle EXCEPT !.at = "insert", !.into = "snapshots", !.content = w,
                                  !.id = Len(records["snapshots"]) + 1])
      BY <1>2, <2>1
    <2>3. /\ OthersStay(r) /\ req'[r].at = "insert" /\ req'[r].into = "snapshots"
          /\ req'[r].id = Len(records["snapshots"]) + 1
      BY <1>4, <2>2
    <2> QED
      BY <2>2, <2>3
  <1>8. CASE \E w \in Workspace : Generate(r, w)
    BY <1>3, <1>5, <1>8
  <1> QED
    BY <1>6, <1>7, <1>8 DEF Serve

\* The request keeps what it reports.
SameReport(e, s) == e.into = s.into /\ e.id = s.id /\ e.content = s.content

LEMMA InsertDoes ==
  ASSUME TypeOK, NEW r \in Request, Insert(r)
  PROVE  /\ req[r].at = "insert" /\ req[r].into \in Dictionary /\ OthersStay(r)
         /\ req'[r].at \in {"number", "begin"} /\ SameReport(req'[r], req[r])
         /\ records' = [records EXCEPT ![req[r].into] =
                          Put(records[req[r].into], req[r].id, req[r].content)]
         /\ replaced' = IF /\ req[r].into = "snapshots"
                           /\ req[r].id <= Len(records["snapshots"])
                        THEN replaced \cup {req[r].id} ELSE replaced
         /\ UNCHANGED <<jobs, stores, answered, raised>>
  <1> DEFINE s == req[r]
  <1>1. /\ s \in RequestState /\ s.at = "insert" /\ s.into \in Dictionary
        /\ Goto(r, AfterInsert(s)) /\ UNCHANGED <<jobs, stores, answered, raised>>
        /\ replaced' = IF s.into = "snapshots" /\ s.id <= Len(records["snapshots"])
                       THEN replaced \cup {s.id} ELSE replaced
        /\ records' = [records EXCEPT ![s.into] = Put(records[s.into], s.id, s.content)]
    BY DEF Insert, TypeOK, InPlace
  <1>2. /\ AfterInsert(s).at \in {"number", "begin"} /\ SameReport(AfterInsert(s), s)
    BY <1>1 DEF AfterInsert, Persist, RequestState, SameReport
  <1> QED
    BY <1>1, <1>2, Moved

LEMMA NumberDoes ==
  ASSUME TypeOK, NEW r \in Request, NumberJob(r)
  PROVE  /\ req[r].at = "number" /\ OthersStay(r)
         /\ req'[r].at = "append" /\ SameReport(req'[r], req[r])
         /\ UNCHANGED <<memory, stores, answered, raised>>
  <1> DEFINE s == req[r]
             e == [s EXCEPT !.at = "append", !.job = Len(jobs[s.content]) + 1]
  <1>1. /\ s \in RequestState /\ s.at = "number" /\ Goto(r, e)
        /\ UNCHANGED <<memory, stores, answered, raised>>
    BY DEF NumberJob, TypeOK
  <1>2. e.at = "append" /\ SameReport(e, s)
    BY <1>1 DEF RequestState, SameReport
  <1> QED
    BY <1>1, <1>2, Moved

LEMMA AppendDoes ==
  ASSUME TypeOK, NEW r \in Request, AppendJob(r)
  PROVE  /\ req[r].at = "append" /\ req[r].content \in Workspace /\ OthersStay(r)
         /\ req[r].into \in {"snapshots", "jobs"}
         /\ req'[r].at = "begin" /\ SameReport(req'[r], req[r])
         /\ \E job \in Job :
              /\ job.snapshot = IF req[r].into = "snapshots" THEN req[r].id ELSE 0
              /\ jobs' = [jobs EXCEPT ![req[r].content] = Append(jobs[req[r].content], job)]
         /\ UNCHANGED <<records, replaced, stores, answered, raised>>
  <1> DEFINE s == req[r]
             job == [id |-> s.job, snapshot |-> IF s.into = "snapshots" THEN s.id ELSE 0]
  <1>1. /\ s \in RequestState /\ s.at = "append" /\ Goto(r, Persist(s))
        /\ s.content \in Workspace /\ s.into \in {"snapshots", "jobs"}
        /\ jobs' = [jobs EXCEPT ![s.content] = Append(jobs[s.content], job)]
        /\ UNCHANGED <<records, replaced, stores, answered, raised>>
    BY DEF AppendJob, TypeOK, InPlace
  <1>2. Persist(s).at = "begin" /\ SameReport(Persist(s), s)
    BY <1>1 DEF Persist, RequestState, SameReport
  <1>3. job \in Job /\ job.snapshot = IF s.into = "snapshots" THEN s.id ELSE 0
    BY <1>1 DEF RequestState, Job
  <1> QED
    BY <1>1, <1>2, <1>3, Moved

LEMMA BeginDoes ==
  ASSUME TypeOK, Covering, NEW r \in Request, Begin(r), ~Raise(r)
  PROVE  /\ req[r].at = "begin" /\ OthersStay(r)
         /\ req'[r].at = "copy" /\ SameReport(req'[r], req[r])
         /\ req'[r].parts = AllParts /\ Pending(req'[r]) = Part
         /\ db' = IF db = None THEN Empty ELSE db
         /\ UNCHANGED <<memory, file, answered, raised>>
  <1> DEFINE s == req[r]
             e == [s EXCEPT !.at = "copy"]
  <1>1. /\ s \in RequestState /\ s.at = "begin" /\ Goto(r, e)
        /\ db' = IF db = None THEN Empty ELSE db
        /\ UNCHANGED <<memory, file, answered, raised>>
    BY DEF Begin, TypeOK
  <1>2. s.parts = AllParts
    BY <1>1 DEF Covering, Placed
  <1>3. e.at = "copy" /\ SameReport(e, s) /\ e.parts = AllParts
    BY <1>1, <1>2 DEF RequestState, SameReport
  <1> HIDE DEF e
  <1>4. Pending(e) = Part
    BY <1>3, AllPartsCover DEF Pending
  <1> QED
    BY <1>1, <1>3, <1>4, Moved

LEMMA CopyDoes ==
  ASSUME TypeOK, Covering, NEW r \in Request, CopyPart(r), ~Raise(r)
  PROVE  /\ req[r].at = "copy" /\ writer = r /\ OthersStay(r)
         /\ req[r].parts \in Seq(Part) /\ req[r].parts # <<>>
         /\ req'[r].at \in Copying /\ SameReport(req'[r], req[r])
         /\ req'[r].parts = Tail(req[r].parts)
         /\ req'[r].image = Copied(req[r].image, Head(req[r].parts))
         /\ req[r].image \in Image /\ Head(req[r].parts) \in Part
         /\ Pending(req[r]) = {Head(req[r].parts)} \cup Pending(req'[r])
         /\ UNCHANGED <<memory, stores, answered, raised>>
  <1> DEFINE s == req[r]
             part == Head(s.parts)
             parts == Tail(s.parts)
             image == Copied(s.image, part)
             e == [s EXCEPT !.image = image, !.parts = parts,
                            !.at = IF parts = <<>> THEN "commit" ELSE @]
  <1>1. /\ s \in RequestState /\ s.at = "copy" /\ s.parts # <<>> /\ s.parts \in Seq(Part)
        /\ s.image \in Image /\ Goto(r, e) /\ UNCHANGED <<memory, stores, answered, raised>>
    BY DEF CopyPart, TypeOK, InPlace, RequestState
  <1>2. writer = r
    BY <1>1 DEF Covering, Placed, Copying
  <1>3. e.at \in Copying /\ SameReport(e, s) /\ e.parts = parts /\ e.image = image
    <2> HIDE DEF image, parts, s
    <2> QED
      BY <1>1 DEF RequestState, SameReport, Copying
  <1>4. /\ part \in Part /\ part = s.parts[1] /\ Len(parts) = Len(s.parts) - 1
        /\ Len(s.parts) \in Nat /\ Len(s.parts) # 0
        /\ \A i \in 1 .. Len(parts) : parts[i] = s.parts[i + 1]
    BY <1>1, HeadTailProperties, LenProperties, EmptySeq
  <1>5. Pending(s) = {part} \cup {parts[i] : i \in 1 .. Len(parts)}
    <2>1. ASSUME NEW i \in 1 .. Len(s.parts), i # 1
          PROVE  s.parts[i] \in {parts[j] : j \in 1 .. Len(parts)}
      <3>1. i - 1 \in 1 .. Len(parts) /\ parts[i - 1] = s.parts[i]
        BY <1>4, <2>1
      <3> QED
        BY <3>1
    <2>2. ASSUME NEW i \in 1 .. Len(parts) PROVE parts[i] \in Pending(s)
      <3>1. i + 1 \in 1 .. Len(s.parts) /\ parts[i] = s.parts[i + 1]
        BY <1>4
      <3> QED
        BY <3>1 DEF Pending
    <2>3. part \in Pending(s)
      <3>1. 1 \in 1 .. Len(s.parts)
        BY <1>4
      <3> QED
        BY <1>4, <3>1 DEF Pending
    <2> HIDE DEF part, parts
    <2> QED
      BY <1>4, <2>1, <2>2, <2>3 DEF Pending
  <1> HIDE DEF e
  <1>6. Pending(e) = {parts[i] : i \in 1 .. Len(parts)}
    BY <1>3 DEF Pending
  <1> QED
    BY <1>1, <1>2, <1>3, <1>4, <1>5, <1>6, Moved

LEMMA CommitDoes ==
  ASSUME TypeOK, Covering, NEW r \in Request, Commit(r)
  PROVE  /\ req[r].at = "commit" /\ writer = r /\ Pending(req[r]) = {} /\ OthersStay(r)
         /\ req'[r].at = "dump" /\ SameReport(req'[r], req[r])
         /\ db' = req[r].image /\ db' \in Image /\ db' # None /\ writer' = None
         /\ UNCHANGED <<memory, file, answered, raised>>
  <1> DEFINE s == req[r]
             e == [s EXCEPT !.at = "dump"]
  <1>1. /\ s \in RequestState /\ s.at = "commit" /\ s.image \in Image /\ Goto(r, e)
        /\ db' = s.image /\ writer' = None /\ UNCHANGED <<memory, file, answered, raised>>
    BY DEF Commit, TypeOK, RequestState
  <1>2. writer = r /\ s.parts = <<>>
    BY <1>1 DEF Covering, Placed, Copying
  <1>3. e.at = "dump" /\ SameReport(e, s)
    BY <1>1 DEF RequestState, SameReport
  <1>4. Pending(s) = {}
    BY <1>2 DEF Pending
  <1> QED
    BY <1>1, <1>2, <1>3, <1>4, Moved, NoneAssumption

LEMMA FileDoes ==
  ASSUME TypeOK, Covering, NEW r \in Request, Dump(r) \/ TruncateFile(r) \/ WriteFile(r), ~Raise(r)
  PROVE  /\ req[r].at \in Stored /\ db # None /\ OthersStay(r)
         /\ req'[r].at \in Stored \cup {"idle"}
         /\ req'[r].at # "idle" => SameReport(req'[r], req[r]) /\ answered' = answered
         /\ UNCHANGED <<memory, db, writer, raised>>
         /\ \A a \in answered' \ answered : a.into \in Dictionary => SameReport(a, req[r])
  <1> DEFINE s == req[r]
  <1>1. s \in RequestState /\ s.at \in Stored /\ db # None
    BY DEF TypeOK, Covering, Placed, Stored, Dump, TruncateFile, WriteFile
  <1>2. CASE Dump(r)
    <2> DEFINE e == [s EXCEPT !.at = "truncate", !.image =
                       [records |-> records, jobs |-> jobs, details |-> Empty.details]]
    <2>1. Goto(r, e) /\ UNCHANGED <<memory, db, writer, answered, raised>>
      BY <1>2 DEF Dump, stores
    <2>2. e.at \in Stored /\ SameReport(e, s)
      BY <1>1 DEF RequestState, Stored, SameReport
    <2> QED
      BY <1>1, <2>1, <2>2, Moved
  <1>3. CASE TruncateFile(r)
    <2> DEFINE e == [s EXCEPT !.at = "write"]
    <2>1. Goto(r, e) /\ UNCHANGED <<memory, db, writer, answered, raised>>
      BY <1>3 DEF TruncateFile
    <2>2. e.at \in Stored /\ SameReport(e, s)
      BY <1>1 DEF RequestState, Stored, SameReport
    <2> QED
      BY <1>1, <2>1, <2>2, Moved
  <1>4. CASE WriteFile(r)
    <2> DEFINE a == [into |-> s.into, content |-> s.content,
                     id |-> IF s.into = "jobs" THEN s.job ELSE s.id]
    <2>1. /\ Goto(r, Idle) /\ UNCHANGED <<memory, db, writer, raised>>
          /\ answered' = answered \cup {a}
      BY <1>4 DEF WriteFile
    <2>2. a.into \in Dictionary => SameReport(a, s)
      BY DEF SameReport, Dictionary
    <2>3. Idle.at = "idle"
      BY DEF Idle
    <2> HIDE DEF a
    <2> QED
      BY <1>1, <2>1, <2>2, <2>3, Moved
  <1> QED
    BY <1>2, <1>3, <1>4

-----------------------------------------------------------------------------
(* The database is memory when nobody is at work *)

\* A part that was just copied is memory's, and the others are as they were.
LEMMA CopiedSame ==
  ASSUME TypeOK, NEW image \in Image, NEW part \in Part
  PROVE  /\ SamePart(part, Copied(image, part), Memory)
         /\ \A p \in Part \ {part} :
              SamePart(p, image, Memory) => SamePart(p, Copied(image, part), Memory)
  <1> DEFINE y == Copied(image, part)
  <1>1. /\ part \in Dictionary => y.records[part] = Memory.records[part]
        /\ part = "jobs" => y.jobs = Memory.jobs
        /\ \A d \in Dictionary \ {part} : y.records[d] = image.records[d]
        /\ part # "jobs" => y.jobs = image.jobs
    BY CopiedParts DEF Memory
  <1> HIDE DEF y
  <1>2. SamePart(part, y, Memory)
    BY <1>1 DEF SamePart
  <1>3. ASSUME NEW p \in Part \ {part}, SamePart(p, image, Memory) PROVE SamePart(p, y, Memory)
    BY <1>1, <1>3 DEF SamePart
  <1> QED
    BY <1>2, <1>3 DEF y

\* A step that touches neither memory nor the database nor its lock, of a thread
\* that holds no copy.
LEMMA FreshAside ==
  ASSUME NEW p \in Part, Fresh(p), NEW r \in Request, OthersStay(r),
         req[r].at \notin {"number", "append", "begin"} \cup Copying,
         UNCHANGED <<memory, writer, Loaded>>
  PROVE  Fresh(p)'
  <1>1. Memory' = Memory
    BY DEF memory, Memory
  <1>2. CASE \E q \in Request : req[q].at \in {"number", "append", "begin"}
    <2>1. PICK q \in Request : req[q].at \in {"number", "append", "begin"}
      BY <1>2
    <2>2. req'[q].at \in {"number", "append", "begin"}
      BY <2>1 DEF OthersStay
    <2> QED
      BY <2>2 DEF Fresh
  <1>3. CASE \E q \in Request : /\ req[q].at \in Copying
                                /\ p \in Pending(req[q]) \/ SamePart(p, req[q].image, Memory)
    <2>1. PICK q \in Request : /\ req[q].at \in Copying
                               /\ p \in Pending(req[q]) \/ SamePart(p, req[q].image, Memory)
      BY <1>3
    <2>2. req'[q] = req[q]
      BY <2>1 DEF OthersStay
    <2>3. /\ req'[q].at \in Copying
          /\ p \in Pending(req'[q]) \/ SamePart(p, req'[q].image, Memory')
      BY <1>1, <2>1, <2>2
    <2> QED
      BY <2>3 DEF Fresh, SamePart
  <1>4. CASE writer = None /\ SamePart(p, Loaded, Memory)
    <2>1. writer' = None /\ SamePart(p, Loaded', Memory')
      BY <1>1, <1>4
    <2> QED
      BY <2>1 DEF Fresh, SamePart
  <1> QED
    BY <1>2, <1>3, <1>4 DEF Fresh

LEMMA FreshSoon ==
  ASSUME NEW p \in Part, NEW r \in Request, req'[r].at \in {"number", "append", "begin"}
  PROVE  Fresh(p)'
  BY DEF Fresh

LEMMA FreshCopy ==
  ASSUME TypeOK, Covering, NEW p \in Part, Fresh(p), NEW r \in Request, CopyPart(r), ~Raise(r)
  PROVE  Fresh(p)'
  <1> DEFINE s == req[r]
             e == req'[r]
  <1>1. /\ s.at = "copy" /\ writer = r /\ OthersStay(r) /\ e.at \in Copying
        /\ e.image = Copied(s.image, Head(s.parts))
        /\ s.image \in Image /\ Head(s.parts) \in Part
        /\ Pending(s) = {Head(s.parts)} \cup Pending(e)
        /\ UNCHANGED memory
    BY CopyDoes
  <1>2. Memory' = Memory
    BY <1>1 DEF memory, Memory
  <1>3. CASE \E q \in Request : req[q].at \in {"number", "append", "begin"}
    <2>1. PICK q \in Request : req[q].at \in {"number", "append", "begin"}
      BY <1>3
    <2>2. req'[q] = req[q]
      BY <1>1, <2>1 DEF OthersStay
    <2> QED
      BY <2>1, <2>2, FreshSoon
  <1>4. CASE ~ \E q \in Request : req[q].at \in {"number", "append", "begin"}
    <2>1. writer # None
      BY <1>1, CatalogAssumption
    <2>2. PICK q \in Request : /\ req[q].at \in Copying
                               /\ p \in Pending(req[q]) \/ SamePart(p, req[q].image, Memory)
      BY <1>4, <2>1 DEF Fresh
    <2>3. q = r
      BY <1>1, <2>2 DEF Covering, Placed
    <2>4. p \in Pending(e) \/ SamePart(p, e.image, Memory)
      BY <1>1, <2>2, <2>3, CopiedSame
    <2>5. p \in Pending(e) \/ SamePart(p, e.image, Memory')
      BY <1>2, <2>4
    <2> QED
      BY <1>1, <2>5 DEF Fresh, SamePart
  <1> QED
    BY <1>3, <1>4

LEMMA FreshCommit ==
  ASSUME TypeOK, Covering, NEW p \in Part, Fresh(p), NEW r \in Request, Commit(r)
  PROVE  Fresh(p)'
  <1> DEFINE s == req[r]
  <1>1. /\ s.at = "commit" /\ writer = r /\ Pending(s) = {} /\ OthersStay(r)
        /\ db' = s.image /\ db' # None /\ writer' = None /\ UNCHANGED memory
    BY CommitDoes
  <1>2. Memory' = Memory /\ Loaded' = s.image
    BY <1>1 DEF memory, Memory, Loaded
  <1>3. CASE \E q \in Request : req[q].at \in {"number", "append", "begin"}
    <2>1. PICK q \in Request : req[q].at \in {"number", "append", "begin"}
      BY <1>3
    <2>2. req'[q] = req[q]
      BY <1>1, <2>1 DEF OthersStay
    <2> QED
      BY <2>1, <2>2, FreshSoon
  <1>4. CASE ~ \E q \in Request : req[q].at \in {"number", "append", "begin"}
    <2>1. writer # None
      BY <1>1, CatalogAssumption
    <2>2. PICK q \in Request : /\ req[q].at \in Copying
                               /\ p \in Pending(req[q]) \/ SamePart(p, req[q].image, Memory)
      BY <1>4, <2>1 DEF Fresh
    <2>3. q = r
      BY <1>1, <2>2 DEF Covering, Placed
    <2>4. SamePart(p, s.image, Memory)
      BY <1>1, <2>2, <2>3
    <2>5. SamePart(p, Loaded', Memory')
      BY <1>2, <2>4
    <2> QED
      BY <1>1, <2>5 DEF Fresh, SamePart
  <1> QED
    BY <1>3, <1>4

LEMMA SyncingNext == TypeOK /\ Covering /\ Syncing /\ [Next]_vars => Syncing'
  <1> SUFFICES ASSUME TypeOK, Covering, Syncing, [Next]_vars, ~raised', NEW p \in Part
               PROVE  Fresh(p)'
    BY DEF Syncing
  <1>1. CASE UNCHANGED vars
    <2>1. UNCHANGED <<memory, db, writer, file, req, raised>>
      BY <1>1 DEF vars, memory
    <2>2. Memory' = Memory /\ Loaded' = Loaded /\ Fresh(p)
      BY <2>1 DEF memory, Memory, Loaded, Syncing
    <2> QED
      BY <2>1, <2>2 DEF Fresh
  <1>2. CASE Restart
    <2>1. writer' = None /\ records' = Loaded.records /\ jobs' = Loaded.jobs
          /\ UNCHANGED <<db, file>>
      BY <1>2 DEF Restart
    <2>2. Loaded' = Loaded
      BY <2>1 DEF Loaded
    <2>3. SamePart(p, Loaded', Memory')
      BY <2>1, <2>2 DEF SamePart, Memory
    <2> QED
      BY <2>1, <2>3 DEF Fresh, SamePart
  <1>3. ASSUME NEW r \in Request, Serve(r) PROVE Fresh(p)'
    <2>1. /\ req[r].at = "idle" /\ OthersStay(r) /\ UNCHANGED <<memory, stores, raised>>
      BY <1>3, ServeDoes
    <2>2. Fresh(p) /\ UNCHANGED <<memory, writer, Loaded>>
      BY <2>1 DEF stores, Loaded, Syncing
    <2>3. req[r].at \notin {"number", "append", "begin"} \cup Copying
      BY <2>1 DEF Copying
    <2> QED
      BY <2>1, <2>2, <2>3, FreshAside
  <1>4. ASSUME NEW r \in Request, Continue(r) PROVE Fresh(p)'
    <2>1. CASE Raise(r)
      BY <2>1, RaiseDoes
    <2>2. CASE Insert(r)
      BY <2>2, InsertDoes, FreshSoon
    <2>3. CASE NumberJob(r)
      BY <2>3, NumberDoes, FreshSoon
    <2>4. CASE AppendJob(r)
      BY <2>4, AppendDoes, FreshSoon
    <2>5. CASE Begin(r) /\ ~Raise(r)
      <3>1. req'[r].at = "copy" /\ Pending(req'[r]) = Part
        BY <2>5, BeginDoes
      <3>2. req'[r].at \in Copying /\ p \in Pending(req'[r])
        BY <3>1 DEF Copying
      <3> QED
        BY <3>2 DEF Fresh
    <2>6. CASE CopyPart(r) /\ ~Raise(r)
      <3>1. Fresh(p)
        BY <2>6, CopyDoes DEF Syncing
      <3> QED
        BY <2>6, <3>1, FreshCopy
    <2>7. CASE Commit(r)
      <3>1. Fresh(p)
        BY <2>7, CommitDoes DEF Syncing
      <3> QED
        BY <2>7, <3>1, FreshCommit
    <2>8. CASE (Dump(r) \/ TruncateFile(r) \/ WriteFile(r)) /\ ~Raise(r)
      <3>1. /\ req[r].at \in Stored /\ db # None /\ OthersStay(r)
            /\ UNCHANGED <<memory, db, writer, raised>>
        BY <2>8, FileDoes
      <3>2. Fresh(p) /\ UNCHANGED <<memory, writer, Loaded>>
        BY <3>1 DEF Loaded, Syncing
      <3>3. req[r].at \notin {"number", "append", "begin"} \cup Copying
        BY <3>1 DEF Copying, Stored
      <3> QED
        BY <3>1, <3>2, <3>3, FreshAside
    <2> QED
      BY <1>4, <2>1, <2>2, <2>3, <2>4, <2>5, <2>6, <2>7, <2>8 DEF Continue
  <1> QED
    BY <1>1, <1>2, <1>3, <1>4 DEF Next

\* Whoever changed memory last will copy it, has copied it, or has committed it,
\* unless a request of this process ended in an error.
THEOREM CatalogSyncs == Spec => []Syncing
  <1>1. Init => Syncing
    BY DEF Init, Syncing, Fresh, SamePart, Loaded, Memory
  <1> QED
    BY <1>1, SyncingNext, CatalogTypeCorrect, CatalogCovers, PTL DEF Spec

\* When no request is in flight and none failed, what a start would read from the
\* database is what memory has.
THEOREM QuietCatalogInSync == Spec => []QuiescentInSync
  <1>1. TypeOK /\ Syncing => QuiescentInSync
    <2> SUFFICES ASSUME TypeOK, Syncing, \A r \in Request : req[r].at = "idle", ~raised
                 PROVE  records = Loaded.records /\ jobs = Loaded.jobs
      BY DEF QuiescentInSync
    <2>1. ASSUME NEW p \in Part PROVE SamePart(p, Loaded, Memory)
      BY DEF Syncing, Fresh, Copying
    <2>2. \A d \in Dictionary : Loaded.records[d] = records[d]
      BY <2>1 DEF SamePart, Memory, Part
    <2>3. Loaded.jobs = jobs
      BY <2>1 DEF SamePart, Memory, Part
    <2>4. records \in [Dictionary -> Seq(Content)] /\ Loaded.records \in [Dictionary -> Seq(Content)]
      BY LoadedType DEF TypeOK, Image
    <2> QED
      BY <2>2, <2>3, <2>4
  <1> QED
    BY <1>1, CatalogTypeCorrect, CatalogSyncs, PTL

-----------------------------------------------------------------------------
(* A stored snapshot has its tables *)

LEMMA AllPartsInOrder == SnapshotsFirst(AllParts)
  <1>1. Len(AllParts) = 6 /\ AllParts[5] = "tables" /\ AllParts[6] = "keys"
    BY DEF AllParts
  <1>2. AllParts[1] # "snapshots" /\ AllParts[2] # "snapshots" /\ AllParts[4] # "snapshots"
        /\ AllParts[5] # "snapshots" /\ AllParts[6] # "snapshots"
    BY DEF AllParts
  <1>3. ASSUME NEW i \in 1 .. 6, AllParts[i] = "snapshots", NEW d \in Detail
        PROVE  \E j \in i + 1 .. 6 : AllParts[j] = d
    <2>1. i = 3
      BY <1>2, <1>3
    <2>2. 5 \in i + 1 .. 6 /\ 6 \in i + 1 .. 6
      BY <2>1
    <2> QED
      BY <1>1, <2>2 DEF Detail
  <1> QED
    BY <1>1, <1>3 DEF SnapshotsFirst

LEMMA TailInOrder ==
  ASSUME NEW parts \in Seq(Part), parts # <<>>, SnapshotsFirst(parts)
  PROVE  SnapshotsFirst(Tail(parts))
  <1> DEFINE rest == Tail(parts)
  <1>1. /\ Len(rest) = Len(parts) - 1 /\ Len(parts) \in Nat
        /\ \A i \in 1 .. Len(rest) : rest[i] = parts[i + 1]
    BY HeadTailProperties, LenProperties
  <1> HIDE DEF rest
  <1>2. ASSUME NEW i \in 1 .. Len(rest), rest[i] = "snapshots", NEW d \in Detail
        PROVE  \E j \in i + 1 .. Len(rest) : rest[j] = d
    <2>1. i + 1 \in 1 .. Len(parts) /\ parts[i + 1] = "snapshots"
      BY <1>1, <1>2
    <2>2. PICK j \in (i + 1) + 1 .. Len(parts) : parts[j] = d
      BY <2>1 DEF SnapshotsFirst
    <2>3. j - 1 \in i + 1 .. Len(rest) /\ rest[j - 1] = parts[j]
      BY <1>1, <2>2
    <2> QED
      BY <2>2, <2>3
  <1> QED
    BY <1>2 DEF SnapshotsFirst, rest

\* Snapshots that are still to be copied are followed by their details.
LEMMA DetailsFollow ==
  ASSUME NEW s, SnapshotsFirst(s.parts), Len(s.parts) \in Nat, "snapshots" \in Pending(s),
         NEW d \in Detail
  PROVE  d \in Pending(s)
  <1>1. PICK i \in 1 .. Len(s.parts) : s.parts[i] = "snapshots"
    BY DEF Pending
  <1>2. PICK j \in i + 1 .. Len(s.parts) : s.parts[j] = d
    BY <1>1 DEF SnapshotsFirst
  <1>3. j \in 1 .. Len(s.parts)
    BY <1>1, <1>2
  <1> QED
    BY <1>2, <1>3 DEF Pending

\* A snapshot of memory stays, or its number is marked as replaced.
SnapshotsStay ==
  /\ replaced \subseteq replaced'
  /\ \A n \in 1 .. Len(records["snapshots"]) :
       /\ n <= Len(records'["snapshots"])
       /\ n \in replaced' \/ records'["snapshots"][n] = records["snapshots"][n]

LEMMA SameSnapshotsStay ==
  ASSUME TypeOK, records' = records, replaced' = replaced PROVE SnapshotsStay
  <1>1. Len(records["snapshots"]) \in Nat
    BY LenProperties DEF TypeOK, Dictionary
  <1> QED
    BY <1>1 DEF SnapshotsStay

LEMMA InsertSnapshotsStay == ASSUME TypeOK, NEW r \in Request, Insert(r) PROVE SnapshotsStay
  <1> DEFINE s == req[r]
             seq == records["snapshots"]
  <1>1. /\ s.into \in Dictionary
        /\ records' = [records EXCEPT ![s.into] = Put(records[s.into], s.id, s.content)]
        /\ replaced' = IF s.into = "snapshots" /\ s.id <= Len(records["snapshots"])
                       THEN replaced \cup {s.id} ELSE replaced
    BY InsertDoes
  <1>2. seq \in Seq(Content) /\ Len(seq) \in Nat /\ "snapshots" \in Dictionary
        /\ "snapshots" \in DOMAIN records
    BY LenProperties DEF TypeOK, Dictionary
  <1>3. CASE s.into # "snapshots"
    <2>1. records'["snapshots"] = seq /\ replaced' = replaced
      BY <1>1, <1>2, <1>3
    <2> QED
      BY <1>2, <2>1 DEF SnapshotsStay
  <1>4. CASE s.into = "snapshots"
    <2>1. s.content \in Content /\ s.id \in 1 .. Len(seq) + 1
      BY <1>4 DEF TypeOK, InPlace, Insert
    <2>2. records'["snapshots"] = Put(seq, s.id, s.content)
      BY <1>1, <1>2, <1>4
    <2>3. CASE s.id = Len(seq) + 1
      <3>1. Put(seq, s.id, s.content) = Append(seq, s.content) /\ replaced' = replaced
        BY <1>1, <1>2, <2>3 DEF Put
      <3>2. /\ Len(Append(seq, s.content)) = Len(seq) + 1
            /\ \A n \in 1 .. Len(seq) : Append(seq, s.content)[n] = seq[n]
        BY <1>2, <2>1, AppendProperties
      <3> HIDE DEF seq, s
      <3>3. \A n \in 1 .. Len(seq) :
              n <= Len(records'["snapshots"]) /\ records'["snapshots"][n] = seq[n]
        BY <1>2, <2>2, <3>1, <3>2
      <3> QED
        BY <3>1, <3>3 DEF SnapshotsStay, seq
    <2>4. CASE s.id # Len(seq) + 1
      <3>1. s.id \in 1 .. Len(seq)
        BY <1>2, <2>1, <2>4
      <3>2. /\ Put(seq, s.id, s.content) = [seq EXCEPT ![s.id] = s.content]
            /\ replaced' = replaced \cup {s.id}
        BY <1>1, <1>2, <1>4, <2>4, <3>1 DEF Put
      <3>3. /\ Len([seq EXCEPT ![s.id] = s.content]) = Len(seq)
            /\ \A n \in 1 .. Len(seq) \ {s.id} : [seq EXCEPT ![s.id] = s.content][n] = seq[n]
        BY <1>2, <2>1, <3>1, ExceptSeq
      <3> HIDE DEF seq, s
      <3>4. \A n \in 1 .. Len(seq) :
              /\ n <= Len(records'["snapshots"])
              /\ n \in replaced' \/ records'["snapshots"][n] = seq[n]
        BY <1>2, <2>2, <3>2, <3>3
      <3> QED
        BY <3>2, <3>4 DEF SnapshotsStay, seq
    <2> QED
      BY <2>3, <2>4
  <1> QED
    BY <1>3, <1>4

LEMMA DetailedStep ==
  ASSUME TypeOK, Detailed, SnapshotsStay, NEW r \in Request, OthersStay(r),
         db' # None => Agrees(db') /\ \A d \in Detail : Detailing(db', d),
         req'[r].at \in Copying =>
           /\ SnapshotsFirst(req'[r].parts)
           /\ "snapshots" \notin Pending(req'[r]) => Agrees(req'[r].image)
           /\ \A d \in Detail \ Pending(req'[r]) : Detailing(req'[r].image, d)
  PROVE  Detailed'
  <1>1. ASSUME NEW q \in Request, req'[q].at \in Copying
        PROVE  /\ SnapshotsFirst(req'[q].parts)
               /\ "snapshots" \notin Pending(req'[q]) => Agrees(req[q].image)'
               /\ \A d \in Detail \ Pending(req'[q]) : Detailing(req[q].image, d)'
    <2>1. /\ SnapshotsFirst(req'[q].parts)
          /\ "snapshots" \notin Pending(req'[q]) => Agrees(req'[q].image)
          /\ \A d \in Detail \ Pending(req'[q]) : Detailing(req'[q].image, d)
      <3>1. CASE q = r
        BY <1>1, <3>1
      <3>2. CASE q # r
        <4>1. req'[q] = req[q]
          BY <3>2 DEF OthersStay
        <4> QED
          BY <1>1, <4>1 DEF Detailed
      <3> QED
        BY <3>1, <3>2
    <2> DEFINE x == req'[q].image
    <2>2. \A n \in 1 .. Len(records["snapshots"]) :
            /\ n <= Len(records'["snapshots"])
            /\ n \in replaced' \/ records'["snapshots"][n] = records["snapshots"][n]
      BY DEF SnapshotsStay
    <2>3. Len(records["snapshots"]) \in Nat
      BY LenProperties DEF TypeOK, Dictionary
    <2>4. ASSUME Agrees(x), NEW n \in 1 .. Len(x.records["snapshots"])
          PROVE  /\ n <= Len(records'["snapshots"])
                 /\ n \in replaced' \/ records'["snapshots"][n] = x.records["snapshots"][n]
      <3>1. n \in 1 .. Len(records["snapshots"])
        BY <2>3, <2>4 DEF Agrees
      <3> QED
        BY <2>4, <3>1 DEF Agrees, SnapshotsStay
    <2> QED
      BY <2>1, <2>4 DEF Agrees, Detailing, SnapshotsStay
  <1>2. db' # None => Agrees(db)' /\ \A d \in Detail : Detailing(db, d)'
    <2> DEFINE x == db'
    <2>1. Len(records["snapshots"]) \in Nat
      BY LenProperties DEF TypeOK, Dictionary
    <2>2. ASSUME Agrees(x), NEW n \in 1 .. Len(x.records["snapshots"])
          PROVE  /\ n <= Len(records'["snapshots"])
                 /\ n \in replaced' \/ records'["snapshots"][n] = x.records["snapshots"][n]
      <3>1. n \in 1 .. Len(records["snapshots"])
        BY <2>1, <2>2 DEF Agrees
      <3> QED
        BY <2>2, <3>1 DEF Agrees, SnapshotsStay
    <2> QED
      BY <2>2 DEF Agrees, Detailing, SnapshotsStay
  <1> QED
    BY <1>1, <1>2 DEF Detailed, SnapshotsFirst, Pending

\* What a copied part makes of the transaction's details and snapshots.
LEMMA CopiedDetails ==
  ASSUME TypeOK, NEW image \in Image, NEW part \in Part
  PROVE  /\ part \in Detail => /\ Copied(image, part).records = image.records
                               /\ Copied(image, part).details[part] = records["snapshots"]
         /\ \A d \in Detail \ {part} : Copied(image, part).details[d] = image.details[d]
  <1>1. CASE part \in Detail
    <2> DEFINE details == [image.details EXCEPT ![part] = records["snapshots"]]
    <2>1. /\ details[part] = records["snapshots"]
          /\ \A d \in Detail \ {part} : details[d] = image.details[d]
      BY <1>1 DEF Image
    <2>2. Copied(image, part) = [image EXCEPT !.details = details]
      BY <1>1 DEF Copied, Detail, Image
    <2> HIDE DEF details
    <2>3. Copied(image, part).records = image.records /\ Copied(image, part).details = details
      BY <2>2 DEF Image
    <2> QED
      BY <1>1, <2>1, <2>3
  <1>2. CASE part \notin Detail
    BY <1>2 DEF Copied, Image, Part, Dictionary, Detail
  <1> QED
    BY <1>1, <1>2

LEMMA CopyDetails ==
  ASSUME TypeOK, TypeOK', Covering, Detailed, NEW r \in Request, CopyPart(r), ~Raise(r)
  PROVE  Detailed'
  <1> DEFINE s == req[r]
             e == req'[r]
             part == Head(s.parts)
  <1>1. /\ s.at = "copy" /\ OthersStay(r) /\ s.parts \in Seq(Part) /\ s.parts # <<>>
        /\ e.parts = Tail(s.parts) /\ e.image = Copied(s.image, part)
        /\ s.image \in Image /\ part \in Part
        /\ Pending(s) = {part} \cup Pending(e) /\ UNCHANGED <<db, records, replaced>>
    BY CopyDoes DEF stores, memory
  <1>2. /\ SnapshotsFirst(s.parts)
        /\ "snapshots" \notin Pending(s) => Agrees(s.image)
        /\ \A d \in Detail \ Pending(s) : Detailing(s.image, d)
    BY <1>1 DEF Detailed, Copying
  <1>3. /\ SnapshotsFirst(e.parts) /\ Len(e.parts) \in Nat /\ Len(s.parts) \in Nat
        /\ "snapshots" \in Dictionary /\ "snapshots" \notin Detail
    BY <1>1, <1>2, TailInOrder, HeadTailProperties, LenProperties DEF Dictionary, Detail
  <1>4. /\ part \in Detail => /\ e.image.records = s.image.records
                              /\ e.image.details[part] = records["snapshots"]
        /\ \A d \in Detail \ {part} : e.image.details[d] = s.image.details[d]
        /\ part = "snapshots" => e.image.records["snapshots"] = records["snapshots"]
        /\ part # "snapshots" =>
             e.image.records["snapshots"] = s.image.records["snapshots"]
    <2> HIDE DEF s, e, part
    <2>1. /\ part \in Detail => /\ e.image.records = s.image.records
                                /\ e.image.details[part] = records["snapshots"]
          /\ \A d \in Detail \ {part} : e.image.details[d] = s.image.details[d]
      BY <1>1, CopiedDetails
    <2>2. /\ part \in Dictionary => e.image.records[part] = records[part]
          /\ \A d \in Dictionary \ {part} : e.image.records[d] = s.image.records[d]
      BY <1>1, CopiedParts
    <2> QED
      BY <1>3, <2>1, <2>2
  <1> HIDE DEF s, e, part
  <1>5. ASSUME "snapshots" \notin Pending(e) PROVE Agrees(e.image)
    <2>1. CASE part = "snapshots"
      <3>1. Len(records["snapshots"]) \in Nat
        BY LenProperties DEF TypeOK, Dictionary
      <3> QED
        BY <1>4, <2>1, <3>1 DEF Agrees
    <2>2. CASE part # "snapshots"
      BY <1>1, <1>2, <1>4, <1>5, <2>2 DEF Agrees
    <2> QED
      BY <2>1, <2>2
  <1>6. ASSUME NEW d \in Detail \ Pending(e) PROVE Detailing(e.image, d)
    <2>1. CASE d = part
      <3>1. "snapshots" \notin Pending(e)
        BY <1>3, <1>6, DetailsFollow
      <3>2. Agrees(e.image)
        BY <1>5, <3>1
      <3> QED
        BY <1>4, <2>1, <3>2 DEF Agrees, Detailing
    <2>2. CASE d # part
      <3>1. d \notin Pending(s)
        BY <1>1, <1>6, <2>2
      <3>2. "snapshots" \notin Pending(s)
        BY <1>2, <1>3, <3>1, DetailsFollow
      <3>3. part # "snapshots"
        BY <1>1, <3>2
      <3> QED
        BY <1>2, <1>4, <2>2, <3>1, <3>3 DEF Detailing
    <2> QED
      BY <2>1, <2>2
  <1>7. db' # None => Agrees(db') /\ \A d \in Detail : Detailing(db', d)
    BY <1>1 DEF Detailed
  <1>8. SnapshotsStay
    BY <1>1, SameSnapshotsStay
  <1> QED
    BY <1>1, <1>3, <1>5, <1>6, <1>7, <1>8, DetailedStep DEF e

LEMMA DetailedNext ==
  TypeOK /\ TypeOK' /\ Covering /\ Detailed /\ [Next]_vars => Detailed'
  <1> SUFFICES ASSUME TypeOK, TypeOK', Covering, Detailed, [Next]_vars PROVE Detailed'
    OBVIOUS
  <1>1. CASE UNCHANGED vars
    BY <1>1 DEF vars, Detailed, SnapshotsFirst, Agrees, Detailing, Pending
  <1>2. CASE Restart
    <2>1. /\ db' = db /\ replaced' = replaced /\ \A r \in Request : req'[r].at = "idle"
          /\ records' = Loaded.records
      BY <1>2 DEF Restart, Idle
    <2>2. ASSUME db # None PROVE Agrees(db)' /\ \A d \in Detail : Detailing(db, d)'
      <3>1. records' = db.records
        BY <2>1, <2>2 DEF Loaded
      <3>2. Len(records'["snapshots"]) \in Nat
        BY LenProperties DEF TypeOK, Dictionary
      <3>3. Agrees(db)'
        BY <2>1, <3>1, <3>2 DEF Agrees
      <3> QED
        BY <2>1, <2>2, <3>3 DEF Detailed, Detailing
    <2> QED
      BY <2>1, <2>2 DEF Detailed, Copying
  \* A step that leaves the database and makes no copy.
  <1>3. ASSUME NEW r \in Request, OthersStay(r), db' = db, req'[r].at \notin Copying,
               SnapshotsStay
        PROVE  Detailed'
    BY <1>3, DetailedStep DEF Detailed
  <1>4. ASSUME NEW r \in Request, Serve(r) PROVE Detailed'
    <2>1. /\ OthersStay(r) /\ db' = db /\ req'[r].at \in {"insert", "number"}
          /\ UNCHANGED <<records, replaced>>
      BY <1>4, ServeDoes DEF stores, memory
    <2> QED
      BY <1>3, <2>1, SameSnapshotsStay DEF Copying
  <1>5. ASSUME NEW r \in Request, Continue(r) PROVE Detailed'
    <2>1. CASE Raise(r)
      <3>1. OthersStay(r) /\ db' = db /\ req'[r].at = "idle" /\ UNCHANGED <<records, replaced>>
        BY <2>1, RaiseDoes DEF memory
      <3> QED
        BY <1>3, <3>1, SameSnapshotsStay DEF Copying
    <2>2. CASE Insert(r)
      <3>1. OthersStay(r) /\ db' = db /\ req'[r].at \in {"number", "begin"}
        BY <2>2, InsertDoes DEF stores
      <3> QED
        BY <1>3, <2>2, <3>1, InsertSnapshotsStay DEF Copying
    <2>3. CASE NumberJob(r) \/ AppendJob(r)
      <3>1. /\ OthersStay(r) /\ db' = db /\ req'[r].at \in {"append", "begin"}
            /\ UNCHANGED <<records, replaced>>
        BY <2>3, NumberDoes, AppendDoes DEF stores, memory
      <3> QED
        BY <1>3, <3>1, SameSnapshotsStay DEF Copying
    <2>4. CASE Begin(r) /\ ~Raise(r)
      <3>1. /\ OthersStay(r) /\ req'[r].parts = AllParts /\ Pending(req'[r]) = Part
            /\ db' = IF db = None THEN Empty ELSE db
            /\ UNCHANGED <<records, replaced>>
        BY <2>4, BeginDoes DEF memory
      <3>2. Agrees(Empty) /\ \A d \in Detail : Detailing(Empty, d)
        BY DEF Agrees, Detailing, Empty, Dictionary
      <3>3. db' # None => Agrees(db') /\ \A d \in Detail : Detailing(db', d)
        BY <3>1, <3>2 DEF Detailed
      <3>4. "snapshots" \in Part /\ Detail \subseteq Part
        BY DEF Part, Dictionary
      <3>5. SnapshotsStay /\ SnapshotsFirst(req'[r].parts)
        BY <3>1, SameSnapshotsStay, AllPartsInOrder
      <3> QED
        BY <3>1, <3>3, <3>4, <3>5, DetailedStep
    <2>5. CASE CopyPart(r) /\ ~Raise(r)
      BY <2>5, CopyDetails
    <2>6. CASE Commit(r)
      <3>1. /\ req[r].at = "commit" /\ Pending(req[r]) = {} /\ OthersStay(r)
            /\ req'[r].at = "dump" /\ db' = req[r].image
            /\ UNCHANGED <<records, replaced>>
        BY <2>6, CommitDoes DEF memory
      <3>2. Agrees(db') /\ \A d \in Detail : Detailing(db', d)
        BY <3>1 DEF Detailed, Copying
      <3>3. req'[r].at \notin Copying /\ SnapshotsStay
        BY <3>1, SameSnapshotsStay DEF Copying
      <3> QED
        BY <3>1, <3>2, <3>3, DetailedStep
    <2>7. CASE (Dump(r) \/ TruncateFile(r) \/ WriteFile(r)) /\ ~Raise(r)
      <3>1. /\ OthersStay(r) /\ db' = db /\ req'[r].at \in Stored \cup {"idle"}
            /\ UNCHANGED <<records, replaced>>
        BY <2>7, FileDoes DEF memory
      <3> QED
        BY <1>3, <3>1, SameSnapshotsStay DEF Copying, Stored
    <2> QED
      BY <1>5, <2>1, <2>2, <2>3, <2>4, <2>5, <2>6, <2>7 DEF Continue
  <1> QED
    BY <1>1, <1>2, <1>4, <1>5 DEF Next

\* The database has its own tables, columns and foreign keys of each snapshot in it,
\* of the snapshot's workspace, unless a second discovery took the same number and
\* replaced it: the transaction copies them from a dictionary that others change, but
\* after the snapshots.
THEOREM SnapshotsHaveDetails == Spec => []DetailsCoverSnapshots
  <1>1. Init => Detailed
    BY DEF Init, Detailed, Idle, Copying
  <1>2. TypeOK /\ Covering /\ Detailed /\ [Next]_vars => Detailed'
    BY TypeStep, DetailedNext
  <1>3. Detailed => DetailsCoverSnapshots
    BY DEF Detailed, DetailsCoverSnapshots
  <1> QED
    BY <1>1, <1>2, <1>3, CatalogTypeCorrect, CatalogCovers, PTL DEF Spec

-----------------------------------------------------------------------------
(* Requests that do not overlap *)

LEMMA KeepsGrow ==
  ASSUME NEW x, IsStore(x), NEW y, IsStore(y), Begins(x, y),
         NEW into, NEW id \in Nat, NEW content, Keeps(x, into, id, content)
  PROVE  Keeps(y, into, id, content)
  <1> SUFFICES ASSUME into \in Dictionary
               PROVE  /\ 1 <= id /\ id <= Len(y.records[into])
                      /\ y.records[into][id] = content
    BY DEF Keeps
  <1>1. 1 <= id /\ id <= Len(x.records[into]) /\ x.records[into][id] = content
    BY DEF Keeps
  <1>2. Len(x.records[into]) \in Nat /\ Len(y.records[into]) \in Nat
    BY StoreLengths
  <1>3. /\ Len(x.records[into]) <= Len(y.records[into])
        /\ \A i \in 1 .. Len(x.records[into]) : y.records[into][i] = x.records[into][i]
    BY DEF Begins
  <1> QED
    BY <1>1, <1>2, <1>3

LEMMA BeginsChain ==
  ASSUME NEW x, IsStore(x), NEW y, IsStore(y), NEW z, IsStore(z), Begins(x, y), Begins(y, z)
  PROVE  Begins(x, z)
  <1>1. ASSUME NEW d \in Dictionary
        PROVE  /\ Len(x.records[d]) <= Len(z.records[d])
               /\ \A i \in 1 .. Len(x.records[d]) : z.records[d][i] = x.records[d][i]
    <2>1. /\ Len(x.records[d]) \in Nat /\ Len(y.records[d]) \in Nat
          /\ Len(z.records[d]) \in Nat
      BY StoreLengths
    <2>2. Len(x.records[d]) <= Len(y.records[d]) /\ Len(y.records[d]) <= Len(z.records[d])
      BY DEF Begins
    <2>3. ASSUME NEW i \in 1 .. Len(x.records[d]) PROVE z.records[d][i] = x.records[d][i]
      <3>1. i \in 1 .. Len(y.records[d])
        BY <2>1, <2>2
      <3> QED
        BY <3>1 DEF Begins
    <2> QED
      BY <2>1, <2>2, <2>3
  <1> QED
    BY <1>1 DEF Begins

LEMMA BeginsItself == ASSUME NEW x, IsStore(x) PROVE Begins(x, x)
  BY StoreLengths DEF Begins

\* Jobs stay good while records are only added.
LEMMA JobsInGrow ==
  ASSUME NEW x, IsStore(x), NEW y, IsStore(y), Begins(x, y), JobsIn(x), y.jobs = x.jobs
  PROVE  JobsIn(y)
  <1>1. ASSUME NEW w \in Workspace, NEW i \in 1 .. Len(x.jobs[w]),
               x.jobs[w][i].snapshot # 0
        PROVE  /\ x.jobs[w][i].snapshot <= Len(y.records["snapshots"])
               /\ y.records["snapshots"][x.jobs[w][i].snapshot] = w
    <2> DEFINE n == x.jobs[w][i].snapshot
    <2>1. n <= Len(x.records["snapshots"]) /\ x.records["snapshots"][n] = w
      BY <1>1 DEF JobsIn
    <2>2. n \in Nat
      <3>1. x.jobs[w] \in Seq(Job)
        BY DEF IsStore
      <3>2. x.jobs[w][i] \in Job
        BY <3>1, ElementOfSeq
      <3> QED
        BY <3>2 DEF Job
    <2>3. "snapshots" \in Dictionary
      BY DEF Dictionary
    <2>4. Len(x.records["snapshots"]) \in Nat /\ Len(y.records["snapshots"]) \in Nat
      BY <2>3, StoreLengths
    <2>5. n \in 1 .. Len(x.records["snapshots"])
      BY <1>1, <2>1, <2>2, <2>4
    <2>6. /\ Len(x.records["snapshots"]) <= Len(y.records["snapshots"])
          /\ y.records["snapshots"][n] = x.records["snapshots"][n]
      BY <2>3, <2>5 DEF Begins
    <2> QED
      BY <2>1, <2>2, <2>4, <2>6
  <1> QED
    BY <1>1 DEF JobsIn

LEMMA JobsInEmpty == JobsIn(Empty)
  BY DEF JobsIn, Empty

\* The other requests ask nothing while one is in flight.
LEMMA OthersAlone ==
  ASSUME OneAtATime, OneAtATime', NEW r \in Request, OthersStay(r),
         req[r].at # "idle" \/ req'[r].at # "idle",
         NEW q \in Request \ {r}
  PROVE  Alone(req[q])'
  <1>1. req'[q].at = "idle"
    BY DEF OneAtATime, OthersStay
  <1> QED
    BY <1>1 DEF Alone, Copying, Stored

\* Answers stay true while the database only adds to what it had.
LEMMA GivenStep ==
  ASSUME TypeOK, TypeOK', Covering, Given, OneAtATime, OneAtATime',
         NEW r \in Request, OthersStay(r),
         req[r].at # "idle" \/ req'[r].at # "idle",
         JobsIn(Memory'), Alone(req[r])',
         db' # None => JobsIn(db') /\ Begins(db', Memory'),
         db # None => db' # None /\ Begins(db, db'),
         \A a \in answered' \ answered : Keeps(db', a.into, a.id, a.content)
  PROVE  Given'
  <1>1. ASSUME NEW q \in Request PROVE Alone(req[q])'
    BY OthersAlone
  <1>2. ASSUME NEW a \in answered' PROVE Keeps(db', a.into, a.id, a.content)
    <2>1. CASE a \in answered
      <3>1. db # None /\ Keeps(db, a.into, a.id, a.content)
        BY <2>1 DEF Covering, Given
      <3>2. a.id \in Nat
        BY <2>1 DEF TypeOK, Answer
      <3>3. IsStore(db) /\ IsStore(db') /\ Begins(db, db')
        BY <3>1, Stores, NextStores
      <3> QED
        BY <3>1, <3>2, <3>3, KeepsGrow
    <2> QED
      BY <2>1
  <1>3. JobsIn(Memory)' /\ (db' # None => JobsIn(db)' /\ Begins(db, Memory)')
    BY DEF JobsIn, Begins, Memory
  <1>4. \A a \in answered' : Keeps(db, a.into, a.id, a.content)'
    BY <1>2 DEF Keeps
  <1> QED
    BY <1>1, <1>3, <1>4 DEF Given

\* The common case: a step of a thread that changes neither memory nor the database.
LEMMA GivenAside ==
  ASSUME TypeOK, TypeOK', Covering, Given, OneAtATime, OneAtATime',
         NEW r \in Request, OthersStay(r),
         req[r].at # "idle" \/ req'[r].at # "idle",
         UNCHANGED <<memory, db>>, Alone(req[r])',
         \A a \in answered' \ answered : Keeps(db', a.into, a.id, a.content)
  PROVE  Given'
  <1>1. Memory' = Memory /\ db' = db
    BY DEF memory, Memory
  <1>2. JobsIn(Memory')
    BY <1>1 DEF Given
  <1>3. db' # None => JobsIn(db') /\ Begins(db', Memory')
    BY <1>1 DEF Given
  <1>4. db # None => db' # None /\ Begins(db, db')
    BY <1>1, Stores, BeginsItself
  <1> QED
    BY <1>2, <1>3, <1>4, GivenStep

LEMMA IdleAlone == ASSUME NEW s, s.at = "idle" PROVE Alone(s)'
  BY DEF Alone, Copying, Stored

LEMMA ServeGiven ==
  ASSUME TypeOK, TypeOK', Covering, Given, OneAtATime, OneAtATime', NEW r \in Request, Serve(r)
  PROVE  Given'
  <1>1. /\ OthersStay(r) /\ UNCHANGED <<memory, db, answered>> /\ UNCHANGED records
        /\ \/ /\ req'[r].at = "insert"
              /\ req'[r].id = Len(records[req'[r].into]) + 1
           \/ req'[r].at = "number" /\ req'[r].into = "jobs"
    BY ServeDoes DEF stores, memory
  <1>2. Alone(req[r])'
    BY <1>1 DEF Alone, Keeps, Copying, Stored, Dictionary
  <1> QED
    BY <1>1, <1>2, GivenAside

LEMMA RaiseGiven ==
  ASSUME TypeOK, TypeOK', Covering, Given, OneAtATime, OneAtATime', NEW r \in Request, Raise(r),
         req[r].at # "idle"
  PROVE  Given'
  <1>1. req'[r].at = "idle" /\ OthersStay(r) /\ UNCHANGED <<memory, db, answered>>
    BY RaiseDoes
  <1>2. Alone(req[r])'
    BY <1>1, IdleAlone
  <1> QED
    BY <1>1, <1>2, GivenAside

\* The number taken is still the next one: the record is added, and none replaced.
LEMMA InsertGiven ==
  ASSUME TypeOK, TypeOK', Covering, Given, OneAtATime, OneAtATime', NEW r \in Request, Insert(r)
  PROVE  Given'
  <1> DEFINE s == req[r]
             e == req'[r]
             dict == records[s.into]
  <1>1. /\ s.at = "insert" /\ s.into \in Dictionary /\ OthersStay(r)
        /\ e.at \in {"number", "begin"} /\ SameReport(e, s)
        /\ records' = [records EXCEPT ![s.into] = Put(dict, s.id, s.content)]
        /\ UNCHANGED <<jobs, db, answered>>
    BY InsertDoes DEF stores
  <1>2. s.id = Len(dict) + 1 /\ s.content \in Content /\ dict \in Seq(Content)
    BY <1>1 DEF Given, Alone, TypeOK, InPlace
  <1>3. records'[s.into] = Append(dict, s.content)
    BY <1>1, <1>2 DEF TypeOK, Put
  <1>4. /\ Len(records'[s.into]) = Len(dict) + 1 /\ Len(dict) \in Nat
        /\ records'[s.into][s.id] = s.content
        /\ \A i \in 1 .. Len(dict) : records'[s.into][i] = dict[i]
    BY <1>2, <1>3, AppendProperties, LenProperties
  <1>5. IsStore(Memory) /\ IsStore(Memory')
    BY Stores, NextStores
  <1>6. Begins(Memory, Memory')
    <2>1. ASSUME NEW d \in Dictionary
          PROVE  /\ Len(records[d]) <= Len(records'[d])
                 /\ \A i \in 1 .. Len(records[d]) : records'[d][i] = records[d][i]
      <3>1. CASE d = s.into
        <4> HIDE DEF s
        <4> QED
          BY <1>4, <3>1
      <3>2. CASE d # s.into
        <4>1. records'[d] = records[d]
          BY <1>1, <3>2 DEF TypeOK
        <4>2. Len(records[d]) \in Nat
          BY LenProperties DEF TypeOK
        <4> QED
          BY <4>1, <4>2
      <3> QED
        BY <3>1, <3>2
    <2> QED
      BY <2>1 DEF Begins, Memory
  <1>7. JobsIn(Memory')
    BY <1>1, <1>5, <1>6, JobsInGrow DEF Given, Memory
  <1>8. Alone(req[r])'
    <2>1. Keeps(Memory', e.into, e.id, e.content)
      <3>1. e.into = s.into /\ e.id = s.id /\ e.content = s.content
        BY <1>1 DEF SameReport
      <3>2. 1 <= s.id /\ s.id <= Len(records'[s.into]) /\ records'[s.into][s.id] = s.content
        BY <1>2, <1>4
      <3> HIDE DEF e, s
      <3> QED
        BY <3>1, <3>2 DEF Keeps, Memory
    <2> HIDE DEF e
    <2>2. e = req'[r]
      BY DEF e
    <2> QED
      BY <1>1, <2>1, <2>2 DEF Alone, Keeps, Memory, Copying, Stored
  <1>9. db # None => db' # None /\ Begins(db, db') /\ JobsIn(db') /\ Begins(db', Memory')
    <2>1. ASSUME db # None PROVE Begins(db, db') /\ JobsIn(db') /\ Begins(db', Memory')
      <3>1. db' = db /\ IsStore(db) /\ JobsIn(db) /\ Begins(db, Memory)
        BY <1>1, <2>1, Stores DEF Given
      <3>2. Begins(db, Memory')
        BY <1>5, <1>6, <3>1, BeginsChain
      <3> QED
        BY <3>1, <3>2, BeginsItself
    <2> QED
      BY <1>1, <2>1
  <1> QED
    BY <1>1, <1>7, <1>8, <1>9, GivenStep

LEMMA NumberGiven ==
  ASSUME TypeOK, TypeOK', Covering, Given, OneAtATime, OneAtATime', NEW r \in Request, NumberJob(r)
  PROVE  Given'
  <1>1. /\ req[r].at = "number" /\ OthersStay(r)
        /\ req'[r].at = "append" /\ SameReport(req'[r], req[r])
        /\ UNCHANGED <<memory, db, answered>> /\ UNCHANGED records
    BY NumberDoes DEF stores, memory
  <1>2. Keeps(Memory, req[r].into, req[r].id, req[r].content)
    BY <1>1 DEF Given, Alone
  <1>3. Alone(req[r])'
    BY <1>1, <1>2 DEF Alone, Keeps, Memory, SameReport, Copying, Stored
  <1> QED
    BY <1>1, <1>3, GivenAside

\* A job is added that names the snapshot which its request put.
LEMMA AppendGiven ==
  ASSUME TypeOK, TypeOK', Covering, Given, OneAtATime, OneAtATime', NEW r \in Request, AppendJob(r)
  PROVE  Given'
  <1> DEFINE s == req[r]
             list == jobs[s.content]
  <1>1. PICK job \in Job :
          /\ job.snapshot = IF s.into = "snapshots" THEN s.id ELSE 0
          /\ jobs' = [jobs EXCEPT ![s.content] = Append(list, job)]
    BY AppendDoes
  <1>2. /\ s.at = "append" /\ s.content \in Workspace /\ OthersStay(r)
        /\ req'[r].at = "begin" /\ SameReport(req'[r], s)
        /\ UNCHANGED <<records, db, answered>>
    BY AppendDoes DEF stores
  <1>3. Keeps(Memory, s.into, s.id, s.content)
    BY <1>2 DEF Given, Alone
  <1>4. Alone(req[r])'
    BY <1>2, <1>3 DEF Alone, Keeps, Memory, SameReport, Copying, Stored
  <1>5. JobsIn(Memory')
    <2>1. ASSUME NEW w \in Workspace, NEW i \in 1 .. Len(jobs'[w]), jobs'[w][i].snapshot # 0
          PROVE  /\ jobs'[w][i].snapshot <= Len(records["snapshots"])
                 /\ records["snapshots"][jobs'[w][i].snapshot] = w
      <3>1. list \in Seq(Job) /\ Len(list) \in Nat /\ jobs'[s.content] = Append(list, job)
        BY <1>1, <1>2, LenProperties DEF TypeOK
      <3>2. /\ Len(Append(list, job)) = Len(list) + 1
            /\ Append(list, job)[Len(list) + 1] = job
            /\ \A j \in 1 .. Len(list) : Append(list, job)[j] = list[j]
        BY <3>1, AppendProperties
      <3>3. CASE w = s.content /\ i = Len(list) + 1
        <4>1. jobs'[w][i] = job
          BY <3>1, <3>2, <3>3
        <4>2. s.into = "snapshots" /\ job.snapshot = s.id
          BY <1>1, <2>1, <4>1
        <4> QED
          BY <1>3, <3>3, <4>1, <4>2 DEF Keeps, Memory, Dictionary
      <3>4. CASE ~(w = s.content /\ i = Len(list) + 1)
        <4>1. i \in 1 .. Len(jobs[w]) /\ jobs'[w][i] = jobs[w][i]
          <5>1. CASE w = s.content
            <6> HIDE DEF s
            <6>1. i \in 1 .. Len(list) + 1 /\ i # Len(list) + 1
              BY <3>1, <3>2, <3>4, <5>1
            <6>2. i \in 1 .. Len(list)
              BY <3>1, <6>1
            <6> QED
              BY <3>1, <3>2, <5>1, <6>2
          <5>2. CASE w # s.content
            BY <1>1, <5>2 DEF TypeOK
          <5> QED
            BY <5>1, <5>2
        <4> QED
          BY <2>1, <4>1 DEF Given, JobsIn, Memory
      <3> QED
        BY <3>3, <3>4
    <2> QED
      BY <1>2, <2>1 DEF JobsIn, Memory
  <1>6. db # None => db' # None /\ Begins(db, db') /\ JobsIn(db') /\ Begins(db', Memory')
    BY <1>2, Stores, BeginsItself DEF Given, Begins, Memory
  <1> QED
    BY <1>2, <1>4, <1>5, <1>6, GivenStep

LEMMA BeginGiven ==
  ASSUME TypeOK, TypeOK', Covering, Given, OneAtATime, OneAtATime', NEW r \in Request, Begin(r)
  PROVE  Given'
  <1>1. CASE Raise(r)
    BY <1>1, RaiseGiven DEF Begin
  <1>2. CASE ~Raise(r)
    <2>1. /\ req[r].at = "begin" /\ OthersStay(r)
          /\ req'[r].at = "copy" /\ SameReport(req'[r], req[r]) /\ Pending(req'[r]) = Part
          /\ db' = IF db = None THEN Empty ELSE db
          /\ UNCHANGED <<memory, answered>> /\ UNCHANGED records
      BY <1>2, BeginDoes DEF memory
    <2>2. Keeps(Memory, req[r].into, req[r].id, req[r].content)
      BY <2>1 DEF Given, Alone
    <2>3. Alone(req[r])'
      <3>1. \A p \in Part \ Pending(req'[r]) : FALSE
        BY <2>1
      <3>2. Keeps(Memory', req'[r].into, req'[r].id, req'[r].content)
        BY <2>1, <2>2 DEF Keeps, Memory, SameReport
      <3>3. Part \ Pending(req'[r]) = {}
        BY <2>1
      <3> QED
        BY <2>1, <3>2, <3>3 DEF Alone, Keeps, Memory, Stored, Pending
    <2>4. Memory' = Memory /\ JobsIn(Memory')
      BY <2>1 DEF memory, Memory, Given
    <2>5. CASE db = None
      <3>1. Begins(Empty, Memory)
        BY Stores, StoreLengths DEF Begins, Empty
      <3>2. db' = Empty
        BY <2>1, <2>5
      <3> QED
        BY <2>1, <2>3, <2>4, <2>5, <3>1, <3>2, JobsInEmpty, GivenStep
    <2>6. CASE db # None
      <3>1. db' = db
        BY <2>1, <2>6
      <3> QED
        BY <2>1, <2>3, <3>1, GivenAside
    <2> QED
      BY <2>5, <2>6
  <1> QED
    BY <1>1, <1>2

LEMMA CopyGiven ==
  ASSUME TypeOK, TypeOK', Covering, Given, OneAtATime, OneAtATime', NEW r \in Request, CopyPart(r)
  PROVE  Given'
  <1>1. CASE Raise(r)
    BY <1>1, RaiseGiven DEF CopyPart
  <1>2. CASE ~Raise(r)
    <2> DEFINE s == req[r]
               e == req'[r]
    <2>1. /\ s.at = "copy" /\ OthersStay(r) /\ e.at \in Copying /\ SameReport(e, s)
          /\ e.image = Copied(s.image, Head(s.parts))
          /\ s.image \in Image /\ Head(s.parts) \in Part
          /\ Pending(s) = {Head(s.parts)} \cup Pending(e)
          /\ UNCHANGED <<memory, db, answered>> /\ UNCHANGED records
      BY <1>2, CopyDoes DEF stores, memory
    <2>2. /\ Keeps(Memory, s.into, s.id, s.content)
          /\ \A p \in Part \ Pending(s) : SamePart(p, s.image, Memory)
      BY <2>1 DEF Given, Alone, Copying
    <2>3. Memory' = Memory
      BY <2>1 DEF memory, Memory
    <2>4. ASSUME NEW p \in Part \ Pending(e) PROVE SamePart(p, e.image, Memory')
      <3>1. SamePart(p, Copied(s.image, Head(s.parts)), Memory)
        BY <2>1, <2>2, CopiedSame
      <3> QED
        BY <2>1, <2>3, <3>1
    <2>5. Keeps(Memory', e.into, e.id, e.content)
      BY <2>1, <2>2, <2>3 DEF SameReport
    <2>6. e.at \notin Stored /\ e.at # "insert"
      BY <2>1 DEF Copying, Stored
    <2>7. Alone(req[r])'
      <3>1. Alone(req[r])' <=>
              /\ e.at = "insert" => e.id = Len(records'[e.into]) + 1
              /\ e.at \in {"number", "append", "begin"} \cup Copying =>
                   Keeps(Memory', e.into, e.id, e.content)
              /\ e.at \in Copying => \A p \in Part \ Pending(e) : SamePart(p, e.image, Memory')
              /\ e.at \in Stored => Keeps(db', e.into, e.id, e.content)
        BY DEF Alone, Keeps, SamePart, Memory, Pending
      <3> QED
        BY <2>4, <2>5, <2>6, <3>1
    <2> QED
      BY <2>1, <2>7, GivenAside
  <1> QED
    BY <1>1, <1>2

LEMMA CommitGiven ==
  ASSUME TypeOK, TypeOK', Covering, Given, OneAtATime, OneAtATime', NEW r \in Request, Commit(r)
  PROVE  Given'
  <1> DEFINE s == req[r]
  <1>1. /\ s.at = "commit" /\ Pending(s) = {} /\ OthersStay(r)
        /\ req'[r].at = "dump" /\ SameReport(req'[r], s)
        /\ db' = s.image /\ db' \in Image /\ db' # None /\ UNCHANGED <<memory, answered>>
    BY CommitDoes
  <1>2. Memory' = Memory
    BY <1>1 DEF memory, Memory
  <1>3. db # None /\ IsStore(Memory) /\ IsStore(db) /\ IsStore(db')
    BY <1>1, Stores, NextStores DEF Covering, Placed, Copying
  <1>4. /\ Keeps(Memory, s.into, s.id, s.content)
        /\ \A p \in Part : SamePart(p, s.image, Memory)
    BY <1>1 DEF Given, Alone, Copying
  <1>5. db'.records = records /\ db'.jobs = jobs
    <2>1. \A d \in Dictionary : s.image.records[d] = records[d]
      BY <1>4 DEF SamePart, Memory, Part
    <2>2. s.image.jobs = jobs
      BY <1>4 DEF SamePart, Memory, Part
    <2>3. s.image.records \in [Dictionary -> Seq(Content)] /\ records \in [Dictionary -> Seq(Content)]
      BY <1>1 DEF Image, TypeOK
    <2> QED
      BY <1>1, <2>1, <2>2, <2>3
  <1>6. JobsIn(Memory') /\ JobsIn(db')
    BY <1>2, <1>5 DEF Given, JobsIn, Memory
  <1>7. Begins(db', Memory') /\ Begins(db, db')
    <2>1. Begins(Memory, Memory) /\ Begins(db, Memory)
      BY <1>3, BeginsItself DEF Given
    <2> QED
      BY <1>2, <1>5, <2>1 DEF Begins, Memory
  <1>8. Alone(req[r])'
    BY <1>1, <1>4, <1>5 DEF Alone, Keeps, Memory, SameReport, Copying, Stored
  <1> QED
    BY <1>1, <1>3, <1>6, <1>7, <1>8, GivenStep

LEMMA FileGiven ==
  ASSUME TypeOK, TypeOK', Covering, Given, OneAtATime, OneAtATime', NEW r \in Request,
         Dump(r) \/ TruncateFile(r) \/ WriteFile(r)
  PROVE  Given'
  <1>1. req[r].at # "idle"
    BY DEF Dump, TruncateFile, WriteFile
  <1>2. CASE Raise(r)
    BY <1>1, <1>2, RaiseGiven
  <1>3. CASE ~Raise(r)
    <2>1. /\ req[r].at \in Stored /\ db # None /\ OthersStay(r)
          /\ req'[r].at \in Stored \cup {"idle"}
          /\ req'[r].at # "idle" => SameReport(req'[r], req[r])
          /\ UNCHANGED <<memory, db>>
          /\ \A a \in answered' \ answered : a.into \in Dictionary => SameReport(a, req[r])
      BY <1>3, FileDoes
    <2>2. Keeps(db, req[r].into, req[r].id, req[r].content)
      BY <2>1 DEF Given, Alone
    <2>3. Alone(req[r])'
      BY <2>1, <2>2 DEF Alone, Keeps, SameReport, Copying, Stored
    <2>4. \A a \in answered' \ answered : Keeps(db', a.into, a.id, a.content)
      BY <2>1, <2>2 DEF Keeps, SameReport
    <2> QED
      BY <1>1, <2>1, <2>3, <2>4, GivenAside
  <1> QED
    BY <1>2, <1>3

\* A start has in memory what the database has.
LEMMA RestartGiven ==
  ASSUME TypeOK, TypeOK', Covering, Given, Restart PROVE Given'
  <1>1. /\ \A q \in Request : req'[q].at = "idle"
        /\ UNCHANGED <<db, file, answered>>
        /\ records' = Loaded.records /\ jobs' = Loaded.jobs
    BY DEF Restart, Idle
  <1>2. \A q \in Request : Alone(req[q])'
    BY <1>1, IdleAlone
  <1>3. \A a \in answered' : Keeps(db', a.into, a.id, a.content)
    BY <1>1 DEF Given
  <1>4. CASE db = None
    <2>1. records' = Empty.records /\ jobs' = Empty.jobs
      BY <1>1, <1>4 DEF Loaded, Covering
    <2>2. JobsIn(Memory')
      BY <2>1, JobsInEmpty DEF JobsIn, Memory
    <2> QED
      BY <1>1, <1>2, <1>3, <1>4, <2>2 DEF Given, JobsIn, Memory, Keeps
  <1>5. CASE db # None
    <2>1. records' = db.records /\ jobs' = db.jobs
      BY <1>1, <1>5 DEF Loaded
    <2>2. JobsIn(Memory') /\ JobsIn(db')
      BY <1>1, <1>5, <2>1 DEF JobsIn, Memory, Given
    <2>3. Begins(db', Memory')
      BY <1>1, <1>5, <2>1, Stores, BeginsItself DEF Begins, Memory
    <2> QED
      BY <1>2, <1>3, <2>2, <2>3 DEF Given, JobsIn, Begins, Memory, Keeps
  <1> QED
    BY <1>4, <1>5

LEMMA GivenNext ==
  TypeOK /\ TypeOK' /\ Covering /\ Given /\ OneAtATime /\ OneAtATime' /\ [Next]_vars => Given'
  <1> SUFFICES ASSUME TypeOK, TypeOK', Covering, Given, OneAtATime, OneAtATime', [Next]_vars
               PROVE  Given'
    OBVIOUS
  <1>1. CASE UNCHANGED vars
    <2>1. UNCHANGED <<records, jobs, db, req, answered>>
      BY <1>1 DEF vars
    <2> QED
      BY <2>1 DEF Given, JobsIn, Begins, Alone, Keeps, SamePart, Memory
  <1>2. CASE Restart
    BY <1>2, RestartGiven
  <1>3. ASSUME NEW r \in Request, Serve(r) \/ Continue(r) PROVE Given'
    BY <1>3, ServeGiven, InsertGiven, NumberGiven, AppendGiven, BeginGiven, CopyGiven,
       CommitGiven, FileGiven DEF Continue
  <1> QED
    BY <1>1, <1>2, <1>3 DEF Next

\* When requests do not overlap, the database is what memory began with, through
\* errors, crashes and starts.
THEOREM SerialCatalog == Spec /\ []OneAtATime => []Given
  <1>1. Init => Given
    <2> SUFFICES ASSUME Init PROVE Given
      OBVIOUS
    <2>1. \A q \in Request : req[q].at = "idle"
      BY DEF Init, Idle
    <2>2. JobsIn(Memory)
      BY JobsInEmpty DEF Init, JobsIn, Memory
    <2> QED
      BY <2>1, <2>2 DEF Init, Given, Alone, Copying, Stored
  <1>2. TypeOK /\ Covering /\ Given /\ OneAtATime /\ OneAtATime' /\ [Next]_vars => Given'
    BY TypeStep, GivenNext
  <1> QED
    BY <1>1, <1>2, CatalogTypeCorrect, CatalogCovers, PTL DEF Spec

\* When requests do not overlap, a record that a request was told it created is kept
\* as it was created: its number is given to no other record.
THEOREM SerialAnswersStand == Spec /\ []OneAtATime => []AnsweredAsGiven
  <1>1. TypeOK /\ Covering /\ Given => AnsweredAsGiven
    <2> SUFFICES ASSUME TypeOK, Covering, Given, NEW a \in answered, a.into # "jobs"
                 PROVE  /\ a.id <= Len(Loaded.records[a.into])
                        /\ Loaded.records[a.into][a.id] = a.content
      BY DEF AnsweredAsGiven
    <2>1. Loaded = db
      BY DEF Covering, Loaded
    <2>2. a.into \in Dictionary
      BY DEF TypeOK, Answer
    <2> QED
      BY <2>1, <2>2 DEF Given, Keeps
  <1> QED
    BY <1>1, SerialCatalog, CatalogTypeCorrect, CatalogCovers, PTL

\* When requests do not overlap, a job that is loaded names a snapshot that is
\* loaded too, of the job's workspace.
THEOREM SerialJobsHaveSnapshots == Spec /\ []OneAtATime => []JobsHaveSnapshots
  <1>1. Covering /\ Given => JobsHaveSnapshots
    <2> SUFFICES ASSUME Covering, Given PROVE JobsIn(Loaded)
      BY DEF JobsHaveSnapshots, JobsIn
    <2>1. CASE db = None
      BY <2>1, JobsInEmpty DEF Loaded, Covering
    <2>2. CASE db # None
      BY <2>2 DEF Loaded, Given
    <2> QED
      BY <2>1, <2>2
  <1> QED
    BY <1>1, SerialCatalog, CatalogCovers, PTL
=============================================================================
