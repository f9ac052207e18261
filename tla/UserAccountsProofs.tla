--------------------------- MODULE UserAccountsProofs ---------------------------
(***************************************************************************)
(* Theorems about UserAccounts, for any finite set of users, any roles and *)
(* threads, and any bounds.                                                *)
(***************************************************************************)
EXTENDS UserAccounts, FiniteSetTheorems, TLAPS

-----------------------------------------------------------------------------
(* Type correctness *)

\* There is a user, the administrator that the program starts with.
Typed == TypeOK /\ User # {}

LEMMA IdleType ==
  ASSUME User # {}
  PROVE  Idle \in RequestState
  <1>1. NoUsers \in Accounts
    BY DEF NoUsers, Accounts
  <1>2. [users |-> NoUsers, note |-> FALSE] \in Image
    BY <1>1 DEF Image
  <1>3. (CHOOSE u \in User : TRUE) \in User
    OBVIOUS
  <1> QED
    BY <1>2, <1>3, AccountAssumption DEF Idle, RequestState, Step

LEMMA TypedInit == Init => Typed
  <1> SUFFICES ASSUME Init PROVE Typed
    OBVIOUS
  <1>1. User # {}
    BY DEF Init, Admins
  <1>2. file \in Image
    BY DEF Init, Image
  <1> QED
    BY <1>1, <1>2, IdleType DEF Init, Typed, TypeOK

\* A request moves on to another step.
LEMMA Advance ==
  ASSUME Typed, NEW r \in Request, NEW at \in Step
  PROVE  [req EXCEPT ![r] = [@ EXCEPT !.at = at]] \in [Request -> RequestState]
  BY DEF Typed, TypeOK, RequestState

\* A request ends.
LEMMA Leave ==
  ASSUME Typed, NEW r \in Request
  PROVE  [req EXCEPT ![r] = Idle] \in [Request -> RequestState]
  BY IdleType DEF Typed, TypeOK

LEMMA DetachingType ==
  ASSUME Typed, NEW r \in Request, NEW next \in RequestState, NEW u \in User
  PROVE  Detaching(r, next, u) \in [Request -> RequestState]
  <1>1. ASSUME NEW q \in Request
        PROVE  [req[q] EXCEPT !.held = @ /\ req[q].target # u] \in RequestState
    <2> DEFINE kept == req[q].held /\ req[q].target # u
    <2>1. kept \in BOOLEAN
      OBVIOUS
    <2>2. [req[q] EXCEPT !.held = kept] \in RequestState
      <3> HIDE DEF kept
      <3> QED
        BY <2>1 DEF Typed, TypeOK, RequestState
    <2> QED
      BY <2>2
  <1> QED
    BY <1>1 DEF Detaching

LEMMA ArriveTyped ==
  ASSUME Typed, NEW r \in Request, NEW op \in {"create_user", "set_role", "delete_user"},
         NEW by \in User, NEW target \in User, NEW role \in Role, Arrive(r, op, by, target, role)
  PROVE  Typed'
  <1> DEFINE alone == \A p \in Request : ~Busy(p)
             had == file \in Image /\ file.note
             s == [Idle EXCEPT !.at = "check", !.op = op, !.target = target, !.role = role,
                               !.alone = alone, !.had = had]
  <1>1. had \in BOOLEAN /\ alone \in BOOLEAN
    BY DEF Image
  <1>2. s \in RequestState
    <2> HIDE DEF alone, had
    <2> QED
      BY <1>1, IdleType DEF Typed, RequestState, Step
  <1>3. \A q \in Request : [req[q] EXCEPT !.alone = FALSE] \in RequestState
    BY DEF Typed, TypeOK, RequestState
  <1>4. req' = [q \in Request |-> IF q = r THEN s ELSE [req[q] EXCEPT !.alone = FALSE]]
    BY DEF Arrive
  <1>5. req' \in [Request -> RequestState]
    <2> HIDE DEF s
    <2> QED
      BY <1>2, <1>3, <1>4
  <1>6. served' \in Nat
    <2>1. served' = served + 1
      BY DEF Arrive
    <2>2. served \in Nat
      BY DEF Typed, TypeOK
    <2> QED
      BY <2>1, <2>2
  <1> QED
    BY <1>5, <1>6 DEF Arrive, Typed, TypeOK

LEMMA CheckTyped ==
  ASSUME Typed, NEW r \in Request, Check(r)
  PROVE  Typed'
  <1>1. [req[r] EXCEPT !.at = "change", !.held = TRUE] \in RequestState
    BY DEF Typed, TypeOK, RequestState, Step
  <1>2. Idle \in RequestState
    BY IdleType DEF Typed
  <1>3. req' \in [Request -> RequestState]
    <2>1. CASE Acceptable(req[r])
      BY <2>1, <1>1 DEF Check, Typed, TypeOK
    <2>2. CASE ~Acceptable(req[r])
      BY <2>2, <1>2 DEF Check, Typed, TypeOK
    <2> QED
      BY <2>1, <2>2
  <1> QED
    BY <1>3 DEF Check, Typed, TypeOK

LEMMA ChangeTyped ==
  ASSUME Typed, NEW r \in Request, Change(r)
  PROVE  Typed'
  <1> DEFINE s == req[r]
             saving == [s EXCEPT !.at = "read"]
  <1>1. s \in RequestState /\ s.target \in User /\ s.role \in Role
    BY DEF Typed, TypeOK, RequestState
  <1>2. saving \in RequestState /\ Idle \in RequestState
    BY <1>1, IdleType DEF Typed, RequestState, Step
  <1>3. /\ [users EXCEPT ![s.target] = s.role] \in Accounts
        /\ [users EXCEPT ![s.target] = Absent] \in Accounts
    BY <1>1 DEF Typed, TypeOK, Accounts
  <1>4. users' \in Accounts
    BY <1>3 DEF Change, Typed, TypeOK
  <1>5. req' \in [Request -> RequestState]
    <2>1. CASE s.op = "create_user"
      <3>1. req' = Detaching(r, saving, s.target)
        BY <2>1 DEF Change
      <3> HIDE DEF saving
      <3> QED
        BY <3>1, <1>1, <1>2, DetachingType
    <2>2. CASE s.op = "set_role"
      BY <2>2, <1>2 DEF Change, Typed, TypeOK
    <2>3. CASE s.op = "delete_user"
      <3> DEFINE next == IF users[s.target] = Absent THEN Idle ELSE saving
      <3>1. req' = Detaching(r, next, s.target)
        BY <2>3 DEF Change
      <3>2. next \in RequestState
        BY <1>2
      <3> HIDE DEF next
      <3> QED
        BY <3>1, <3>2, <1>1, DetachingType
    <2> QED
      BY <2>1, <2>2, <2>3 DEF Change
  <1> QED
    BY <1>4, <1>5 DEF Change, Typed, TypeOK

LEMMA NoteReadType == NoteRead(file) \subseteq BOOLEAN
  BY DEF NoteRead, Image

LEMMA SaveReadTyped ==
  ASSUME Typed, NEW r \in Request, SaveRead(r)
  PROVE  Typed'
  <1>1. ASSUME NEW note \in BOOLEAN
        PROVE  [req EXCEPT ![r] = [@ EXCEPT !.at = "open", !.image.note = note]]
                 \in [Request -> RequestState]
    <2>1. [req[r].image EXCEPT !.note = note] \in Image
      BY DEF Typed, TypeOK, RequestState, Image
    <2>2. [req[r] EXCEPT !.at = "open", !.image.note = note] \in RequestState
      BY <2>1 DEF Typed, TypeOK, RequestState, Step
    <2> QED
      BY <2>2 DEF Typed, TypeOK
  <1>2. req' \in [Request -> RequestState]
    BY <1>1, Leave, NoteReadType DEF SaveRead
  <1> QED
    BY <1>2 DEF SaveRead, Typed, TypeOK

LEMMA SaveDumpTyped ==
  ASSUME Typed, NEW r \in Request, SaveDump(r)
  PROVE  Typed'
  <1>1. [req[r].image EXCEPT !.users = users] \in Image
    BY DEF Typed, TypeOK, RequestState, Image
  <1>2. [req[r] EXCEPT !.at = "flush", !.image.users = users] \in RequestState
    BY <1>1 DEF Typed, TypeOK, RequestState, Step
  <1>3. req' \in [Request -> RequestState]
    BY <1>2 DEF SaveDump, Typed, TypeOK
  <1> QED
    BY <1>3 DEF SaveDump, Typed, TypeOK

LEMMA SaveFlushTyped ==
  ASSUME Typed, NEW r \in Request, SaveFlush(r)
  PROVE  Typed'
  <1>1. file' \in Image \cup {Empty, Torn}
    BY DEF SaveFlush, Typed, TypeOK, RequestState
  <1> QED
    BY <1>1, Leave DEF SaveFlush, Typed, TypeOK

LEMMA RestartTyped ==
  ASSUME Typed, Restart
  PROVE  Typed'
  <1>1. Loads(file) \subseteq Accounts
    BY DEF Loads, Image, NoUsers, Accounts
  <1>2. req' \in [Request -> RequestState]
    BY IdleType DEF Restart, Typed
  <1>3. restarts' \in Nat
    BY DEF Restart, Typed, TypeOK
  <1> QED
    BY <1>1, <1>2, <1>3 DEF Restart, Typed, TypeOK

LEMMA TypedNext == Typed /\ [Next]_vars => Typed'
  <1> SUFFICES ASSUME Typed, [Next]_vars PROVE Typed'
    OBVIOUS
  <1>1. ASSUME NEW u \in User, SignIn(u) \/ Expire(u) PROVE Typed'
    BY <1>1 DEF SignIn, Expire, Typed, TypeOK
  <1>2. ASSUME NEW r \in Request, SaveOpen(r) PROVE Typed'
    BY <1>2, Advance DEF SaveOpen, Step, Typed, TypeOK
  <1>3. CASE UNCHANGED vars
    BY <1>3 DEF vars, Typed, TypeOK
  <1> QED
    BY <1>1, <1>2, <1>3, ArriveTyped, CheckTyped, ChangeTyped, SaveReadTyped, SaveDumpTyped,
       SaveFlushTyped, RestartTyped DEF Next, Continue

\* Type correctness: whatever requests overlap, what they write is a file of
\* accounts, and each step finds the record it works on.
THEOREM AccountsTypeCorrect == Spec => []TypeOK
  <1>1. Typed => TypeOK
    BY DEF Typed
  <1> QED
    BY <1>1, TypedInit, TypedNext, PTL DEF Spec

-----------------------------------------------------------------------------
(* An administrator remains *)

\* A request that overlaps no other is the only one in flight, and what it was
\* allowed to do when it was checked is what it is allowed to do now.
Sole(r) == \A q \in Request : q # r => ~Busy(q)

Safe ==
  /\ \A r \in Request : Busy(r) /\ req[r].alone => Sole(r)
  /\ \A r \in Request : req[r].at = "change" /\ req[r].alone => Acceptable(req[r])

IInv == Typed /\ Safe

LEMMA AllIdle ==
  ASSUME req = [r \in Request |-> Idle]
  PROVE  Safe
  BY DEF Safe, Busy, Idle

LEMMA SafeInit == Init => Safe
  BY AllIdle DEF Init

\* A step of request r that leaves the others' step and history alone.
Own(r) ==
  /\ Busy(r)
  /\ \A q \in Request : q # r => /\ req'[q].at = req[q].at
                                 /\ req'[q].alone = req[q].alone
  /\ req'[r].at # "idle" => req'[r].alone = req[r].alone

LEMMA DetachingKeeps ==
  ASSUME Typed, NEW r \in Request, NEW next, NEW u \in User, req' = Detaching(r, next, u)
  PROVE  /\ req'[r] = next
         /\ \A q \in Request : q # r => req'[q].at = req[q].at /\ req'[q].alone = req[q].alone
  <1>1. req'[r] = next
    BY DEF Detaching
  <1>2. ASSUME NEW q \in Request, q # r
        PROVE  req'[q].at = req[q].at /\ req'[q].alone = req[q].alone
    <2> DEFINE kept == req[q].held /\ req[q].target # u
    <2>1. req'[q] = [req[q] EXCEPT !.held = kept]
      BY <1>2 DEF Detaching
    <2> HIDE DEF kept
    <2> QED
      BY <2>1 DEF Typed, TypeOK, RequestState
  <1> QED
    BY <1>1, <1>2

LEMMA CheckOwn ==
  ASSUME Typed, NEW r \in Request, Check(r)
  PROVE  Own(r)
  <1>1. Busy(r) /\ Idle.at = "idle"
    BY DEF Busy, Check, Idle
  <1>2. \A q \in Request : q # r => req'[q] = req[q]
    BY DEF Check, Typed, TypeOK
  <1>3. req'[r].at # "idle" => req'[r].alone = req[r].alone
    BY <1>1 DEF Check, Typed, TypeOK, RequestState
  <1> QED
    BY <1>1, <1>2, <1>3 DEF Own

LEMMA ChangeOwn ==
  ASSUME Typed, NEW r \in Request, Change(r)
  PROVE  Own(r) /\ req'[r].at # "change"
  <1> DEFINE s == req[r]
             saving == [s EXCEPT !.at = "read"]
  <1>1. s.target \in User /\ saving.at = "read" /\ saving.alone = s.alone
    BY DEF Typed, TypeOK, RequestState
  <1>2. Busy(r) /\ Idle.at = "idle"
    BY DEF Change, Busy, Idle
  <1>3. CASE s.op = "create_user"
    <2>1. req' = Detaching(r, saving, s.target)
      BY <1>3 DEF Change
    <2> HIDE DEF saving
    <2> QED
      BY <2>1, <1>1, <1>2, DetachingKeeps DEF Own
  <1>4. CASE s.op = "set_role"
    <2>1. req'[r] = saving /\ \A q \in Request : q # r => req'[q] = req[q]
      BY <1>4 DEF Change, Typed, TypeOK
    <2> HIDE DEF saving
    <2> QED
      BY <2>1, <1>1, <1>2 DEF Own
  <1>5. CASE s.op = "delete_user"
    <2> DEFINE next == IF users[s.target] = Absent THEN Idle ELSE saving
    <2>1. req' = Detaching(r, next, s.target)
      BY <1>5 DEF Change
    <2>2. next.at # "change" /\ (next.at # "idle" => next.alone = s.alone)
      BY <1>1, <1>2
    <2> HIDE DEF next
    <2> QED
      BY <2>1, <2>2, <1>1, <1>2, DetachingKeeps DEF Own
  <1> QED
    BY <1>3, <1>4, <1>5 DEF Change

LEMMA SaveOwn ==
  ASSUME Typed, NEW r \in Request,
         SaveRead(r) \/ SaveOpen(r) \/ SaveDump(r) \/ SaveFlush(r)
  PROVE  Own(r) /\ req'[r].at # "change"
  <1>1. Busy(r)
    BY DEF Busy, SaveRead, SaveOpen, SaveDump, SaveFlush
  <1>2. \A q \in Request : q # r => req'[q] = req[q]
    BY DEF SaveRead, SaveOpen, SaveDump, SaveFlush, Typed, TypeOK
  <1>3. Idle.at = "idle"
    BY DEF Idle
  <1>4. /\ req'[r].at # "change"
        /\ req'[r].at # "idle" => req'[r].alone = req[r].alone
    <2>1. CASE SaveRead(r)
      BY <2>1, <1>3 DEF SaveRead, Typed, TypeOK, RequestState
    <2>2. CASE SaveOpen(r)
      BY <2>2 DEF SaveOpen, Typed, TypeOK, RequestState
    <2>3. CASE SaveDump(r)
      BY <2>3 DEF SaveDump, Typed, TypeOK, RequestState
    <2>4. CASE SaveFlush(r)
      BY <2>4, <1>3 DEF SaveFlush, Typed, TypeOK, RequestState
    <2> QED
      BY <2>1, <2>2, <2>3, <2>4
  <1> QED
    BY <1>1, <1>2, <1>4 DEF Own

\* After a step of request r, a request that overlapped no other is r itself.
LEMMA OnlyOne ==
  ASSUME Safe, NEW r \in Request, Own(r), NEW q \in Request, Busy(q)', req'[q].alone
  PROVE  q = r /\ Sole(r) /\ req[r].alone
  <1>1. CASE q = r
    BY <1>1 DEF Own, Safe, Busy
  <1>2. CASE q # r
    <2>1. Busy(q) /\ req[q].alone
      BY <1>2 DEF Own, Busy
    <2> QED
      BY <1>2, <2>1 DEF Own, Safe, Sole
  <1> QED
    BY <1>1, <1>2

LEMMA OwnStep ==
  ASSUME Safe, NEW r \in Request, Own(r),
         req'[r].at = "change" /\ req'[r].alone => Acceptable(req[r])'
  PROVE  Safe'
  <1>1. Sole(r) => Sole(r)'
    BY DEF Own, Sole, Busy
  <1>2. ASSUME NEW q \in Request, Busy(q)', req'[q].alone
        PROVE  Sole(q)'
    BY <1>1, <1>2, OnlyOne
  <1>3. ASSUME NEW q \in Request, req'[q].at = "change", req'[q].alone
        PROVE  Acceptable(req[q])'
    <2>1. Busy(q)'
      BY <1>3 DEF Busy
    <2>2. q = r
      BY <2>1, <1>3, OnlyOne
    <2> QED
      BY <2>2, <1>3
  <1> QED
    BY <1>2, <1>3 DEF Safe

LEMMA ArriveSafe ==
  ASSUME Typed, Safe, NEW r \in Request,
         NEW op \in {"create_user", "set_role", "delete_user"},
         NEW by \in User, NEW target \in User, NEW role \in Role, Arrive(r, op, by, target, role)
  PROVE  Safe'
  <1> DEFINE alone == \A p \in Request : ~Busy(p)
  <1>1. req'[r].at = "check" /\ req'[r].alone = alone
    <2> DEFINE had == file \in Image /\ file.note
    <2>1. req'[r] = [Idle EXCEPT !.at = "check", !.op = op, !.target = target, !.role = role,
                                 !.alone = alone, !.had = had]
      BY DEF Arrive
    <2> HIDE DEF alone, had
    <2> QED
      BY <2>1 DEF Idle
  <1>2. \A q \in Request : q # r => req'[q].at = req[q].at /\ req'[q].alone = FALSE
    <2>1. ASSUME NEW q \in Request, q # r
          PROVE  req'[q] = [req[q] EXCEPT !.alone = FALSE]
      BY <2>1 DEF Arrive
    <2> QED
      BY <2>1 DEF Typed, TypeOK, RequestState
  <1>3. ASSUME NEW q \in Request, Busy(q)', req'[q].alone
        PROVE  Sole(q)'
    BY <1>1, <1>2, <1>3 DEF Sole, Busy
  <1>4. ASSUME NEW q \in Request, req'[q].at = "change", req'[q].alone
        PROVE  FALSE
    <2>1. q = r
      BY <1>2, <1>4
    <2> QED
      BY <2>1, <1>1, <1>4
  <1> QED
    BY <1>3, <1>4 DEF Safe

LEMMA CheckSafe ==
  ASSUME Typed, Safe, NEW r \in Request, Check(r)
  PROVE  Safe'
  <1>1. ASSUME Acceptable(req[r])
        PROVE  Acceptable(req[r])'
    <2> DEFINE s == [req[r] EXCEPT !.at = "change", !.held = TRUE]
    <2>1. req'[r] = s
      BY <1>1 DEF Check, Typed, TypeOK
    <2>2. s.op = req[r].op /\ s.target = req[r].target /\ s.role = req[r].role
      BY DEF Typed, TypeOK, RequestState
    <2>3. users' = users
      BY DEF Check
    <2> HIDE DEF s
    <2> QED
      BY <1>1, <2>1, <2>2, <2>3 DEF Acceptable, LosesAdmin, Admins
  <1>2. ASSUME ~Acceptable(req[r])
        PROVE  req'[r].at = "idle"
    <2>1. req'[r] = Idle
      BY <1>2 DEF Check, Typed, TypeOK
    <2> QED
      BY <2>1 DEF Idle
  <1> QED
    BY <1>1, <1>2, CheckOwn, OwnStep

LEMMA SafeNext == Typed /\ Safe /\ [Next]_vars => Safe'
  <1> SUFFICES ASSUME Typed, Safe, [Next]_vars PROVE Safe'
    OBVIOUS
  <1>1. CASE UNCHANGED <<users, req>>
    BY <1>1 DEF Safe, Sole, Busy, Acceptable, LosesAdmin, Admins
  <1>2. ASSUME NEW u \in User, SignIn(u) \/ Expire(u) PROVE Safe'
    BY <1>1, <1>2 DEF SignIn, Expire
  <1>3. CASE Restart
    <2>1. req' = [r \in Request |-> Idle]
      BY <1>3 DEF Restart
    <2> QED
      BY <2>1 DEF Safe, Busy, Idle
  <1>4. CASE UNCHANGED vars
    BY <1>1, <1>4 DEF vars
  <1> QED
    BY <1>2, <1>3, <1>4, ArriveSafe, CheckSafe, ChangeOwn, SaveOwn, OwnStep DEF Next, Continue

\* The guards of set_role() and delete_user(), seen from the set of administrators.
LEMMA AnotherAdmin ==
  ASSUME Typed, NEW u \in Admins, Cardinality(Admins) > 1
  PROVE  \E v \in Admins : v # u
  <1>1. IsFiniteSet(Admins)
    BY AccountAssumption, FS_Subset DEF Admins
  <1>2. CASE Admins = {u}
    <2>1. Cardinality(Admins) = 1
      BY <1>2, FS_Singleton
    <2> QED
      BY <2>1
  <1> QED
    BY <1>2

\* What an accepted request does to the accounts leaves an administrator.
LEMMA AcceptedKeeps ==
  ASSUME Typed, NEW r \in Request, Change(r), Acceptable(req[r]), Admins # {}
  PROVE  Admins' # {}
  <1> DEFINE s == req[r]
  <1>1. s.target \in User
    BY DEF Typed, TypeOK, RequestState
  <1>2. users \in [User -> Role \cup {Absent}] /\ "ADMIN" # Absent
    BY AccountAssumption DEF Typed, TypeOK, Accounts
  <1>3. \A v \in User : v # s.target => users'[v] = users[v]
    BY <1>1, <1>2 DEF Change
  <1>4. ASSUME NEW v \in Admins, v # s.target
        PROVE  Admins' # {}
    BY <1>3, <1>4 DEF Admins
  <1>5. CASE s.op = "create_user"
    <2>1. s.target \notin Admins
      BY <1>5, <1>2 DEF Acceptable, Admins
    <2> QED
      BY <2>1, <1>4
  <1>6. CASE s.op # "create_user"
    <2>1. CASE LosesAdmin(s)
      <3>1. Cardinality(Admins) > 1 /\ s.target \in Admins
        BY <2>1, <1>1, <1>6 DEF Acceptable, LosesAdmin, Admins
      <3> QED
        BY <3>1, <1>4, AnotherAdmin
    <2>2. CASE users[s.target] # "ADMIN"
      BY <2>2, <1>4 DEF Admins
    <2>3. CASE s.op = "set_role" /\ s.role = "ADMIN" /\ users[s.target] = "ADMIN"
      <3>1. users'[s.target] = "ADMIN"
        BY <2>3, <1>1, <1>2 DEF Change
      <3> QED
        BY <3>1, <1>1 DEF Admins
    <2> QED
      BY <2>1, <2>2, <2>3, <1>6 DEF LosesAdmin, Change
  <1> QED
    BY <1>5, <1>6

LEMMA StepKeepsAdmin ==
  ASSUME Typed, Safe, [Next]_vars, NEW r \in Request,
         req[r].at = "change", req[r].alone, users' # users, restarts' = restarts, Admins # {}
  PROVE  Admins' # {}
  <1>1. Acceptable(req[r]) /\ Sole(r)
    BY DEF Safe, Busy
  <1>2. ~Restart
    BY DEF Restart, Typed, TypeOK
  <1>3. ASSUME NEW q \in Request, Change(q)
        PROVE  q = r
    BY <1>1, <1>3 DEF Sole, Busy, Change
  <1>4. \E q \in Request : Change(q)
    BY <1>2 DEF Next, vars, SignIn, Expire, Arrive, Continue, Check, SaveRead, SaveOpen,
       SaveDump, SaveFlush
  <1> QED
    BY <1>1, <1>3, <1>4, AcceptedKeeps

\* A request that overlaps no other never takes the last administrator away:
\* nothing can change the accounts between its count and its change.
THEOREM AdministratorStays == Spec => AloneKeepsAdmin
  <1>1. Init => IInv
    BY TypedInit, SafeInit DEF IInv
  <1>2. IInv /\ [Next]_vars => IInv'
    BY TypedNext, SafeNext DEF IInv
  <1>3. IInv /\ [Next]_vars =>
          [\A r \in Request :
             (/\ req[r].at = "change" /\ req[r].alone
              /\ users' # users /\ restarts' = restarts
              /\ Admins # {}) => Admins' # {}]_vars
    BY StepKeepsAdmin DEF IInv
  <1> QED
    BY <1>1, <1>2, <1>3, PTL DEF Spec, AloneKeepsAdmin

-----------------------------------------------------------------------------
(* The file follows memory *)

\* What a request that overlapped no other may rely on: the file it found, then
\* the note it read from it, then the accounts it copied.
Due(r) ==
  /\ req[r].at \in {"check", "change", "read"} => (req[r].had => file \in Image /\ file.note)
  /\ req[r].at \in {"open", "dump", "flush"} => (req[r].had => req[r].image.note)
  /\ req[r].at \in {"dump", "flush"} => file = Empty
  /\ req[r].at = "flush" => req[r].image.users = users

Saving == \A r \in Request : Busy(r) /\ req[r].alone => Due(r)

LEMMA SavingAllIdle ==
  ASSUME req = [r \in Request |-> Idle]
  PROVE  Saving
  BY DEF Saving, Busy, Idle

\* Only the request that takes the step has to be looked at.
LEMMA OwnSaving ==
  ASSUME Safe, Saving, NEW r \in Request, Own(r),
         Due(r) /\ req'[r].at # "idle" => Due(r)'
  PROVE  Saving'
  <1> SUFFICES ASSUME NEW q \in Request, Busy(q)', req'[q].alone
               PROVE  Due(q)'
    BY DEF Saving
  <1>1. q = r /\ req[r].alone
    BY OnlyOne
  <1>2. Due(r)
    BY <1>1 DEF Saving, Own
  <1> QED
    BY <1>1, <1>2 DEF Busy

LEMMA ArriveSaving ==
  ASSUME Typed, NEW r \in Request,
         NEW op \in {"create_user", "set_role", "delete_user"},
         NEW by \in User, NEW target \in User, NEW role \in Role, Arrive(r, op, by, target, role)
  PROVE  Saving'
  <1> DEFINE alone == \A p \in Request : ~Busy(p)
             had == file \in Image /\ file.note
  <1>1. req'[r].at = "check" /\ (req'[r].had => had)
    <2>1. req'[r] = [Idle EXCEPT !.at = "check", !.op = op, !.target = target, !.role = role,
                                 !.alone = alone, !.had = had]
      BY DEF Arrive
    <2> HIDE DEF alone, had
    <2> QED
      BY <2>1 DEF Idle
  <1>2. ASSUME NEW q \in Request, q # r
        PROVE  ~req'[q].alone
    <2>1. req'[q] = [req[q] EXCEPT !.alone = FALSE]
      BY <1>2 DEF Arrive
    <2> QED
      BY <2>1 DEF Typed, TypeOK, RequestState
  <1>3. file' = file
    BY DEF Arrive
  <1>4. Due(r)'
    BY <1>1, <1>3 DEF Due
  <1> QED
    BY <1>2, <1>4 DEF Saving

LEMMA CheckSaving ==
  ASSUME Typed, NEW r \in Request, Check(r), Due(r), req'[r].at # "idle"
  PROVE  Due(r)'
  <1>1. req'[r] = [req[r] EXCEPT !.at = "change", !.held = TRUE]
    BY DEF Check, Idle, Typed, TypeOK
  <1>2. req'[r].at = "change" /\ req'[r].had = req[r].had
    BY <1>1 DEF Typed, TypeOK, RequestState
  <1> QED
    BY <1>2 DEF Due, Check

LEMMA ChangeSaving ==
  ASSUME Typed, NEW r \in Request, Change(r), Due(r), req'[r].at # "idle"
  PROVE  Due(r)'
  <1> DEFINE saving == [req[r] EXCEPT !.at = "read"]
  <1>1. req'[r] = saving
    <2> HIDE DEF saving
    <2>1. CASE req[r].op = "set_role"
      BY <2>1 DEF Change, Typed, TypeOK, saving
    <2>2. CASE req[r].op = "create_user"
      BY <2>2 DEF Change, Detaching, saving
    <2>3. CASE req[r].op = "delete_user"
      <3>1. req'[r] = IF users[req[r].target] = Absent THEN Idle ELSE saving
        BY <2>3 DEF Change, Detaching, saving
      <3> QED
        BY <3>1 DEF Idle
    <2> QED
      BY <2>1, <2>2, <2>3 DEF Change
  <1>2. saving.at = "read" /\ saving.had = req[r].had
    BY DEF Typed, TypeOK, RequestState
  <1>3. req[r].at = "change" /\ file' = file
    BY DEF Change
  <1> HIDE DEF saving
  <1> QED
    BY <1>1, <1>2, <1>3 DEF Due

LEMMA SaveReadSaving ==
  ASSUME Typed, NEW r \in Request, SaveRead(r), Due(r), req'[r].at # "idle"
  PROVE  Due(r)'
  <1>1. PICK note \in NoteRead(file) :
          req'[r] = [req[r] EXCEPT !.at = "open", !.image.note = note]
    <2>1. Idle.at = "idle"
      BY DEF Idle
    <2>2. req' # [req EXCEPT ![r] = Idle]
      BY <2>1 DEF Typed, TypeOK
    <2>3. PICK note \in NoteRead(file) :
            req' = [req EXCEPT ![r] = [@ EXCEPT !.at = "open", !.image.note = note]]
      BY <2>2 DEF SaveRead
    <2> QED
      BY <2>3 DEF Typed, TypeOK
  <1>2. /\ req'[r].at = "open" /\ req'[r].had = req[r].had
        /\ req'[r].image.note = note
    BY <1>1 DEF Typed, TypeOK, RequestState, Image
  <1>3. req[r].had => note
    BY DEF Due, SaveRead, NoteRead
  <1> QED
    BY <1>2, <1>3 DEF Due

LEMMA SaveWriteSaving ==
  ASSUME Typed, NEW r \in Request, SaveOpen(r) \/ SaveDump(r), Due(r)
  PROVE  Due(r)'
  <1>1. CASE SaveOpen(r)
    <2>1. /\ req'[r].at = "dump" /\ req'[r].had = req[r].had
          /\ req'[r].image = req[r].image
      BY <1>1 DEF SaveOpen, Typed, TypeOK, RequestState
    <2> QED
      BY <1>1, <2>1 DEF SaveOpen, Due
  <1>2. CASE SaveDump(r)
    <2>1. req'[r] = [req[r] EXCEPT !.at = "flush", !.image.users = users]
      BY <1>2 DEF SaveDump, Typed, TypeOK
    <2>2. /\ req'[r].at = "flush" /\ req'[r].had = req[r].had
          /\ req'[r].image.users = users /\ req'[r].image.note = req[r].image.note
      BY <2>1 DEF Typed, TypeOK, RequestState, Image
    <2> QED
      BY <1>2, <2>2 DEF SaveDump, Due
  <1> QED
    BY <1>1, <1>2

LEMMA SaveFlushEnds ==
  ASSUME Typed, NEW r \in Request, SaveFlush(r)
  PROVE  req'[r].at = "idle"
  <1>1. req'[r] = Idle
    BY DEF SaveFlush, Typed, TypeOK
  <1> QED
    BY <1>1 DEF Idle

LEMMA SavingNext == Typed /\ Safe /\ Saving /\ [Next]_vars => Saving'
  <1> SUFFICES ASSUME Typed, Safe, Saving, [Next]_vars PROVE Saving'
    OBVIOUS
  <1>1. CASE UNCHANGED <<users, file, req>>
    BY <1>1 DEF Saving, Busy, Due
  <1>2. ASSUME NEW u \in User, SignIn(u) \/ Expire(u) PROVE Saving'
    BY <1>1, <1>2 DEF SignIn, Expire
  <1>3. CASE Restart
    <2>1. req' = [r \in Request |-> Idle]
      BY <1>3 DEF Restart
    <2> QED
      BY <2>1 DEF Saving, Busy, Idle
  <1>4. ASSUME NEW r \in Request, Continue(r) PROVE Saving'
    <2>1. Own(r)
      BY <1>4, CheckOwn, ChangeOwn, SaveOwn DEF Continue
    <2>2. Due(r) /\ req'[r].at # "idle" => Due(r)'
      BY <1>4, CheckSaving, ChangeSaving, SaveReadSaving, SaveWriteSaving, SaveFlushEnds
         DEF Continue
    <2> QED
      BY <2>1, <2>2, OwnSaving
  <1>5. CASE UNCHANGED vars
    BY <1>1, <1>5 DEF vars
  <1> QED
    BY <1>2, <1>3, <1>4, <1>5, ArriveSaving DEF Next

\* Where a request that is the only one in flight ends, the step is its own.
LEMMA EndsItself ==
  ASSUME Typed, Safe, [Next]_vars, NEW r \in Request, Busy(r), Sole(r),
         req'[r].at = "idle", restarts' = restarts
  PROVE  Check(r) \/ Change(r) \/ SaveRead(r) \/ SaveFlush(r)
  <1>1. req' # req
    BY DEF Busy
  <1>2. ~Restart
    BY DEF Restart, Typed, TypeOK
  <1>3. ASSUME NEW q \in Request, Continue(q)
        PROVE  q = r
    BY <1>3 DEF Sole, Busy, Continue, Check, Change, SaveRead, SaveOpen, SaveDump, SaveFlush
  <1>4. ASSUME NEW q \in Request, NEW op \in {"create_user", "set_role", "delete_user"},
               NEW by \in User, NEW target \in User, NEW role \in Role,
               Arrive(q, op, by, target, role)
        PROVE  FALSE
    <2>1. q # r /\ req'[r] = [req[r] EXCEPT !.alone = FALSE]
      BY <1>4 DEF Arrive, Busy
    <2>2. req'[r].at = req[r].at
      BY <2>1 DEF Typed, TypeOK, RequestState
    <2> QED
      BY <2>2 DEF Busy
  <1>5. \E q \in Request : Continue(q)
    BY <1>1, <1>2, <1>4 DEF Next, vars, SignIn, Expire
  <1>6. ~SaveOpen(r) /\ ~SaveDump(r)
    BY DEF SaveOpen, SaveDump, Typed, TypeOK, RequestState
  <1> QED
    BY <1>3, <1>5, <1>6 DEF Continue

\* A request that is refused changes nothing; a deletion that finds no account
\* was not acceptable; the text is flushed over an empty file; and the read
\* raises only over a torn one.
LEMMA StepSaves ==
  ASSUME Typed, Safe, Saving, [Next]_vars, NEW r \in Request,
         Busy(r), req[r].alone, req'[r].at = "idle", restarts' = restarts
  PROVE  Refused(r) \/ Saved(r) \/ NotSaved(r)
  <1>1. Due(r) /\ Sole(r)
    BY DEF Safe, Saving
  <1>2. CASE Check(r)
    BY <1>2 DEF Check, Refused
  <1>3. CASE Change(r)
    <2> DEFINE s == req[r]
               saving == [s EXCEPT !.at = "read"]
    <2>1. Acceptable(s)
      BY <1>3 DEF Safe, Change
    <2>2. saving.at = "read"
      BY DEF Typed, TypeOK, RequestState
    <2>3. req'[r] = Idle
      <3> HIDE DEF saving
      <3>1. CASE s.op = "set_role"
        BY <3>1, <1>3, <2>2 DEF Change, Typed, TypeOK, saving
      <3>2. CASE s.op = "create_user"
        BY <3>2, <1>3, <2>2 DEF Change, Detaching, saving
      <3>3. CASE s.op = "delete_user"
        <4>1. req'[r] = IF users[s.target] = Absent THEN Idle ELSE saving
          BY <3>3, <1>3 DEF Change, Detaching, saving
        <4> QED
          BY <4>1, <2>2
      <3> QED
        BY <3>1, <3>2, <3>3, <1>3 DEF Change
    <2>4. s.op = "delete_user" /\ users[s.target] = Absent
      <3> HIDE DEF saving
      <3>1. s.op # "set_role"
        BY <1>3, <2>2 DEF Change, Typed, TypeOK, saving
      <3>2. s.op # "create_user"
        BY <1>3, <2>2 DEF Change, Detaching, saving
      <3>3. CASE s.op = "delete_user" /\ users[s.target] # Absent
        <4>1. req'[r] = IF users[s.target] = Absent THEN Idle ELSE saving
          BY <3>3, <1>3 DEF Change, Detaching, saving
        <4> QED
          BY <4>1, <3>3, <2>2
      <3> QED
        BY <3>1, <3>2, <3>3, <1>3 DEF Change
    <2> QED
      BY <2>1, <2>4 DEF Acceptable
  <1>4. CASE SaveRead(r)
    <2>1. \A note : [req[r] EXCEPT !.at = "open", !.image.note = note].at = "open"
      BY DEF Typed, TypeOK, RequestState
    <2>2. \A note : req' # [req EXCEPT ![r] = [@ EXCEPT !.at = "open", !.image.note = note]]
      BY <2>1 DEF Typed, TypeOK
    <2>3. file = Torn
      BY <1>4, <2>2 DEF SaveRead
    <2>4. ~req[r].had
      BY <1>1, <1>4, <2>3, AccountAssumption DEF Due, SaveRead
    <2> QED
      BY <1>4, <2>3, <2>4 DEF SaveRead, NotSaved
  <1>5. CASE SaveFlush(r)
    <2>1. file' = req[r].image
      BY <1>1, <1>5 DEF SaveFlush, Due
    <2> QED
      BY <1>1, <1>5, <2>1 DEF SaveFlush, Due, Saved, Typed, TypeOK, RequestState
  <1> QED
    BY <1>1, <1>2, <1>3, <1>4, <1>5, EndsItself

\* A request that overlaps no other ends without a change, or with the file as
\* memory has it, or by raising over a file that an earlier overlap tore: nothing
\* can alter the file between its read, its opening and its flush, or the
\* accounts after it copied them.
THEOREM FileFollows == Spec => AloneSaves
  <1> DEFINE SInv == Typed /\ Safe /\ Saving
  <1>1. Init => SInv
    BY TypedInit, SafeInit, SavingAllIdle DEF Init
  <1>2. SInv /\ [Next]_vars => SInv'
    BY TypedNext, SafeNext, SavingNext
  <1>3. SInv /\ [Next]_vars =>
          [\A r \in Request :
             (/\ Busy(r) /\ req[r].alone
              /\ req'[r].at = "idle" /\ restarts' = restarts)
               => Refused(r) \/ Saved(r) \/ NotSaved(r)]_vars
    BY StepSaves
  <1> QED
    BY <1>1, <1>2, <1>3, PTL DEF Spec, AloneSaves
=============================================================================
