------------------------------ MODULE UserAccounts ------------------------------
(***************************************************************************)
(* User accounts: LocalDevAuthProvider (core/auth.py), the checks in front  *)
(* of every endpoint (backend/auth_deps.py) and the administration requests *)
(* of backend/routers/admin.py.                                            *)
(*                                                                         *)
(* The handlers are synchronous functions run in a pool of threads, and    *)
(* they share one dictionary of accounts and the file it is saved to.  One *)
(* step of a request is its check, its change of the dictionary, or one    *)
(* access to the file; steps of different requests interleave.             *)
(*                                                                         *)
(* Abstractions.  Passwords are right and tokens authentic.  Counting the  *)
(* administrators and copying the dictionary into a YAML text are one step *)
(* each.  The text of a file is flushed when the file is closed.           *)
(***************************************************************************)
EXTENDS Naturals, FiniteSets

CONSTANTS
  User,         \* user names
  Role,         \* roles of core/auth.py: only ADMIN opens the administration
  Request,      \* handler threads
  Absent,       \* the role of a name without an account
  Empty,        \* the file between open(..., "w") and the flush
  Torn,         \* the file after a shorter text was written over a longer one
  MaxRequests,  \* bound: administration requests that are let in
  MaxRestarts   \* bound: restarts of the backend process

Accounts == [User -> Role \cup {Absent}]

\* The file: the accounts, and the top-level note kept beside them.
Image == [users : Accounts, note : BOOLEAN]

ASSUME AccountAssumption ==
  /\ IsFiniteSet(User)
  /\ "ADMIN" \in Role /\ Absent \notin Role
  /\ Empty # Torn /\ Empty \notin Image /\ Torn \notin Image

ASSUME BoundAssumption == MaxRequests \in Nat /\ MaxRestarts \in Nat

VARIABLES
  users,     \* LocalDevAuthProvider._users: the role of each account
  file,      \* config/users.yaml
  tokens,    \* users who hold a token that says ADMIN and has not expired
  req,       \* state of each administration request in flight
  served,    \* number of requests let in
  restarts   \* number of restarts of the process

vars == <<users, file, tokens, req, served, restarts>>

NoUsers == [u \in User |-> Absent]

Admins == {u \in User : users[u] = "ADMIN"}

Step == {"idle", "check", "change", "read", "open", "dump", "flush"}

RequestState == [at     : Step,
                 op     : {"create_user", "set_role", "delete_user"},
                 target : User,
                 role   : Role,      \* the role it asks for; "ADMIN" in a deletion
                 held   : BOOLEAN,   \* the record it looked up is still in the dictionary
                 image  : Image,     \* what it read from, and will write to, the file
                 alone  : BOOLEAN,   \* history: no other request was in flight with it
                 had    : BOOLEAN]   \* history: the note was in the file when it came

TypeOK ==
  /\ users \in Accounts
  /\ file \in Image \cup {Empty, Torn}
  /\ tokens \subseteq User
  /\ req \in [Request -> RequestState]
  /\ served \in Nat
  /\ restarts \in Nat

Idle == [at |-> "idle", op |-> "set_role", target |-> CHOOSE u \in User : TRUE,
         role |-> "ADMIN", held |-> FALSE, image |-> [users |-> NoUsers, note |-> FALSE],
         alone |-> FALSE, had |-> FALSE]

\* The provider has loaded the shipped file, which has an administrator.
Init ==
  /\ users \in Accounts /\ Admins # {}
  /\ file = [users |-> users, note |-> TRUE]
  /\ tokens = {}
  /\ req = [r \in Request |-> Idle]
  /\ served = 0
  /\ restarts = 0

-----------------------------------------------------------------------------
(* POST /auth/login, and the life of a token *)

\* Mutant: every account gets a token that says ADMIN.
MayAdministerAny(u) == users[u] # Absent

\* The role a token carries is the role of the account when it was issued;
\* verify_token() never looks at the account again.
MayAdminister(u) == users[u] = "ADMIN"

SignIn(u) ==
  /\ MayAdminister(u)
  /\ tokens' = tokens \cup {u}
  /\ UNCHANGED <<users, file, req, served, restarts>>

Expire(u) ==
  /\ u \in tokens
  /\ tokens' = tokens \ {u}
  /\ UNCHANGED <<users, file, req, served, restarts>>

-----------------------------------------------------------------------------
(* The administration requests *)

Busy(r) == req[r].at # "idle"

\* require_role(ADMIN) let the request in.  Deleting oneself is refused before
\* the provider is asked.
Arrive(r, op, by, target, role) ==
  /\ ~Busy(r)
  /\ by \in tokens
  /\ op = "delete_user" => by # target /\ role = "ADMIN"
  /\ served < MaxRequests
  /\ served' = served + 1
  /\ req' = [q \in Request |->
       IF q = r
       THEN [Idle EXCEPT !.at = "check", !.op = op, !.target = target, !.role = role,
                         !.alone = \A p \in Request : ~Busy(p),
                         !.had = file \in Image /\ file.note]
       ELSE [req[q] EXCEPT !.alone = FALSE]]
  /\ UNCHANGED <<users, file, tokens, restarts>>

LosesAdmin(s) ==
  /\ users[s.target] = "ADMIN"
  /\ s.op = "delete_user" \/ s.role # "ADMIN"

\* Mutant: the guard lets the last administrator go.
AcceptableAlways(s) ==
  IF s.op = "create_user" THEN users[s.target] = Absent ELSE users[s.target] # Absent

\* What create_user(), set_role() and delete_user() check before they change
\* anything: an account is there or not, and one administrator remains.
Acceptable(s) ==
  IF s.op = "create_user" THEN users[s.target] = Absent
  ELSE /\ users[s.target] # Absent
       /\ LosesAdmin(s) => Cardinality(Admins) > 1

Check(r) ==
  /\ req[r].at = "check"
  /\ req' = [req EXCEPT ![r] = IF Acceptable(@) THEN [@ EXCEPT !.at = "change", !.held = TRUE]
                                                ELSE Idle]
  /\ UNCHANGED <<users, file, tokens, served, restarts>>

\* The request goes on as next; whoever looked up the record of user u, which
\* leaves the dictionary, is left with a record that nobody reads.
Detaching(r, next, u) ==
  [q \in Request |->
    IF q = r THEN next
    ELSE [req[q] EXCEPT !.held = @ /\ req[q].target # u]]

\* create_user() stores a new record, also over one stored since its check;
\* set_role() changes the record it looked up; delete_user() answers 404, and
\* saves nothing, when the account went since its check.
Change(r) ==
  LET s == req[r]
      saving == [s EXCEPT !.at = "read"]
  IN /\ s.at = "change"
     /\ \/ /\ s.op = "create_user"
           /\ users' = [users EXCEPT ![s.target] = s.role]
           /\ req' = Detaching(r, saving, s.target)
        \/ /\ s.op = "set_role"
           /\ users' = IF s.held THEN [users EXCEPT ![s.target] = s.role] ELSE users
           /\ req' = [req EXCEPT ![r] = saving]
        \/ /\ s.op = "delete_user"
           /\ users' = [users EXCEPT ![s.target] = Absent]
           /\ req' = Detaching(r, IF users[s.target] = Absent THEN Idle ELSE saving, s.target)
     /\ UNCHANGED <<file, tokens, served, restarts>>

-----------------------------------------------------------------------------
(* _save_users(): read the file, open it for writing, dump, close *)

\* Mutant: the file is not read, so what stood beside the accounts is dropped.
NoteReadNever(f) == {FALSE}

\* The values that the note may have in what is read: a truncated file has
\* none, a torn one may give either, or nothing.
NoteRead(f) ==
  IF f \in Image THEN {f.note} ELSE IF f = Empty THEN {FALSE} ELSE BOOLEAN

SaveRead(r) ==
  /\ req[r].at = "read"
  /\ \/ \E note \in NoteRead(file) :
          req' = [req EXCEPT ![r] = [@ EXCEPT !.at = "open", !.image.note = note]]
     \/ file = Torn /\ req' = [req EXCEPT ![r] = Idle]  \* the parser raises
  /\ UNCHANGED <<users, file, tokens, served, restarts>>

SaveOpen(r) ==
  /\ req[r].at = "open"
  /\ file' = Empty
  /\ req' = [req EXCEPT ![r] = [@ EXCEPT !.at = "dump"]]
  /\ UNCHANGED <<users, tokens, served, restarts>>

SaveDump(r) ==
  /\ req[r].at = "dump"
  /\ req' = [req EXCEPT ![r] = [@ EXCEPT !.at = "flush", !.image.users = users]]
  /\ UNCHANGED <<users, file, tokens, served, restarts>>

\* The text goes to the start of the file.  Over a text that another request
\* flushed since the file was opened, the end of a longer one stays.
SaveFlush(r) ==
  /\ req[r].at = "flush"
  /\ \/ file' = req[r].image
     \/ file # Empty /\ file' = Torn
  /\ req' = [req EXCEPT ![r] = Idle]
  /\ UNCHANGED <<users, tokens, served, restarts>>

-----------------------------------------------------------------------------
\* What _load_users() may find: no accounts in a truncated file, and nobody
\* knows what in a torn one.
Loads(f) == IF f \in Image THEN {f.users} ELSE IF f = Empty THEN {NoUsers} ELSE Accounts

\* The process stops and starts again.  Tokens are signed, not stored: they stay.
Restart ==
  /\ restarts < MaxRestarts
  /\ restarts' = restarts + 1
  /\ users' \in Loads(file)
  /\ req' = [r \in Request |-> Idle]
  /\ UNCHANGED <<file, tokens, served>>

Continue(r) ==
  Check(r) \/ Change(r) \/ SaveRead(r) \/ SaveOpen(r) \/ SaveDump(r) \/ SaveFlush(r)

Next ==
  \/ \E u \in User : SignIn(u) \/ Expire(u)
  \/ \E r \in Request :
       \/ \E op \in {"create_user", "set_role", "delete_user"}, by, target \in User, role \in Role :
            Arrive(r, op, by, target, role)
       \/ Continue(r)
  \/ Restart

Spec == Init /\ [][Next]_vars

\* Time passes: a token that is held expires.
FairSpec == Spec /\ \A u \in User : WF_vars(Expire(u))

-----------------------------------------------------------------------------
(* Properties *)

\* A request that overlaps no other never takes the last administrator away,
\* whatever raced before it and whoever's outdated token it carries (the guards of
\* set_role() and delete_user(); overlapping requests can: each counts two).
AloneKeepsAdmin ==
  [][\A r \in Request :
       (/\ req[r].at = "change" /\ req[r].alone
        /\ users' # users /\ restarts' = restarts
        /\ Admins # {}) => Admins' # {}]_vars

\* How a request may end: nothing was changed; or the file has the accounts that
\* memory has, and the note if it was there when the request came; or the file was
\* torn already, and the change of the accounts stays in memory alone.
Refused(r) == req[r].at \in {"check", "change"} /\ UNCHANGED <<users, file>>

Saved(r) == file' \in Image /\ file'.users = users' /\ (req[r].had => file'.note)

NotSaved(r) == req[r].at = "read" /\ ~req[r].had /\ file = Torn /\ UNCHANGED <<users, file>>

\* A request that overlaps no other, and that no crash cuts short, changes nothing
\* or leaves the file with what memory has, note included; only where an overlap
\* before it tore the file does it raise with its change in memory and no file to
\* show for it (set_role() and its like change _users before _save_users() reads).
AloneSaves ==
  [][\A r \in Request :
       (/\ Busy(r) /\ req[r].alone
        /\ req'[r].at = "idle" /\ restarts' = restarts)
         => Refused(r) \/ Saved(r) \/ NotSaved(r)]_vars

\* Whoever stays without the role of an administrator ends up without a token
\* that says so: using a token does not prolong it.
RevocationTakesEffect ==
  \A u \in User : <>[](u \notin Admins) => <>[](u \notin tokens)
=============================================================================
