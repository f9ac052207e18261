----------------------------- MODULE CorrectionLoop -----------------------------
(***************************************************************************)
(* The loop of validation and correction: run_correction_loop() of         *)
(* ManagerAgent (agent/manager.py), ValidationAgent.validate_batch() and   *)
(* CorrectionAgent (agent/subagents/).                                     *)
(*                                                                         *)
(* The loop works on a copy of its rows, one iteration after another, and  *)
(* shares nothing: an iteration is one action.                             *)
(***************************************************************************)
EXTENDS BatchValidation

CONSTANTS
  Batch,         \* tables, rows to start from, keys and unique values of the target
  Valid,         \* valid texts of the columns with a registered rule
  MaxIterations  \* bound: largest max_iterations of a caller

ASSUME IterationAssumption == MaxIterations \in Nat \ {0}

\* The rows are a list of dictionaries over the table's columns, of which some are
\* required and some are the key; the keys of the target are supplied for the table
\* and for those it refers to.  The values that the target's rows have under a unique
\* constraint are those that may clash: no value of them is missing.
ASSUME BatchAssumption ==
  \A b \in Batch : /\ b.rows \in Seq([b.table.columns -> Cell])
                   /\ IsFiniteSet(b.table.columns) /\ b.table.required \subseteq b.table.columns
                   /\ ToSet(b.table.pk) \subseteq b.table.columns
                   /\ b.table.name \in DOMAIN b.stored
                   /\ \A fk \in b.table.fks : fk.parent \in DOMAIN b.stored
                   /\ \A c \in DOMAIN b.table.limit : b.table.limit[c] \in Nat
                   /\ \A cols \in b.table.unique : \A value \in b.taken[cols] :
                        \A k \in DOMAIN cols : value[k] # Null

\* A text is neither None nor empty.
ASSUME CellAssumption == Null \notin Text /\ Blank \notin Text

VARIABLES
  batch,       \* the table, the rows given, and what the target holds
  limit,       \* max_iterations
  rows,        \* working_rows
  iterations,  \* entries of the history
  outcome      \* "running", "clean" or "returned"

loopVars == <<batch, limit, rows, iterations, outcome>>

table == batch.table

-----------------------------------------------------------------------------
(* The correction agent *)

\* What a column's name says of its texts: the first test that holds.
Kind(col) ==
  LET words == ToSet(col)
  IN IF "email" \in words THEN "email"
     ELSE IF words \cap {"phone", "phn"} # {} THEN "phone"
     ELSE IF words \cap {"dt", "date"} # {} THEN "date"
     ELSE "other"

\* _propose(): at most one text.  An address or a number that is already plain is
\* proposed again; a plain date or another plain text is not.
Proposals(col, cell) ==
  IF Missing(cell) THEN {}
  ELSE IF cell.shape = "odd" \/ (cell.shape = "plain" /\ Kind(col) \in {"date", "other"}) THEN {}
  ELSE {[cell EXCEPT !.shape = "plain"]}

\* The value of an issue's column: none when the issue names several.
ValueAt(data, issue) == IF Len(issue.column) = 1 THEN data[issue.row][issue.column[1]] ELSE Null

-----------------------------------------------------------------------------
(* The loop *)

LoopInit ==
  /\ batch \in Batch
  /\ limit \in 1 .. MaxIterations
  /\ rows = batch.rows
  /\ iterations = 0
  /\ outcome = "running"

\* The loop validates without keys of the target.
LoopErrors(data) == Errors(DefaultIssues(data, table, <<>>))

\* Issues of one row and column have the same proposal.
Fixable(data) ==
  {issue \in LoopErrors(data) :
     Len(issue.column) = 1 /\ Proposals(issue.column[1], ValueAt(data, issue)) # {}}

\* Mutant: a value is corrected wherever the column has it.
CorrectedEverywhere(data) ==
  [i \in DOMAIN data |->
     [c \in DOMAIN data[i] |->
        IF \E issue \in Fixable(data) : issue.column = <<c>> /\ data[issue.row][c] = data[i][c]
        THEN CHOOSE cell \in Proposals(c, data[i][c]) : TRUE ELSE data[i][c]]]

Corrected(data) ==
  [i \in DOMAIN data |->
     [c \in DOMAIN data[i] |->
        IF \E issue \in Fixable(data) : issue.row = i /\ issue.column = <<c>>
        THEN CHOOSE cell \in Proposals(c, data[i][c]) : TRUE ELSE data[i][c]]]

\* Mutant: rows whose errors were all corrected are taken for clean.
OutcomeTrusting(data, last) ==
  IF Fixable(data) = LoopErrors(data) THEN "clean"
  ELSE IF Fixable(data) = {} \/ last THEN "returned" ELSE "running"

Outcome(data, last) ==
  IF LoopErrors(data) = {} THEN "clean"
  ELSE IF Fixable(data) = {} \/ last THEN "returned" ELSE "running"

Iterate ==
  /\ outcome = "running"
  /\ rows' = Corrected(rows)
  /\ iterations' = iterations + 1
  /\ outcome' = Outcome(rows, iterations' = limit)
  /\ UNCHANGED <<batch, limit>>

LoopDone == outcome # "running" /\ UNCHANGED loopVars

LoopNext == Iterate \/ LoopDone

LoopSpec == LoopInit /\ [][LoopNext]_loopVars

-----------------------------------------------------------------------------
(* Properties *)

\* The loop's verdict is exact when it may iterate twice: rows that it returns as
\* clean have no error, and rows that it hands back have one.  The first iteration
\* leaves nothing to correct, although a correction may make a later row the
\* duplicate; so the last correction is always validated.
VerdictExact ==
  (outcome # "running" /\ limit > 1) => (outcome = "clean" <=> LoopErrors(rows) = {})

\* No iteration makes more errors than it corrects.
NeverWorse ==
  [][Cardinality(LoopErrors(rows')) <= Cardinality(LoopErrors(rows))]_loopVars

\* No row has a value that a unique constraint finds in the target already.
UniqueValuesNew ==
  \A cols \in table.unique, i \in DOMAIN rows : Columns(rows[i], cols) \notin batch.taken[cols]

\* What a valid verdict is worth, with the keys of the target supplied: the target
\* accepts the rows exactly when there is no warning of a length either, and no
\* unique value that it holds already.  For a text that is too long LengthRule only
\* warns, and UniqueRule never looks outside the batch; nothing else is missed.
ValidatedLoads ==
  IsValid(Issues(rows, table, batch.stored, Valid)) =>
    (Loads(rows, table, batch.stored, batch.taken) <=> LengthRule(rows, table) = {} /\ UniqueValuesNew)
=============================================================================
