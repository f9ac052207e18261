------------------------------ MODULE QualityProofs ------------------------------
(***************************************************************************)
(* Theorems about the validation and the correction of batches             *)
(* (CorrectionLoop) and about MaskingPolicies, for any tables, rows, keys, *)
(* rules, values and requests.                                             *)
(***************************************************************************)
EXTENDS CorrectionLoop, MaskingPolicies, FiniteSetTheorems, SequenceTheorems,
        WellFoundedInduction, TLAPS

-----------------------------------------------------------------------------
(* Validation: rows without errors load *)

\* An issue that the engine counts as an error is absent from a valid batch.
LEMMA NoError ==
  ASSUME NEW issues, IsValid(issues), NEW rule, rule # "length", NEW i, NEW cols
  PROVE  Issue(rule, i, cols) \notin issues
  BY DEF IsValid, Errors, Issue

LEMMA RequiredPresent ==
  ASSUME NEW data, NEW t, NEW existing, NEW valid, IsValid(Issues(data, t, existing, valid)),
         NEW i \in DOMAIN data, NEW c \in t.required
  PROVE  data[i][c] # Null
  <1> SUFFICES ASSUME Missing(data[i][c]) PROVE FALSE
    BY DEF Missing
  <1>1. Issue("not_null", i, <<c>>) \in NotNullRule(data, t)
    <2>1. <<i, c>> \in {x \in (DOMAIN data) \X t.required : Missing(data[x[1]][x[2]])}
      OBVIOUS
    <2> QED
      BY <2>1 DEF NotNullRule
  <1>2. Issue("not_null", i, <<c>>) \in Issues(data, t, existing, valid)
    BY <1>1 DEF Issues, DefaultIssues
  <1> QED
    BY <1>2, NoError

LEMMA KeysFresh ==
  ASSUME NEW data, NEW t, NEW existing, NEW valid, IsValid(Issues(data, t, existing, valid)),
         t.pk # <<>>, t.name \in DOMAIN existing, NEW i \in DOMAIN data
  PROVE  /\ \A k \in DOMAIN t.pk : Columns(data[i], t.pk)[k] # Null
         /\ Columns(data[i], t.pk) \notin existing[t.name]
         /\ \A j \in 1 .. i - 1 : Columns(data[j], t.pk) # Columns(data[i], t.pk)
  <1> DEFINE key(n) == Columns(data[n], t.pk)
             incomplete == {n \in DOMAIN data : \E k \in DOMAIN t.pk : Missing(key(n)[k])}
             repeated == {n \in (DOMAIN data) \ incomplete : \E j \in 1 .. n - 1 : key(j) = key(n)}
             taken == {n \in (DOMAIN data) \ incomplete : key(n) \in Known(existing, t.name)}
             wrong == incomplete \cup repeated \cup taken
  <1>1. i \notin wrong
    <2> SUFFICES ASSUME i \in wrong PROVE FALSE
      OBVIOUS
    <2>1. PrimaryKeyRule(data, t, existing) = {Issue("primary_key", n, t.pk) : n \in wrong}
      BY DEF PrimaryKeyRule
    <2>2. Issue("primary_key", i, t.pk) \in PrimaryKeyRule(data, t, existing)
      <3> HIDE DEF wrong
      <3> QED
        BY <2>1
    <2>3. Issue("primary_key", i, t.pk) \in Issues(data, t, existing, valid)
      BY <2>2 DEF Issues, DefaultIssues
    <2> QED
      BY <2>3, NoError
  <1>2. i \notin incomplete
    BY <1>1
  <1>3. \A k \in DOMAIN t.pk : key(i)[k] # Null
    BY <1>2 DEF Missing
  <1>4. key(i) \notin existing[t.name] /\ \A j \in 1 .. i - 1 : key(j) # key(i)
    BY <1>1, <1>2 DEF Known
  <1> QED
    BY <1>3, <1>4

LEMMA UniqueApart ==
  ASSUME NEW data, NEW t, NEW existing, NEW valid, IsValid(Issues(data, t, existing, valid)),
         NEW cols \in t.unique, NEW i \in DOMAIN data, NEW j \in 1 .. i - 1
  PROVE  Columns(data[j], cols) # Columns(data[i], cols)
  <1> SUFFICES ASSUME Columns(data[j], cols) = Columns(data[i], cols) PROVE FALSE
    OBVIOUS
  <1>1. Issue("unique", i, cols) \in UniqueRule(data, cols)
    BY DEF UniqueRule
  <1>2. Issue("unique", i, cols) \in Issues(data, t, existing, valid)
    BY <1>1 DEF Issues
  <1> QED
    BY <1>2, NoError

LEMMA ReferencesFound ==
  ASSUME NEW data, NEW t, NEW existing, NEW valid, IsValid(Issues(data, t, existing, valid)),
         NEW fk \in t.fks, fk.parent \in DOMAIN existing, NEW i \in DOMAIN data,
         \A k \in DOMAIN fk.child : data[i][fk.child[k]] # Null
  PROVE  Columns(data[i], fk.child) \in existing[fk.parent]
  <1> SUFFICES ASSUME Columns(data[i], fk.child) \notin existing[fk.parent] PROVE FALSE
    OBVIOUS
  <1>1. Issue("foreign_key", i, fk.child) \in ForeignKeyRule(data, t, existing)
    BY DEF ForeignKeyRule
  <1>2. Issue("foreign_key", i, fk.child) \in Issues(data, t, existing, valid)
    BY <1>1 DEF Issues, DefaultIssues
  <1> QED
    BY <1>2, NoError

\* No text is longer than its column.
Fits(data, t) ==
  \A i \in DOMAIN data, c \in DOMAIN t.limit :
    Missing(data[i][c]) \/ Size(data[i][c]) <= t.limit[c]

\* LengthRule warns of exactly the texts that do not fit.
LEMMA NoWarningFits ==
  ASSUME NEW data, NEW t, \A c \in DOMAIN t.limit : t.limit[c] \in Nat
  PROVE  LengthRule(data, t) = {} <=> Fits(data, t)
  <1>1. \A cell : Size(cell) \in Nat
    BY DEF Size
  <1>2. ASSUME LengthRule(data, t) = {}, NEW i \in DOMAIN data, NEW c \in DOMAIN t.limit,
               ~Missing(data[i][c]), Size(data[i][c]) > t.limit[c]
        PROVE  FALSE
    <2>1. <<i, c>> \in {x \in (DOMAIN data) \X (DOMAIN t.limit) :
                          /\ ~Missing(data[x[1]][x[2]])
                          /\ Size(data[x[1]][x[2]]) > t.limit[x[2]]}
      BY <1>2
    <2>2. Issue("length", i, <<c>>) \in LengthRule(data, t)
      BY <2>1 DEF LengthRule
    <2> QED
      BY <1>2, <2>2
  <1>3. ASSUME NEW issue \in LengthRule(data, t)
        PROVE  ~Fits(data, t)
    <2>1. PICK x \in (DOMAIN data) \X (DOMAIN t.limit) :
            ~Missing(data[x[1]][x[2]]) /\ Size(data[x[1]][x[2]]) > t.limit[x[2]]
      BY DEF LengthRule
    <2> QED
      BY <2>1, <1>1 DEF Fits
  <1>4. ASSUME LengthRule(data, t) = {} PROVE Fits(data, t)
    BY <1>1, <1>2, <1>4 DEF Fits
  <1> QED
    BY <1>3, <1>4

\* The errors are strict enough for the database, whatever the rows are, but for
\* texts that are too long and unique values that it holds already.
LEMMA ValidLoads ==
  ASSUME NEW data, NEW t, NEW existing, NEW valid, NEW taken, DOMAIN data \subseteq Nat \ {0},
         t.name \in DOMAIN existing, \A fk \in t.fks : fk.parent \in DOMAIN existing,
         IsValid(Issues(data, t, existing, valid)), Fits(data, t),
         \A cols \in t.unique, i \in DOMAIN data : Columns(data[i], cols) \notin taken[cols]
  PROVE  Loads(data, t, existing, taken)
  <1>1. \A i \in DOMAIN data, c \in t.required : data[i][c] # Null
    BY RequiredPresent
  <1>2. ASSUME t.pk # <<>>, NEW i \in DOMAIN data
        PROVE  LET key == Columns(data[i], t.pk)
               IN /\ \A k \in DOMAIN key : key[k] # Null
                  /\ key \notin existing[t.name]
                  /\ \A j \in 1 .. i - 1 : Columns(data[j], t.pk) # key
    <2>1. DOMAIN Columns(data[i], t.pk) = DOMAIN t.pk
      BY DEF Columns
    <2> QED
      BY <2>1, <1>2, KeysFresh
  <1>3. ASSUME NEW cols \in t.unique, NEW i \in DOMAIN data, NEW j \in DOMAIN data, j < i
        PROVE  Columns(data[i], cols) # Columns(data[j], cols)
    <2>1. j \in 1 .. i - 1
      BY <1>3
    <2> QED
      BY <2>1, UniqueApart
  <1>4. \A fk \in t.fks, i \in DOMAIN data :
          \/ \E k \in DOMAIN fk.child : data[i][fk.child[k]] = Null
          \/ Columns(data[i], fk.child) \in existing[fk.parent]
    BY ReferencesFound
  <1> QED
    BY <1>1, <1>2, <1>3, <1>4 DEF Loads, Fits

\* The rows of a batch stay a sequence while they are corrected.
BatchInv == batch \in Batch /\ DOMAIN rows \subseteq Nat \ {0}

LEMMA BatchInvInit == LoopInit => BatchInv
  <1> SUFFICES ASSUME LoopInit PROVE DOMAIN rows \subseteq Nat \ {0}
    BY DEF LoopInit, BatchInv
  <1>1. rows \in Seq([batch.table.columns -> Cell])
    BY BatchAssumption DEF LoopInit
  <1> QED
    BY <1>1, LenProperties

LEMMA BatchInvNext == BatchInv /\ [LoopNext]_loopVars => BatchInv'
  BY DEF BatchInv, LoopNext, Iterate, LoopDone, Corrected, loopVars

LEMMA BatchInvLoads == BatchInv => ValidatedLoads
  <1> SUFFICES ASSUME BatchInv, IsValid(Issues(rows, table, batch.stored, Valid))
               PROVE  Loads(rows, table, batch.stored, batch.taken)
                        <=> LengthRule(rows, table) = {} /\ UniqueValuesNew
    BY DEF ValidatedLoads
  <1>1. LengthRule(rows, table) = {} <=> Fits(rows, table)
    <2>1. \A c \in DOMAIN table.limit : table.limit[c] \in Nat
      BY BatchAssumption DEF BatchInv, table
    <2> QED
      BY <2>1, NoWarningFits
  <1>2. ASSUME Loads(rows, table, batch.stored, batch.taken)
        PROVE  Fits(rows, table) /\ UniqueValuesNew
    BY <1>2 DEF Loads, Fits, UniqueValuesNew
  <1>3. ASSUME Fits(rows, table), UniqueValuesNew
        PROVE  Loads(rows, table, batch.stored, batch.taken)
    <2>1. /\ table.name \in DOMAIN batch.stored
          /\ \A fk \in table.fks : fk.parent \in DOMAIN batch.stored
      BY BatchAssumption DEF BatchInv, table
    <2> QED
      BY <1>3, <2>1, ValidLoads DEF BatchInv, UniqueValuesNew
  <1> QED
    BY <1>1, <1>2, <1>3

\* Rows that validation passes, with the keys of the target supplied, load exactly
\* when no length is warned of and no unique value is in the target already:
\* not_null, primary_key, unique and foreign_key leave nothing else for the
\* database to refuse, for every table and every batch.
THEOREM ValidRowsLoad == LoopSpec => []ValidatedLoads
  BY BatchInvInit, BatchInvNext, BatchInvLoads, PTL DEF LoopSpec

-----------------------------------------------------------------------------
(* Correction: the errors of a batch, and what an iteration makes of it *)

\* A list of dictionaries over the columns of the table.
Tabular(data) == data \in Seq([table.columns -> Cell])

\* The row and column of each required value that is missing.
Absent(data) == {x \in (DOMAIN data) \X table.required : Missing(data[x[1]][x[2]])}

Key(data, i) == Columns(data[i], table.pk)

Incomplete(data) == {i \in DOMAIN data : \E k \in DOMAIN table.pk : Missing(Key(data, i)[k])}

\* Rows whose key a row before them has.
Repeated(data) ==
  {i \in (DOMAIN data) \ Incomplete(data) : \E j \in 1 .. i - 1 : Key(data, j) = Key(data, i)}

NoValue(x) == Issue("not_null", x[1], <<x[2]>>)

NoKey(i) == Issue("primary_key", i, table.pk)

\* The errors that the loop sees: no key of the target is supplied, a length is
\* only a warning, and a reference has nothing to be compared with.
LEMMA ErrorsAre ==
  ASSUME NEW data
  PROVE  LoopErrors(data) =
           {NoValue(x) : x \in Absent(data)} \cup
           (IF table.pk = <<>> THEN {} ELSE {NoKey(i) : i \in Incomplete(data) \cup Repeated(data)})
  <1>1. NotNullRule(data, table) = {NoValue(x) : x \in Absent(data)}
    BY DEF NotNullRule, NoValue, Absent
  <1>2. ForeignKeyRule(data, table, <<>>) = {}
    BY DEF ForeignKeyRule
  <1>3. PrimaryKeyRule(data, table, <<>>) =
          IF table.pk = <<>> THEN {} ELSE {NoKey(i) : i \in Incomplete(data) \cup Repeated(data)}
    <2>1. {i \in (DOMAIN data) \ Incomplete(data) : Key(data, i) \in Known(<<>>, table.name)} = {}
      BY DEF Known
    <2> QED
      BY <2>1 DEF PrimaryKeyRule, Incomplete, Repeated, Key, NoKey
  <1>4. \A issue \in LengthRule(data, table) : issue.severity = "warning"
    BY DEF LengthRule, Issue
  <1>5. \A x : NoValue(x).severity = "error" /\ NoKey(x).severity = "error"
    BY DEF NoValue, NoKey, Issue
  <1>6. DefaultIssues(data, table, <<>>) =
          {NoValue(x) : x \in Absent(data)} \cup LengthRule(data, table) \cup
          (IF table.pk = <<>> THEN {} ELSE {NoKey(i) : i \in Incomplete(data) \cup Repeated(data)})
    BY <1>1, <1>2, <1>3 DEF DefaultIssues
  <1>7. \A issue \in {NoValue(x) : x \in Absent(data)} : issue.severity = "error"
    BY <1>5
  <1>8. \A issue \in {NoKey(i) : i \in Incomplete(data) \cup Repeated(data)} : issue.severity = "error"
    BY <1>5
  <1> DEFINE N == {NoValue(x) : x \in Absent(data)}
             L == LengthRule(data, table)
             K == {NoKey(i) : i \in Incomplete(data) \cup Repeated(data)}
             KK == IF table.pk = <<>> THEN {} ELSE K
  <1>9. LoopErrors(data) = {issue \in N \cup L \cup KK : issue.severity = "error"}
    BY <1>6 DEF LoopErrors, Errors
  <1> HIDE DEF N, L, K
  <1>10. /\ \A issue \in N : issue.severity = "error"
         /\ \A issue \in K : issue.severity = "error"
         /\ \A issue \in L : issue.severity = "warning"
    BY <1>4, <1>7, <1>8 DEF N, K, L
  <1>11. LoopErrors(data) = N \cup KK
    BY <1>9, <1>10
  <1> QED
    BY <1>11 DEF N, K

\* The loop has a value for this cell.
Fixed(data, i, c) == \E issue \in Fixable(data) : issue.row = i /\ issue.column = <<c>>

LEMMA NewCell ==
  ASSUME NEW data, NEW i \in DOMAIN data, NEW c \in DOMAIN data[i]
  PROVE  Corrected(data)[i][c] = IF Fixed(data, i, c)
                                 THEN CHOOSE cell \in Proposals(c, data[i][c]) : TRUE ELSE data[i][c]
  BY DEF Corrected, Fixed

\* Only a cell that is itself the key, and repeats the key of a row before it, is
\* ever corrected: a missing value has no proposal.
LEMMA FixedRepeats ==
  ASSUME NEW data, NEW i, NEW c, Fixed(data, i, c)
  PROVE  /\ table.pk = <<c>> /\ i \in Repeated(data)
         /\ ~Missing(data[i][c]) /\ Proposals(c, data[i][c]) # {}
  <1>1. PICK issue \in Fixable(data) : issue.row = i /\ issue.column = <<c>>
    BY DEF Fixed
  <1>2. issue \in LoopErrors(data) /\ Proposals(issue.column[1], ValueAt(data, issue)) # {}
    BY <1>1 DEF Fixable
  <1>3. issue.column[1] = c /\ ValueAt(data, issue) = data[i][c]
    BY <1>1 DEF ValueAt
  <1>4. Proposals(c, data[i][c]) # {} /\ ~Missing(data[i][c])
    BY <1>2, <1>3 DEF Proposals
  <1>5. ASSUME NEW x \in Absent(data), issue = NoValue(x) PROVE FALSE
    <2>1. x[1] = i /\ <<x[2]>> = <<c>>
      BY <1>1, <1>5 DEF NoValue, Issue
    <2> QED
      BY <2>1, <1>4 DEF Absent
  <1>6. PICK n \in Incomplete(data) \cup Repeated(data) : issue = NoKey(n) /\ table.pk # <<>>
    BY <1>2, <1>5, ErrorsAre
  <1>7. n = i /\ table.pk = <<c>>
    BY <1>1, <1>6 DEF NoKey, Issue
  <1>8. i \notin Incomplete(data)
    BY <1>4, <1>7 DEF Incomplete, Key, Columns
  <1> QED
    BY <1>4, <1>6, <1>7, <1>8

LEMMA RepeatsFixed ==
  ASSUME NEW data, NEW i \in Repeated(data), NEW c, table.pk = <<c>>, Proposals(c, data[i][c]) # {}
  PROVE  Fixed(data, i, c)
  <1> DEFINE issue == NoKey(i)
  <1>1. issue \in LoopErrors(data)
    <2>1. table.pk # <<>>
      OBVIOUS
    <2> QED
      BY <2>1, ErrorsAre
  <1>2. issue.row = i /\ issue.column = <<c>>
    BY DEF NoKey, Issue
  <1> HIDE DEF issue
  <1>3. Len(issue.column) = 1 /\ issue.column[1] = c /\ ValueAt(data, issue) = data[i][c]
    BY <1>2 DEF ValueAt
  <1>4. issue \in Fixable(data)
    BY <1>1, <1>3 DEF Fixable
  <1> QED
    BY <1>2, <1>4 DEF Fixed

\* The key of one column.
LEMMA KeyCell ==
  ASSUME NEW data, NEW i, NEW c, table.pk = <<c>>
  PROVE  /\ DOMAIN table.pk = {1} /\ Key(data, i)[1] = data[i][c]
         /\ \A j : Key(data, j) = Key(data, i) <=> data[j][c] = data[i][c]
  <1>1. DOMAIN table.pk = {1} /\ table.pk[1] = c
    OBVIOUS
  <1>2. \A j : Key(data, j) = [k \in {1} |-> data[j][c]]
    BY <1>1 DEF Key, Columns
  <1>3. \A j : Key(data, j)[1] = data[j][c]
    BY <1>2
  <1>4. \A j : data[j][c] = data[i][c] => Key(data, j) = Key(data, i)
    BY <1>2
  <1> QED
    BY <1>1, <1>3, <1>4

\* A row of a batch is a function of the columns of its table.
LEMMA RowsAre ==
  ASSUME NEW data, Tabular(data)
  PROVE  /\ Len(data) \in Nat /\ DOMAIN data = 1 .. Len(data)
         /\ \A i \in DOMAIN data : data[i] \in [table.columns -> Cell]
  BY LenProperties DEF Tabular

\* The texts that the agent writes.
PlainText == {cell \in Text : cell.shape = "plain"}

LEMMA TextKept ==
  ASSUME NEW cell \in Text
  PROVE  [cell EXCEPT !.shape = "plain"] \in PlainText
  BY DEF Text, PlainText

LEMMA CellKept ==
  ASSUME NEW data, Tabular(data), NEW i \in DOMAIN data, NEW c \in table.columns, ~Fixed(data, i, c)
  PROVE  Corrected(data)[i][c] = data[i][c]
  <1>1. c \in DOMAIN data[i]
    BY RowsAre
  <1> QED
    BY <1>1, NewCell

\* A corrected cell is the plain spelling of the text that was there.
LEMMA CellCorrected ==
  ASSUME NEW data, Tabular(data), NEW i \in DOMAIN data, NEW c \in table.columns, Fixed(data, i, c)
  PROVE  /\ data[i][c] \in Text /\ data[i][c].shape # "odd"
         /\ Corrected(data)[i][c] = [data[i][c] EXCEPT !.shape = "plain"]
         /\ Corrected(data)[i][c] \in PlainText
  <1>1. c \in DOMAIN data[i] /\ data[i][c] \in Cell
    BY RowsAre
  <1>2. Corrected(data)[i][c] = CHOOSE cell \in Proposals(c, data[i][c]) : TRUE
    BY <1>1, NewCell
  <1>3. ~Missing(data[i][c]) /\ Proposals(c, data[i][c]) # {}
    BY FixedRepeats
  <1>4. /\ data[i][c] \in Text /\ data[i][c].shape # "odd"
        /\ Proposals(c, data[i][c]) = {[data[i][c] EXCEPT !.shape = "plain"]}
    BY <1>1, <1>3 DEF Proposals, Missing, Cell
  <1>5. \A x : (CHOOSE cell \in {x} : TRUE) = x
    OBVIOUS
  <1>6. Corrected(data)[i][c] = [data[i][c] EXCEPT !.shape = "plain"]
    BY <1>2, <1>4, <1>5
  <1>7. Corrected(data)[i][c] \in PlainText
    <2> DEFINE cell == data[i][c]
    <2>1. cell \in Text
      BY <1>4
    <2> HIDE DEF cell
    <2>2. [cell EXCEPT !.shape = "plain"] \in PlainText
      BY <2>1, TextKept
    <2> QED
      BY <1>6, <2>2 DEF cell
  <1> QED
    BY <1>4, <1>6, <1>7

LEMMA CorrectedRows ==
  ASSUME NEW data
  PROVE  /\ DOMAIN Corrected(data) = DOMAIN data
         /\ \A i \in DOMAIN data : /\ DOMAIN Corrected(data)[i] = DOMAIN data[i]
                                   /\ Corrected(data)[i] = [c \in DOMAIN data[i] |-> Corrected(data)[i][c]]
  BY DEF Corrected

LEMMA StaysTabular ==
  ASSUME NEW data, Tabular(data)
  PROVE  Tabular(Corrected(data)) /\ DOMAIN Corrected(data) = DOMAIN data
  <1>1. ASSUME NEW i \in DOMAIN data, NEW c \in table.columns
        PROVE  Corrected(data)[i][c] \in Cell
    <2>1. data[i][c] \in Cell
      BY RowsAre
    <2>2. CASE ~Fixed(data, i, c)
      BY <2>1, <2>2, CellKept
    <2>3. CASE Fixed(data, i, c)
      <3>1. Corrected(data)[i][c] \in PlainText
        BY <2>3, CellCorrected
      <3> QED
        BY <3>1 DEF Cell, PlainText
    <2> QED
      BY <2>2, <2>3
  <1>2. ASSUME NEW i \in DOMAIN data
        PROVE  Corrected(data)[i] \in [table.columns -> Cell]
    <2>1. DOMAIN data[i] = table.columns
      BY RowsAre
    <2> QED
      BY <1>1, <2>1, CorrectedRows
  <1>3. Corrected(data) \in [1 .. Len(data) -> [table.columns -> Cell]]
    <2>1. Corrected(data) = [i \in DOMAIN data |-> Corrected(data)[i]]
      BY DEF Corrected
    <2> QED
      BY <1>2, <2>1, RowsAre
  <1> QED
    <2>1. DOMAIN Corrected(data) = DOMAIN data /\ Len(data) \in Nat
      BY RowsAre, CorrectedRows
    <2> DEFINE S == [table.columns -> Cell]
    <2>2. Corrected(data) \in UNION {[1 .. n -> S] : n \in Nat}
      <3> HIDE DEF S
      <3>1. Corrected(data) \in [1 .. Len(data) -> S]
        BY <1>3 DEF S
      <3> QED
        BY <2>1, <3>1
    <2>3. Corrected(data) \in Seq(S)
      <3> HIDE DEF S
      <3> QED
        BY <2>2, SeqDef
    <2> QED
      BY <2>1, <2>3 DEF Tabular

\* Missing values stay missing, and no other value becomes missing.
LEMMA MissingStays ==
  ASSUME NEW data, Tabular(data), NEW i \in DOMAIN data, NEW c \in table.columns
  PROVE  Missing(Corrected(data)[i][c]) <=> Missing(data[i][c])
  <1>1. CASE ~Fixed(data, i, c)
    <2>1. Corrected(data)[i][c] = data[i][c]
      BY <1>1, CellKept
    <2> QED
      BY <2>1
  <1>2. CASE Fixed(data, i, c)
    <2>1. data[i][c] \in Text /\ Corrected(data)[i][c] \in PlainText
      BY <1>2, CellCorrected
    <2> QED
      BY <2>1, CellAssumption DEF Missing, PlainText
  <1> QED
    BY <1>1, <1>2

\* A row whose key no row before it has is left alone.
LEMMA FirstsStay ==
  ASSUME NEW data, Tabular(data), NEW i \in DOMAIN data, i \notin Repeated(data)
  PROVE  Corrected(data)[i] = data[i]
  <1>1. DOMAIN data[i] = table.columns /\ data[i] = [c \in table.columns |-> data[i][c]]
    BY RowsAre
  <1>2. ASSUME NEW c \in table.columns PROVE Corrected(data)[i][c] = data[i][c]
    <2>1. ~Fixed(data, i, c)
      BY FixedRepeats
    <2> QED
      BY <2>1, CellKept
  <1> QED
    BY <1>1, <1>2, CorrectedRows

\* A second iteration finds nothing to correct that the first one left: what repeats
\* a loose text is loose itself, and was there before.
LEMMA CorrectedOnce ==
  ASSUME NEW data, Tabular(data)
  PROVE  Corrected(Corrected(data)) = Corrected(data)
  <1> DEFINE new == Corrected(data)
  <1>1. Tabular(new) /\ DOMAIN new = DOMAIN data
    BY StaysTabular
  <1>2. ASSUME NEW i \in DOMAIN data, NEW c \in table.columns, Fixed(data, i, c)
        PROVE  new[i][c] \in PlainText
    BY <1>2, CellCorrected
  <1> HIDE DEF new
  <1>3. ASSUME NEW i \in DOMAIN new, NEW c \in table.columns
        PROVE  Corrected(new)[i][c] = new[i][c]
    <2> SUFFICES ASSUME Fixed(new, i, c) PROVE Corrected(new)[i][c] = new[i][c]
      BY <1>1, CellKept
    <2>1. /\ new[i][c] \in Text /\ new[i][c].shape # "odd"
          /\ Corrected(new)[i][c] = [new[i][c] EXCEPT !.shape = "plain"]
      BY <1>1, CellCorrected
    <2>2. CASE new[i][c].shape = "plain"
      <3>1. [new[i][c] EXCEPT !.shape = "plain"] = new[i][c]
        BY <2>1, <2>2 DEF Text
      <3> QED
        BY <2>1, <3>1
    <2>3. CASE new[i][c].shape = "loose"
      <3>1. table.pk = <<c>> /\ i \in Repeated(new)
        BY FixedRepeats
      <3>2. PICK j \in 1 .. i - 1 : Key(new, j) = Key(new, i)
        BY <3>1 DEF Repeated
      <3>3. j \in DOMAIN new /\ j \in DOMAIN data /\ i \in DOMAIN data
        BY <1>1, RowsAre
      <3>4. new[j][c] = new[i][c]
        BY <3>1, <3>2, KeyCell
      <3>5. \A n \in {i, j} : data[n][c] = new[n][c]
        <4> SUFFICES ASSUME NEW n \in {i, j} PROVE data[n][c] = new[n][c]
          OBVIOUS
        <4>1. new[n][c].shape = "loose"
          BY <2>3, <3>4
        <4>2. n \in DOMAIN data
          BY <3>3
        <4>3. ASSUME Fixed(data, n, c) PROVE FALSE
          <5>1. new[n][c] \in PlainText
            BY <1>2, <4>2, <4>3
          <5> QED
            BY <4>1, <5>1 DEF PlainText
        <4> QED
          BY <4>2, <4>3, CellKept DEF new
      <3>6. Key(data, j) = Key(data, i) /\ Proposals(c, data[i][c]) # {}
        <4>1. Key(data, j) = Key(data, i)
          BY <3>1, <3>4, <3>5, KeyCell
        <4>2. data[i][c] \in Text /\ data[i][c].shape = "loose"
          BY <2>1, <2>3, <3>5
        <4> QED
          BY <4>1, <4>2, CellAssumption DEF Proposals, Missing
      <3>7. ~Missing(data[i][c])
        BY <2>1, <3>5, CellAssumption DEF Missing
      <3>8. i \in Repeated(data)
        BY <3>1, <3>2, <3>3, <3>6, <3>7, KeyCell DEF Repeated, Incomplete
      <3>9. Fixed(data, i, c)
        BY <3>1, <3>6, <3>8, RepeatsFixed
      <3> QED
        <4>1. new[i][c] \in PlainText
          BY <1>2, <3>3, <3>9
        <4> QED
          BY <2>3, <4>1 DEF PlainText
    <2> QED
      BY <2>1, <2>2, <2>3 DEF Text
  <1>4. ASSUME NEW i \in DOMAIN new PROVE Corrected(new)[i] = new[i]
    <2>1. DOMAIN new[i] = table.columns /\ new[i] = [c \in table.columns |-> new[i][c]]
      BY <1>1, RowsAre
    <2> QED
      BY <1>3, <2>1, CorrectedRows
  <1>5. Corrected(new) = [i \in DOMAIN new |-> Corrected(new)[i]]
    BY DEF Corrected
  <1>6. new = [i \in DOMAIN new |-> new[i]]
    BY <1>1 DEF new, Corrected
  <1> QED
    BY <1>4, <1>5, <1>6 DEF new

-----------------------------------------------------------------------------
(* Correction: the verdict *)

\* After the first iteration nothing is left to correct.
LoopInv ==
  /\ batch \in Batch /\ limit \in 1 .. MaxIterations /\ iterations \in 0 .. limit
  /\ outcome \in {"running", "clean", "returned"}
  /\ Tabular(rows)
  /\ iterations > 0 => Corrected(rows) = rows
  /\ outcome = "running" => iterations < limit
  /\ outcome = "clean" => LoopErrors(rows) = {}
  /\ (outcome = "returned" /\ limit > 1) => LoopErrors(rows) # {}

LEMMA LoopInvInit == LoopInit => LoopInv
  BY BatchAssumption, IterationAssumption DEF LoopInit, LoopInv, Tabular, table

\* Without an error that has a proposal, the rows stay as they are.
LEMMA NothingFixable ==
  ASSUME NEW data, Tabular(data), Fixable(data) = {}
  PROVE  Corrected(data) = data
  <1>1. \A i \in DOMAIN data : Corrected(data)[i] = data[i]
    <2> SUFFICES ASSUME NEW i \in DOMAIN data PROVE Corrected(data)[i] = data[i]
      OBVIOUS
    <2>1. DOMAIN data[i] = table.columns /\ data[i] = [c \in table.columns |-> data[i][c]]
      BY RowsAre
    <2>2. ASSUME NEW c \in table.columns PROVE Corrected(data)[i][c] = data[i][c]
      <3>1. ~Fixed(data, i, c)
        BY DEF Fixed
      <3> QED
        BY <3>1, CellKept
    <2> QED
      BY <2>1, <2>2, CorrectedRows
  <1>2. Corrected(data) = [i \in DOMAIN data |-> Corrected(data)[i]]
    BY DEF Corrected
  <1>3. data = [i \in DOMAIN data |-> data[i]]
    <2>1. data \in [1 .. Len(data) -> [table.columns -> Cell]]
      BY LenProperties DEF Tabular
    <2> QED
      BY <2>1
  <1> QED
    BY <1>1, <1>2, <1>3

LEMMA IterateInv == LoopInv /\ Iterate => LoopInv'
  <1> SUFFICES ASSUME LoopInv, Iterate PROVE LoopInv'
    OBVIOUS
  <1>1. /\ batch' = batch /\ limit' = limit /\ iterations' = iterations + 1
        /\ rows' = Corrected(rows) /\ outcome' = Outcome(rows, iterations' = limit)
        /\ outcome = "running"
    BY DEF Iterate
  <1>2. limit \in Nat /\ iterations \in 0 .. limit /\ iterations < limit
    BY <1>1, IterationAssumption DEF LoopInv
  <1>3. batch' \in Batch /\ limit' \in 1 .. MaxIterations /\ iterations' \in 0 .. limit'
    BY <1>1, <1>2 DEF LoopInv
  <1>4. Tabular(rows)
    BY DEF LoopInv
  <1>5. Tabular(rows)'
    BY <1>1, <1>4, StaysTabular DEF Tabular, table
  <1>6. Corrected(rows)' = Corrected(rows')
    BY <1>1 DEF Corrected, Fixable, LoopErrors, table
  <1>7. LoopErrors(rows)' = LoopErrors(rows')
    BY <1>1 DEF LoopErrors, table
  <1>8. Corrected(rows)' = rows'
    BY <1>1, <1>4, <1>6, CorrectedOnce
  <1>9. outcome' \in {"running", "clean", "returned"}
    BY <1>1 DEF Outcome
  <1>10. CASE LoopErrors(rows) = {}
    <2>1. outcome' = "clean"
      BY <1>1, <1>10 DEF Outcome
    <2>2. rows' = rows
      BY <1>1, <1>4, <1>10, NothingFixable DEF Fixable
    <2>3. LoopErrors(rows)' = {}
      BY <1>7, <1>10, <2>2
    <2> QED
      BY <1>3, <1>5, <1>8, <1>9, <2>1, <2>3 DEF LoopInv
  <1>11. CASE LoopErrors(rows) # {} /\ Fixable(rows) = {}
    <2>1. outcome' = "returned"
      BY <1>1, <1>11 DEF Outcome
    <2>2. rows' = rows
      BY <1>1, <1>4, <1>11, NothingFixable
    <2>3. LoopErrors(rows)' # {}
      BY <1>7, <1>11, <2>2
    <2> QED
      BY <1>3, <1>5, <1>8, <1>9, <2>1, <2>3 DEF LoopInv
  <1>12. CASE LoopErrors(rows) # {} /\ Fixable(rows) # {} /\ iterations' = limit
    <2>1. outcome' = "returned"
      BY <1>1, <1>12 DEF Outcome
    <2>2. limit' > 1 => LoopErrors(rows)' # {}
      <3> SUFFICES ASSUME limit' > 1 PROVE LoopErrors(rows)' # {}
        OBVIOUS
      <3>1. iterations > 0
        BY <1>1, <1>2, <1>12
      <3>2. rows' = rows
        BY <1>1, <3>1 DEF LoopInv
      <3> QED
        BY <1>7, <1>12, <3>2
    <2> QED
      BY <1>3, <1>5, <1>8, <1>9, <2>1, <2>2 DEF LoopInv
  <1>13. CASE LoopErrors(rows) # {} /\ Fixable(rows) # {} /\ iterations' # limit
    <2>1. outcome' = "running"
      BY <1>1, <1>13 DEF Outcome
    <2>2. iterations' < limit'
      BY <1>1, <1>2, <1>13
    <2> QED
      BY <1>3, <1>5, <1>8, <1>9, <2>1, <2>2 DEF LoopInv
  <1> QED
    BY <1>10, <1>11, <1>12, <1>13

LEMMA LoopInvNext == LoopInv /\ [LoopNext]_loopVars => LoopInv'
  <1> SUFFICES ASSUME LoopInv, UNCHANGED loopVars PROVE LoopInv'
    BY IterateInv DEF LoopNext, LoopDone
  <1>1. batch' = batch /\ limit' = limit /\ rows' = rows /\ iterations' = iterations /\ outcome' = outcome
    BY DEF loopVars
  <1>2. Tabular(rows)' = Tabular(rows) /\ LoopErrors(rows)' = LoopErrors(rows)
        /\ Corrected(rows)' = Corrected(rows)
    BY <1>1 DEF Tabular, Corrected, Fixable, LoopErrors, table
  <1> QED
    BY <1>1, <1>2 DEF LoopInv

LEMMA LoopInvVerdict == LoopInv => VerdictExact
  BY DEF LoopInv, VerdictExact

\* What the loop says of its rows is so, for every table, every batch and every
\* limit above one: the first iteration corrects all that can be corrected, and
\* the second one validates it.
THEOREM VerdictIsExact == LoopSpec => []VerdictExact
  BY LoopInvInit, LoopInvNext, LoopInvVerdict, PTL DEF LoopSpec

-----------------------------------------------------------------------------
(* Correction: no iteration makes the rows worse *)

\* A set of naturals has a least element.
LEMMA Least ==
  ASSUME NEW S \in SUBSET Nat, S # {}
  PROVE  \E x \in S : \A y \in S : x <= y
  <1> DEFINE Less == OpToRel(<, Nat)
  <1>1. IsWellFoundedOn(Less, Nat)
    BY NatLessThanWellFounded
  <1>2. \A x \in Nat, y \in Nat : <<y, x>> \in Less <=> y < x
    BY DEF OpToRel
  <1> HIDE DEF Less
  <1>3. PICK x \in S : \A y \in S : ~ (<<y, x>> \in Less)
    BY <1>1, WFMin
  <1>4. ASSUME NEW y \in S PROVE x <= y
    <2>1. x \in Nat /\ y \in Nat
      OBVIOUS
    <2>2. ~(y < x)
      BY <1>2, <1>3, <2>1
    <2> QED
      BY <2>1, <2>2
  <1> QED
    BY <1>4

LEMMA ErrorsFinite ==
  ASSUME NEW data, Tabular(data), batch \in Batch
  PROVE  IsFiniteSet(LoopErrors(data))
  <1>1. IsFiniteSet(DOMAIN data)
    <2>1. Len(data) \in Int /\ DOMAIN data = 1 .. Len(data)
      BY RowsAre
    <2>2. IsFiniteSet(1 .. Len(data))
      BY <2>1, FS_Interval
    <2> QED
      BY <2>1, <2>2
  <1>2. IsFiniteSet(table.required)
    BY BatchAssumption, FS_Subset DEF table
  <1>3. IsFiniteSet(Absent(data))
    <2>1. IsFiniteSet((DOMAIN data) \X table.required)
      BY <1>1, <1>2, FS_Product
    <2> QED
      BY <2>1, FS_Subset DEF Absent
  <1>4. IsFiniteSet({NoValue(x) : x \in Absent(data)})
    <2> DEFINE T == {NoValue(x) : x \in Absent(data)}
               f == [x \in Absent(data) |-> NoValue(x)]
    <2>1. f \in Surjection(Absent(data), T)
      BY DEF Surjection
    <2> HIDE DEF f, T
    <2>2. IsFiniteSet(T)
      BY <1>3, <2>1, FS_Surjection
    <2> QED
      BY <2>2 DEF T
  <1>5. IsFiniteSet(Incomplete(data) \cup Repeated(data))
    BY <1>1, FS_Subset DEF Incomplete, Repeated
  <1>6. IsFiniteSet({NoKey(i) : i \in Incomplete(data) \cup Repeated(data)})
    <2> DEFINE S == Incomplete(data) \cup Repeated(data)
               T == {NoKey(i) : i \in S}
               f == [i \in S |-> NoKey(i)]
    <2>1. f \in Surjection(S, T)
      BY DEF Surjection
    <2> HIDE DEF f, T
    <2>2. IsFiniteSet(T)
      BY <1>5, <2>1, FS_Surjection
    <2> QED
      BY <2>2 DEF T
  <1>7. IsFiniteSet(IF table.pk = <<>> THEN {}
                    ELSE {NoKey(i) : i \in Incomplete(data) \cup Repeated(data)})
    BY <1>6, FS_EmptySet
  <1> QED
    BY <1>4, <1>7, ErrorsAre, FS_Union

\* A correction neither supplies a value nor takes one away.
LEMMA AbsentStay ==
  ASSUME NEW data, Tabular(data), batch \in Batch
  PROVE  Absent(Corrected(data)) = Absent(data) /\ Incomplete(Corrected(data)) = Incomplete(data)
  <1> DEFINE new == Corrected(data)
  <1>1. DOMAIN new = DOMAIN data
    BY CorrectedRows
  <1>2. table.required \subseteq table.columns /\ ToSet(table.pk) \subseteq table.columns
    BY BatchAssumption DEF table
  <1>3. \A i \in DOMAIN data, c \in table.columns : Missing(new[i][c]) <=> Missing(data[i][c])
    BY MissingStays
  <1>4. \A k \in DOMAIN table.pk : table.pk[k] \in table.columns
    BY <1>2 DEF ToSet
  <1> HIDE DEF new
  <1>5. Absent(new) = Absent(data)
    BY <1>1, <1>2, <1>3 DEF Absent
  <1>6. \A i \in DOMAIN data, k \in DOMAIN table.pk :
          Missing(Key(new, i)[k]) <=> Missing(Key(data, i)[k])
    BY <1>3, <1>4 DEF Key, Columns
  <1>7. Incomplete(new) = Incomplete(data)
    BY <1>1, <1>6 DEF Incomplete
  <1> QED
    BY <1>5, <1>7 DEF new

\* A row that becomes a repetition has the new key of a row that was one and is one
\* no more: that row was corrected, and is now the first with its key.
LEMMA NewFirst ==
  ASSUME NEW data, Tabular(data), batch \in Batch,
         NEW i \in Repeated(Corrected(data)) \ Repeated(data)
  PROVE  \E j \in Repeated(data) \ Repeated(Corrected(data)) :
            Key(Corrected(data), j) = Key(Corrected(data), i)
  <1> DEFINE new == Corrected(data)
             same == {j \in DOMAIN new : Key(new, j) = Key(new, i)}
  <1>1. DOMAIN new = DOMAIN data /\ Len(data) \in Nat /\ DOMAIN data = 1 .. Len(data)
    BY CorrectedRows, RowsAre
  <1>2. i \in DOMAIN new /\ i \notin Incomplete(new)
    BY DEF Repeated
  <1>3. Incomplete(new) = Incomplete(data)
    BY AbsentStay
  <1>4. \A n \in (DOMAIN data) \ Repeated(data) : new[n] = data[n]
    BY FirstsStay
  <1>5. PICK before \in 1 .. i - 1 : Key(new, before) = Key(new, i)
    BY DEF Repeated
  <1> HIDE DEF new
  <1>6. PICK j \in same : \A y \in same : j <= y
    <2>1. i \in same /\ same \subseteq Nat
      BY <1>1, <1>2
    <2> HIDE DEF same
    <2> QED
      BY <2>1, Least
  <1>7. j \in DOMAIN data /\ Key(new, j) = Key(new, i)
    BY <1>1, <1>6
  <1>8. j < i
    <2>1. before \in same
      BY <1>1, <1>2, <1>5
    <2> QED
      BY <1>1, <1>2, <1>5, <1>6, <1>7, <2>1
  <1>9. j \notin Repeated(new)
    <2> SUFFICES ASSUME NEW n \in 1 .. j - 1, Key(new, n) = Key(new, j) PROVE FALSE
      BY DEF Repeated
    <2>1. n \in same
      BY <1>1, <1>7
    <2> QED
      BY <1>1, <1>6, <1>7, <2>1
  <1>10. j \in Repeated(data)
    <2> SUFFICES ASSUME j \notin Repeated(data) PROVE FALSE
      OBVIOUS
    <2>1. new[j] = data[j] /\ new[i] = data[i]
      BY <1>1, <1>2, <1>4, <1>7
    <2>2. Key(data, j) = Key(data, i)
      BY <1>7, <2>1 DEF Key
    <2>3. i \in (DOMAIN data) \ Incomplete(data) /\ j \in 1 .. i - 1
      BY <1>1, <1>2, <1>3, <1>7, <1>8
    <2>4. i \in Repeated(data)
      BY <2>2, <2>3 DEF Repeated
    <2> QED
      BY <2>4
  <1> QED
    BY <1>7, <1>9, <1>10 DEF new

\* Rows that become repetitions have different keys.
LEMMA NewApart ==
  ASSUME NEW data, Tabular(data), batch \in Batch,
         NEW i \in Repeated(Corrected(data)) \ Repeated(data),
         NEW n \in Repeated(Corrected(data)) \ Repeated(data),
         Key(Corrected(data), i) = Key(Corrected(data), n)
  PROVE  i = n
  <1>1. DOMAIN Corrected(data) = DOMAIN data /\ Len(data) \in Nat /\ DOMAIN data = 1 .. Len(data)
    BY CorrectedRows, RowsAre
  <1>2. /\ i \in (DOMAIN data) \ Incomplete(data)
        /\ n \in (DOMAIN data) \ Incomplete(data)
    BY <1>1, AbsentStay DEF Repeated
  <1>3. Corrected(data)[i] = data[i] /\ Corrected(data)[n] = data[n]
    BY <1>2, FirstsStay
  <1>4. Key(data, i) = Key(data, n)
    BY <1>3 DEF Key
  <1>5. ~(n < i) /\ ~(i < n)
    <2>1. ASSUME n < i PROVE FALSE
      <3>1. n \in 1 .. i - 1
        BY <1>1, <1>2, <2>1
      <3>2. i \in Repeated(data)
        BY <1>2, <1>4, <3>1 DEF Repeated
      <3> QED
        BY <3>2
    <2>2. ASSUME i < n PROVE FALSE
      <3>1. i \in 1 .. n - 1
        BY <1>1, <1>2, <2>2
      <3>2. n \in Repeated(data)
        BY <1>2, <1>4, <3>1 DEF Repeated
      <3> QED
        BY <3>2
    <2> QED
      BY <2>1, <2>2
  <1> QED
    BY <1>1, <1>2, <1>5

\* Issues of different rows are different, and a missing key is not a missing value.
LEMMA IssuesApart ==
  ASSUME NEW i
  PROVE  /\ NoKey(i).row = i
         /\ \A n : NoKey(n) = NoKey(i) => n = i
         /\ \A x : NoValue(x) # NoKey(i)
  <1>1. \A n : NoKey(n).row = n /\ NoKey(n).rule = "primary_key"
    BY DEF NoKey, Issue
  <1>2. \A x : NoValue(x).rule = "not_null"
    BY DEF NoValue, Issue
  <1> QED
    BY <1>1, <1>2

\* An error that an iteration makes is a row that becomes a repetition.
LEMMA NewErrors ==
  ASSUME NEW data, Tabular(data), batch \in Batch,
         NEW e \in LoopErrors(Corrected(data)) \ LoopErrors(data)
  PROVE  e.row \in Repeated(Corrected(data)) \ Repeated(data) /\ e = NoKey(e.row) /\ table.pk # <<>>
  <1>1. Absent(Corrected(data)) = Absent(data) /\ Incomplete(Corrected(data)) = Incomplete(data)
    BY AbsentStay
  <1>2. e \notin {NoValue(x) : x \in Absent(data)}
    BY ErrorsAre
  <1>3. LoopErrors(Corrected(data)) =
          {NoValue(x) : x \in Absent(data)} \cup
          (IF table.pk = <<>> THEN {}
           ELSE {NoKey(i) : i \in Incomplete(data) \cup Repeated(Corrected(data))})
    BY <1>1, ErrorsAre
  <1>4. PICK i \in Incomplete(data) \cup Repeated(Corrected(data)) : e = NoKey(i) /\ table.pk # <<>>
    BY <1>2, <1>3
  <1>5. i \notin Incomplete(data) \cup Repeated(data)
    BY <1>4, ErrorsAre
  <1> QED
    BY <1>4, <1>5, IssuesApart

\* The error that pays for a new one: the row that its key is now the first of.
Payer(data, e) ==
  CHOOSE j \in Repeated(data) \ Repeated(Corrected(data)) :
    Key(Corrected(data), j) = Key(Corrected(data), e.row)

LEMMA Paid ==
  ASSUME NEW data, Tabular(data), batch \in Batch,
         NEW e \in LoopErrors(Corrected(data)) \ LoopErrors(data)
  PROVE  /\ Payer(data, e) \in Repeated(data) \ Repeated(Corrected(data))
         /\ Key(Corrected(data), Payer(data, e)) = Key(Corrected(data), e.row)
         /\ NoKey(Payer(data, e)) \in LoopErrors(data) \ LoopErrors(Corrected(data))
  <1> DEFINE j == Payer(data, e)
  <1>1. e.row \in Repeated(Corrected(data)) \ Repeated(data) /\ table.pk # <<>>
    BY NewErrors
  <1>2. /\ j \in Repeated(data) \ Repeated(Corrected(data))
        /\ Key(Corrected(data), j) = Key(Corrected(data), e.row)
    BY <1>1, NewFirst DEF Payer
  <1> HIDE DEF j
  <1>3. NoKey(j) \in LoopErrors(data)
    BY <1>1, <1>2, ErrorsAre
  <1>4. j \notin Incomplete(Corrected(data)) \cup Repeated(Corrected(data))
    BY <1>2, AbsentStay DEF Repeated
  <1>5. NoKey(j) \notin LoopErrors(Corrected(data))
    BY <1>4, ErrorsAre, IssuesApart
  <1> QED
    BY <1>2, <1>3, <1>5 DEF j

LEMMA FewerErrors ==
  ASSUME NEW data, Tabular(data), batch \in Batch
  PROVE  Cardinality(LoopErrors(Corrected(data))) <= Cardinality(LoopErrors(data))
  <1> DEFINE Old == LoopErrors(data)
             New == LoopErrors(Corrected(data))
             f == [e \in New |-> IF e \in Old THEN e ELSE NoKey(Payer(data, e))]
  <1>1. \A e \in New \ Old : NoKey(Payer(data, e)) \in Old \ New
    BY Paid
  <1>2. ASSUME NEW e \in New \ Old, NEW g \in New \ Old, NoKey(Payer(data, e)) = NoKey(Payer(data, g))
        PROVE  e = g
    <2>1. Payer(data, e) = Payer(data, g)
      BY <1>2, IssuesApart
    <2>2. Key(Corrected(data), e.row) = Key(Corrected(data), g.row)
      BY <2>1, Paid
    <2>3. e.row = g.row
      BY <2>2, NewErrors, NewApart
    <2> QED
      BY <2>3, NewErrors
  <1> HIDE DEF Old, New
  <1>3. f \in [New -> Old]
    BY <1>1
  <1>4. ASSUME NEW e \in New, NEW g \in New, f[e] = f[g] PROVE e = g
    <2>1. CASE e \in Old /\ g \in Old
      BY <1>4, <2>1
    <2>2. CASE e \in Old /\ g \notin Old
      BY <1>1, <1>4, <2>2
    <2>3. CASE e \notin Old /\ g \in Old
      BY <1>1, <1>4, <2>3
    <2>4. CASE e \notin Old /\ g \notin Old
      BY <1>2, <1>4, <2>4
    <2> QED
      BY <2>1, <2>2, <2>3, <2>4
  <1>5. f \in Injection(New, Old)
    <2> HIDE DEF f
    <2> QED
      BY <1>3, <1>4 DEF Injection, IsInjective
  <1> HIDE DEF f
  <1>6. IsFiniteSet(Old)
    BY ErrorsFinite DEF Old
  <1> QED
    BY <1>5, <1>6, FS_Injection DEF Old, New

LEMMA LoopInvBetter ==
  LoopInv /\ [LoopNext]_loopVars
    => [Cardinality(LoopErrors(rows')) <= Cardinality(LoopErrors(rows))]_loopVars
  <1> SUFFICES ASSUME LoopInv, LoopNext, ~UNCHANGED loopVars
               PROVE  Cardinality(LoopErrors(rows')) <= Cardinality(LoopErrors(rows))
    OBVIOUS
  <1>1. rows' = Corrected(rows)
    BY DEF LoopNext, LoopDone, Iterate
  <1> QED
    BY <1>1, FewerErrors DEF LoopInv

\* No iteration makes more errors than it corrects, for every table and batch: a row
\* that becomes a repetition repeats a row that was one and is one no more.
THEOREM CorrectionNeverWorsens == LoopSpec => NeverWorse
  BY LoopInvInit, LoopInvNext, LoopInvBetter, PTL DEF LoopSpec, NeverWorse

-----------------------------------------------------------------------------
(* Masking: the inductive invariant *)

\* The word that the generator gives when it was seeded for this rule and value.
Word(rule, value) == <<rule.provider, <<rule.salt, value>>>>

\* The mask is what the rule makes of the value, and of nothing else.
Honest(m) ==
  /\ m.rule # NoRule
  /\ m.alone => IF m.rule.strategy = "synthetic" THEN m.out = Word(m.rule, m.value)
                ELSE m.out \in MaskOf(m.rule, m.value)

\* A request that overlaps no other finds the generator as it seeded it.
Undisturbed(r) ==
  /\ \A other \in Request : other # r => request[other] = Free
  /\ seed = <<request[r].rule.salt, request[r].value>>

Asking(s) ==
  /\ s = [column |-> s.column, rule |-> s.rule, value |-> s.value, alone |-> s.alone]
  /\ s.rule # NoRule /\ s.rule.strategy = "synthetic"

\* A mask says nothing of the rules of today: they change after cells were masked.
MaskInv ==
  /\ request = [r \in Request |-> request[r]]
  /\ \A r \in Request : request[r] # Free => Asking(request[r])
  /\ \A r \in Request : request[r] # Free /\ request[r].alone => Undisturbed(r)
  /\ \A m \in masked : Honest(m)

LEMMA MaskInvInit == MaskInit => MaskInv
  BY DEF MaskInit, MaskInv

LEMMA RulesChange ==
  ASSUME MaskInv, UNCHANGED <<seed, request, masked>>
  PROVE  MaskInv'
  BY DEF MaskInv, Undisturbed

\* One more cell is masked.
LEMMA OneMore ==
  ASSUME MaskInv, NEW column, NEW rule, NEW value, NEW out, NEW alone,
         masked' = masked \cup {Masked(column, rule, value, out, alone)},
         rule # NoRule,
         alone => IF rule.strategy = "synthetic" THEN out = Word(rule, value)
                  ELSE out \in MaskOf(rule, value)
  PROVE  \A m \in masked' : Honest(m)
  <1> DEFINE new == Masked(column, rule, value, out, alone)
  <1>1. new.rule = rule /\ new.value = value /\ new.out = out /\ new.alone = alone
    BY DEF Masked
  <1> HIDE DEF new
  <1>2. Honest(new)
    BY <1>1 DEF Honest
  <1> QED
    BY <1>2 DEF MaskInv, new

LEMMA MaskCellInv ==
  ASSUME MaskInv, NEW column \in Column, NEW value \in Datum, MaskCell(column, value)
  PROVE  MaskInv'
  <1>1. PICK out \in MaskOf(rules[column], value) :
          masked' = masked \cup {Masked(column, rules[column], value, out, TRUE)}
    BY DEF MaskCell
  <1>2. rules[column] # NoRule /\ rules[column].strategy # "synthetic"
    BY DEF MaskCell
  <1>3. \A m \in masked' : Honest(m)
    BY <1>1, <1>2, OneMore
  <1>4. UNCHANGED <<seed, request>>
    BY DEF MaskCell
  <1> QED
    BY <1>3, <1>4 DEF MaskInv, Undisturbed

LEMMA SeedGeneratorInv ==
  ASSUME MaskInv, NEW r \in Request, NEW column \in Column, NEW value \in Datum,
         SeedGenerator(r, column, value)
  PROVE  MaskInv'
  <1> DEFINE alone == \A other \in Request : request[other] = Free
             s == [column |-> column, rule |-> rules[column], value |-> value, alone |-> alone]
             after(other) == IF request[other] = Free THEN Free
                             ELSE [request[other] EXCEPT !.alone = FALSE]
  <1>1. request' = [other \in Request |-> IF other = r THEN s ELSE after(other)]
    BY DEF SeedGenerator
  <1>2. /\ s.column = column /\ s.rule = rules[column] /\ s.value = value /\ s.alone = alone
        /\ s = [column |-> s.column, rule |-> s.rule, value |-> s.value, alone |-> s.alone]
    OBVIOUS
  <1>3. rules[column] # NoRule /\ rules[column].strategy = "synthetic"
    BY DEF SeedGenerator
  <1>4. request'[r] = s /\ Asking(s)
    <2> HIDE DEF s, after
    <2> QED
      BY <1>1, <1>2, <1>3 DEF Asking
  <1>5. ASSUME NEW other \in Request, other # r, request'[other] # Free
        PROVE  Asking(request'[other]) /\ ~request'[other].alone
    <2> DEFINE t == request[other]
    <2>1. t # Free /\ request'[other] = [t EXCEPT !.alone = FALSE]
      BY <1>1, <1>5
    <2>2. Asking(t)
      BY <2>1 DEF MaskInv
    <2>3. request'[other] = [column |-> t.column, rule |-> t.rule, value |-> t.value,
                             alone |-> FALSE]
      <3> HIDE DEF t
      <3> QED
        BY <2>1, <2>2 DEF Asking
    <2> HIDE DEF t
    <2> QED
      BY <2>2, <2>3 DEF Asking
  <1>6. ASSUME s.alone
        PROVE  Undisturbed(r)'
    <2>1. alone
      BY <1>2, <1>6
    <2>2. \A other \in Request : other # r => request'[other] = Free
      BY <2>1, <1>1
    <2>3. seed' = <<s.rule.salt, s.value>>
      BY <1>2 DEF SeedGenerator
    <2> HIDE DEF s
    <2> QED
      BY <2>2, <2>3, <1>4 DEF Undisturbed
  <1>7. request' = [q \in Request |-> request'[q]]
    <2> HIDE DEF s, after
    <2> QED
      BY <1>1
  <1>8. masked' = masked
    BY DEF SeedGenerator
  <1> HIDE DEF s, alone, after
  <1> QED
    BY <1>4, <1>5, <1>6, <1>7, <1>8 DEF MaskInv

LEMMA DrawWordInv ==
  ASSUME MaskInv, NEW r \in Request, DrawWord(r)
  PROVE  MaskInv'
  <1> DEFINE s == request[r]
  <1>1. s # Free /\ Asking(s)
    BY DEF DrawWord, MaskInv
  <1>2. masked' = masked \cup {Masked(s.column, s.rule, s.value, <<s.rule.provider, seed>>, s.alone)}
    BY DEF DrawWord
  <1>3. s.alone => <<s.rule.provider, seed>> = Word(s.rule, s.value)
    BY <1>1 DEF MaskInv, Undisturbed, Word
  <1>4. \A m \in masked' : Honest(m)
    <2> HIDE DEF s
    <2> QED
      BY <1>1, <1>2, <1>3, OneMore DEF Asking
  <1>5. /\ request'[r] = Free
        /\ \A other \in Request : other # r => request'[other] = request[other]
        /\ request' = [q \in Request |-> request'[q]]
    BY DEF DrawWord, MaskInv
  <1>6. seed' = seed
    BY DEF DrawWord
  <1>7. ASSUME NEW other \in Request, request'[other] # Free, request'[other].alone
        PROVE  FALSE
    <2>1. other # r /\ request[other] # Free /\ request[other].alone
      BY <1>5, <1>7
    <2>2. request[r] = Free
      BY <2>1 DEF MaskInv, Undisturbed
    <2> QED
      BY <2>2, <1>1
  <1>8. \A other \in Request : request'[other] # Free => Asking(request'[other])
    BY <1>5 DEF MaskInv
  <1> QED
    BY <1>4, <1>5, <1>7, <1>8 DEF MaskInv

LEMMA MaskInvNext == MaskInv /\ [MaskNext]_maskVars => MaskInv'
  <1> SUFFICES ASSUME MaskInv, [MaskNext]_maskVars PROVE MaskInv'
    OBVIOUS
  <1>1. ASSUME NEW t \in Tables, NEW prefix \in Salt, Propose(t, prefix) PROVE MaskInv'
    BY <1>1, RulesChange DEF Propose
  <1>2. ASSUME NEW column \in Column, NEW strategy \in Strategy, NEW salt \in Salt \cup {"none"},
               Override(column, strategy, salt)
        PROVE  MaskInv'
    BY <1>2, RulesChange DEF Override
  <1>3. ASSUME NEW t \in Tables, Propagate(t) PROVE MaskInv'
    BY <1>3, RulesChange DEF Propagate
  <1>4. CASE UNCHANGED maskVars
    BY <1>4, RulesChange DEF maskVars
  <1> QED
    BY <1>1, <1>2, <1>3, <1>4, MaskCellInv, SeedGeneratorInv, DrawWordInv DEF MaskNext

-----------------------------------------------------------------------------
(* Masking: joins survive *)

\* Two rules that verify_fk_consistency() does not tell apart, and that agree in
\* what it does not compare, give a value one mask.
LEMMA OneMask ==
  ASSUME NEW rule, NEW other, NEW value, NEW out, NEW out2,
         ~Diverges(rule, other), SameDetail(rule, other), Repeatable(rule),
         rule.strategy # "synthetic",
         out \in MaskOf(rule, value), out2 \in MaskOf(other, value)
  PROVE  out = out2
  <1>1. rule.strategy = other.strategy /\ rule.salt = other.salt
    BY DEF Diverges
  <1>2. CASE rule.strategy = "nullify"
    BY <1>1, <1>2 DEF MaskOf
  <1>3. CASE rule.strategy = "static"
    BY <1>1, <1>3 DEF MaskOf, SameDetail
  <1>4. CASE rule.strategy \notin {"nullify", "static", "random"}
    BY <1>1, <1>4 DEF MaskOf
  <1> QED
    BY <1>2, <1>3, <1>4 DEF Repeatable

LEMMA MaskInvJoins == MaskInv => MaskedJoins
  <1> SUFFICES ASSUME MaskInv, NEW link \in Link \ Problems, NEW m \in masked, NEW n \in masked,
                      m.rule = rules[link[1]], m.alone,
                      n.rule = rules[link[2]], n.alone,
                      m.value = n.value, Repeatable(m.rule), SameDetail(m.rule, n.rule)
               PROVE  m.out = n.out
    BY DEF MaskedJoins
  <1>1. Honest(m) /\ Honest(n)
    BY DEF MaskInv
  <1>2. ~Diverges(m.rule, n.rule)
    BY <1>1 DEF Problems, Honest
  <1>3. m.rule.strategy = n.rule.strategy /\ m.rule.salt = n.rule.salt
    BY <1>2 DEF Diverges
  <1>4. CASE m.rule.strategy = "synthetic"
    BY <1>1, <1>3, <1>4 DEF Honest, Word, SameDetail
  <1>5. CASE m.rule.strategy # "synthetic"
    <2>1. m.out \in MaskOf(m.rule, m.value) /\ n.out \in MaskOf(n.rule, m.value)
      BY <1>1, <1>3, <1>5 DEF Honest
    <2> QED
      BY <2>1, <1>2, <1>5, OneMask
  <1> QED
    BY <1>4, <1>5

\* Joins survive masking under whatever rules were proposed, overridden and
\* propagated: verify_fk_consistency() finds every foreign key whose equal cells
\* may be masked apart, but for what the property excludes.
THEOREM JoinsSurvive == MaskSpec => []MaskedJoins
  BY MaskInvInit, MaskInvNext, MaskInvJoins, PTL DEF MaskSpec
=============================================================================
