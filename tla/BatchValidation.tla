---------------------------- MODULE BatchValidation ----------------------------
(***************************************************************************)
(* The validation of a batch of rows (core/validation.py), and what the    *)
(* target database asks of the same rows.                                  *)
(*                                                                         *)
(* A column's name is a sequence of words; a cell is Null, Blank (the      *)
(* empty string) or a text.  Of a text the model keeps what it stands for  *)
(* and its shape: "plain" as the correction agent would write it, "loose"  *)
(* another spelling that the agent recognises, "odd" one it does not.      *)
(* A table is [name, columns, required, limit, pk, fks, unique]; a row is  *)
(* a function of its columns.                                              *)
(***************************************************************************)
EXTENDS Integers, FiniteSets, SequencesExt

CONSTANTS
  Null,   \* no value
  Blank,  \* the empty string
  Value   \* what a text stands for

Text == [value : Value, shape : {"plain", "loose", "odd"}]

Cell == Text \cup {Null, Blank}

Missing(cell) == cell \in {Null, Blank}

\* A plain text is shorter than another spelling of it.
Size(cell) == IF cell.shape = "plain" THEN 1 ELSE 2

Columns(row, cols) == [k \in DOMAIN cols |-> row[cols[k]]]

\* row_index, and the names that are joined in column.
Issue(rule, i, cols) ==
  [rule |-> rule, severity |-> IF rule = "length" THEN "warning" ELSE "error",
   row |-> i, column |-> cols]

-----------------------------------------------------------------------------
(* The rules *)

NotNullRule(rows, table) ==
  {Issue("not_null", x[1], <<x[2]>>) :
     x \in {x \in (DOMAIN rows) \X table.required : Missing(rows[x[1]][x[2]])}}

Known(existing, name) == IF name \in DOMAIN existing THEN existing[name] ELSE {}

\* Mutant: keys of the target are not looked at.
PrimaryKeyOfBatch(rows, table, existing) ==
  LET key(i) == Columns(rows[i], table.pk)
      incomplete == {i \in DOMAIN rows : \E k \in DOMAIN table.pk : Missing(key(i)[k])}
      repeated == {i \in (DOMAIN rows) \ incomplete : \E j \in 1 .. i - 1 : key(j) = key(i)}
  IN IF table.pk = <<>> THEN {} ELSE {Issue("primary_key", i, table.pk) : i \in incomplete \cup repeated}

\* Every row of a key but the first is an issue, and the first one too when the
\* target has the key.
PrimaryKeyRule(rows, table, existing) ==
  LET key(i) == Columns(rows[i], table.pk)
      incomplete == {i \in DOMAIN rows : \E k \in DOMAIN table.pk : Missing(key(i)[k])}
      repeated == {i \in (DOMAIN rows) \ incomplete : \E j \in 1 .. i - 1 : key(j) = key(i)}
      taken == {i \in (DOMAIN rows) \ incomplete : key(i) \in Known(existing, table.name)}
  IN IF table.pk = <<>> THEN {}
     ELSE {Issue("primary_key", i, table.pk) : i \in incomplete \cup repeated \cup taken}

\* Missing values are equal here.
UniqueRule(rows, cols) ==
  {Issue("unique", i, cols) :
     i \in {i \in DOMAIN rows : \E j \in 1 .. i - 1 : Columns(rows[j], cols) = Columns(rows[i], cols)}}

\* Silent when the keys of the parent were not supplied.
ForeignKeyRule(rows, table, existing) ==
  UNION {{Issue("foreign_key", i, fk.child) :
            i \in {i \in DOMAIN rows :
                     /\ \A k \in DOMAIN fk.child : rows[i][fk.child[k]] # Null
                     /\ Columns(rows[i], fk.child) \notin existing[fk.parent]}} :
           fk \in {fk \in table.fks : fk.parent \in DOMAIN existing}}

LengthRule(rows, table) ==
  {Issue("length", x[1], <<x[2]>>) :
     x \in {x \in (DOMAIN rows) \X (DOMAIN table.limit) :
              /\ ~Missing(rows[x[1]][x[2]])
              /\ Size(rows[x[1]][x[2]]) > table.limit[x[2]]}}

\* RegexRule and LookupRule: a text that is not one of the valid ones.
MembershipRule(rule, rows, col, valid) ==
  {Issue(rule, i, <<col>>) :
     i \in {i \in DOMAIN rows : ~Missing(rows[i][col]) /\ rows[i][col] \notin valid}}

-----------------------------------------------------------------------------
(* The engine *)

\* default_rules_for() and validate_batch().
DefaultIssues(rows, table, existing) ==
  NotNullRule(rows, table) \cup PrimaryKeyRule(rows, table, existing)
    \cup LengthRule(rows, table) \cup ForeignKeyRule(rows, table, existing)

\* With the rules that a caller registers: the unique constraints of the table, and
\* the valid texts of some columns.
Issues(rows, table, existing, valid) ==
  DefaultIssues(rows, table, existing)
    \cup UNION {UniqueRule(rows, cols) : cols \in table.unique}
    \cup UNION {MembershipRule("lookup", rows, col, valid[col]) : col \in DOMAIN valid}

Errors(issues) == {issue \in issues : issue.severity = "error"}

IsValid(issues) == Errors(issues) = {}

-----------------------------------------------------------------------------
(* The database *)

\* What PostgreSQL asks when the rows are inserted one after another into character
\* columns of a target whose tables hold the keys of stored and whose rows have the
\* values of taken under each unique constraint: a text fits its VARCHAR, NULLs are
\* never equal, a reference with a NULL refers to nothing, and a row may refer to
\* one before it.
Loads(rows, table, stored, taken) ==
  /\ \A i \in DOMAIN rows, c \in table.required : rows[i][c] # Null
  /\ table.pk # <<>> =>
       \A i \in DOMAIN rows :
         LET key == Columns(rows[i], table.pk)
         IN /\ \A k \in DOMAIN key : key[k] # Null
            /\ key \notin stored[table.name]
            /\ \A j \in 1 .. i - 1 : Columns(rows[j], table.pk) # key
  /\ \A i \in DOMAIN rows, c \in DOMAIN table.limit :
       Missing(rows[i][c]) \/ Size(rows[i][c]) <= table.limit[c]
  /\ \A cols \in table.unique, i \in DOMAIN rows : Columns(rows[i], cols) \notin taken[cols]
  /\ \A cols \in table.unique, i \in DOMAIN rows, j \in DOMAIN rows :
       (j < i /\ Columns(rows[i], cols) = Columns(rows[j], cols))
         => \E k \in DOMAIN cols : rows[i][cols[k]] = Null
  /\ \A fk \in table.fks, i \in DOMAIN rows :
       \/ \E k \in DOMAIN fk.child : rows[i][fk.child[k]] = Null
       \/ Columns(rows[i], fk.child) \in stored[fk.parent]
       \/ fk.parent = table.name /\ \E j \in 1 .. i : Columns(rows[j], table.pk) = Columns(rows[i], fk.child)
=============================================================================
