------------------------------- MODULE MCQuality -------------------------------
(* Small instances for TLC: a run is either a loop of corrections or a session of *)
(* masking; neither shares state with the other.                                  *)
EXTENDS CorrectionLoop, MaskingPolicies

CONSTANTS salt, ada, sal

EMAIL == <<"e", "mail", "email">>
CODE == <<"code">>
START == <<"start", "date">>
OWNER == <<"owner", "phone">>

Plain(value) == [value |-> value, shape |-> "plain"]
Loose(value) == [value |-> value, shape |-> "loose"]
Odd(value) == [value |-> value, shape |-> "odd"]

Table(cols, required, pk, fks, unique) ==
  [name |-> "t", columns |-> cols, required |-> required, limit |-> [c \in cols |-> 1],
   pk |-> pk, fks |-> fks, unique |-> unique]

Stored(own, parent) == [name \in {"t", "parent"} |-> IF name = "t" THEN own ELSE parent]

Cells == {Null, Blank, Plain(ada), Loose(ada), Odd(ada), Plain(sal)}

\* One column, its kind, and three rows.
OneColumn ==
  UNION {{[table |-> Table({col}, {}, <<col>>, fks, {}), rows |-> [i \in 1 .. 3 |-> [c \in {col} |-> f[i]]],
           stored |-> Stored(keys, {<<Plain(ada)>>}), taken |-> <<>>] :
            fks \in {{}, {[child |-> <<col>>, parent |-> "parent"]}},
            f \in [1 .. 3 -> Cells],
            keys \in {{}, {<<Plain(ada)>>}}} :
         col \in {EMAIL, CODE, START, OWNER}}

\* Two columns: a composite key, or a key with a reference to the table itself.
TwoColumns ==
  {[table |-> t, rows |-> rs, stored |-> Stored(keys, {}), taken |-> [cols \in t.unique |-> values]] :
     t \in {Table({CODE, OWNER}, {OWNER}, <<CODE, OWNER>>, {}, {<<OWNER>>}),
            Table({CODE, OWNER}, {CODE}, <<CODE>>, {[child |-> <<OWNER>>, parent |-> "t"]}, {})},
     rs \in [1 .. 2 -> [{CODE, OWNER} -> Cells]],
     keys \in {{}, {<<Plain(ada)>>, <<Plain(ada), Plain(ada)>>}},
     values \in {{}, {<<Plain(sal)>>}}}

MCBatch == OneColumn \cup TwoColumns

MCValid == [col \in {} |-> {}]

MCColumn == {<<"p", "id">>, <<"c", "id">>, <<"g", "id">>}

MCLink == {<<<<"c", "id">>, <<"p", "id">>>>, <<<<"g", "id">>, <<"c", "id">>>>}

MCSensitive == MCColumn \ {<<"c", "id">>}

MCRuleset ==
  {[c \in MCColumn |-> NoRule],
   [c \in MCColumn |-> IF c[1] = "p" THEN Rule("synthetic", salt, "name", "none") ELSE NoRule],
   [c \in MCColumn |-> IF c[1] = "p" THEN Rule("static", salt, "none", "X") ELSE NoRule]}

Sleeping ==
  /\ rules = [c \in Column |-> NoRule] /\ proposed = Tables /\ seed = "none"
  /\ request = [r \in Request |-> Free] /\ masked = {} /\ changes = 0

NoLoop ==
  /\ batch = [table |-> Table({CODE}, {}, <<>>, {}, {}), rows |-> <<>>, stored |-> Stored({}, {}),
              taken |-> <<>>]
  /\ limit = 1 /\ rows = <<>> /\ iterations = 1 /\ outcome = "clean"

MCInit == (LoopInit /\ Sleeping) \/ (NoLoop /\ MaskInit)

MCNext ==
  \/ proposed = Tables /\ changes = 0 /\ LoopNext /\ UNCHANGED maskVars
  \/ batch.rows = <<>> /\ MaskNext /\ UNCHANGED loopVars

MCSpec == MCInit /\ [][MCNext]_<<loopVars, maskVars>>
=============================================================================
