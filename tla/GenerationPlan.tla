----------------------------- MODULE GenerationPlan -----------------------------
(***************************************************************************)
(* What the generator of test data decides before it makes a row: how each *)
(* column is generated (_profile_column() of pattern_analyzer.py), which   *)
(* table owns a key, and which columns refer to it (_identify_pk_columns() *)
(* and _build_fk_map_and_order() of data_generator.py).                    *)
(*                                                                         *)
(* A name is the sequence of its words: p_grp_sys_id is <<"p", "grp",      *)
(* "sys", "id">>.  A schema is the sequence of the tables that have a      *)
(* sample, in the order of their files; a table is its place in it.        *)
(***************************************************************************)
EXTENDS Integers, FiniteSets, SequencesExt

CONSTANTS
  Satellites,  \* tables that PROVIDER_FK_MAP lists with their p_sys_id only
  StartScale   \* what int_start is divided by to break ties

ASSUME ScaleAssumption == StartScale \in Nat \ {0}

\* A column of a sample: whether it has a value, whether some are missing, whether
\* the values are distinct, whether they are numbers, and the greatest of them.
Sample == [name : Seq(STRING), filled : BOOLEAN, gaps : BOOLEAN,
           distinct : BOOLEAN, numeric : BOOLEAN, top : Nat]

\* A table that has a sample.
TableSample == [name : Seq(STRING), cols : Seq(Sample)]

-----------------------------------------------------------------------------
(* Names *)

Prefixed(name) == Len(name) > 1 /\ Head(name) \in {"p", "g", "t", "l"}

StripPrefix(name) == IF Prefixed(name) THEN Tail(name) ELSE name

\* _fk_suffix_matches(): p_grp_sys_id refers to p_sys_id.
SuffixMatches(child, parent) ==
  LET core == StripPrefix(child)
  IN \/ child = parent
     \/ IsStrictSuffix(parent, core)
     \/ IsSuffix(StripPrefix(parent), core)

\* The table's name without the prefixes and suffixes of its schema, each taken
\* off in turn.
Stem(table) ==
  LET drop(name, pre) == IF Len(name) > 1 /\ Head(name) = pre THEN Tail(name) ELSE name
      cut(name, suf) == IF Len(name) > 1 /\ Last(name) = suf THEN Front(name) ELSE name
  IN FoldLeft(cut, FoldLeft(drop, table, <<"p", "g", "t", "l">>), <<"tb", "tx", "tn">>)

\* _is_identifier_col(): a column that is generated as a sequence.
IsIdentifier(name) ==
  IF IsStrictSuffix(<<"seq", "num">>, name) \/ IsSuffix(<<"sk">>, name) THEN TRUE
  ELSE IF IsSuffix(<<"sys", "id">>, name)
  THEN LET core == StripPrefix(name)
       IN SubSeq(core, 1, Len(core) - 2) \notin {<<"grp">>, <<"mbr">>, <<"enrol">>, <<"b">>}
  ELSE /\ IsStrictSuffix(<<"id">>, name)
       /\ Last(Front(name)) \notin {"tax", "user", "alt"}
       /\ ToSet(name) \cap {"npi", "dea", "license", "payer", "mcare", "mcaid", "ein"} = {}

-----------------------------------------------------------------------------
(* Profiles *)

\* Only whether a column is a sequence or a range of integers matters for the keys.
Profile(sample) ==
  LET identifier == IsIdentifier(sample.name)
  IN [strategy |-> IF ~sample.filled THEN "null"
                   ELSE IF identifier THEN "sequential"
                   ELSE IF sample.numeric THEN "int_range" ELSE "other",
      unique   |-> sample.filled /\ (identifier \/ sample.distinct),
      start    |-> IF ~identifier THEN 0 ELSE IF sample.numeric THEN sample.top ELSE 1000000,
      nulls    |-> sample.gaps]

ColumnsOf(table) == {table.cols[k].name : k \in DOMAIN table.cols}

ProfileOf(table, col) ==
  Profile(table.cols[CHOOSE k \in DOMAIN table.cols : table.cols[k].name = col])

-----------------------------------------------------------------------------
(* The owner of a key: _identify_pk_columns() *)

HasOwnSurrogate(table, col) ==
  \E other \in ColumnsOf(table) \ {col} :
    StripPrefix(other) \in {Stem(table.name) \o <<"sk">>, Stem(table.name) \o <<"sys", "id">>,
                            Stem(table.name) \o <<"id">>}

\* The score of a table as the owner of a column, in units of 1 / StartScale.
Score(table, col) ==
  LET prof == ProfileOf(table, col)
      base == (IF prof.strategy = "sequential" THEN 25 ELSE 0)
              + (IF prof.unique THEN 15 ELSE IF prof.strategy = "int_range" THEN 5 ELSE 0)
              + (IF HasOwnSurrogate(table, col) THEN -20 ELSE 30)
  IN base * StartScale - prof.start

\* The tables that may become the owner: the order of a Python set breaks ties.
BestOwners(schema, col) ==
  LET having == {t \in DOMAIN schema : col \in ColumnsOf(schema[t])}
  IN {t \in having : \A u \in having : Score(schema[u], col) <= Score(schema[t], col)}

AllColumns(schema) == UNION {ColumnsOf(schema[t]) : t \in DOMAIN schema}

Columns(schema) == UNION {{t} \X ColumnsOf(schema[t]) : t \in DOMAIN schema}

\* The choices of an owner for each column.
Ownerships(schema) ==
  LET best == [col \in AllColumns(schema) |-> BestOwners(schema, col)]
      tied == {col \in AllColumns(schema) : Cardinality(best[col]) > 1}
  IN {[col \in AllColumns(schema) |->
         IF col \in tied THEN pick[col] ELSE CHOOSE t \in best[col] : TRUE] :
        pick \in {f \in [tied -> DOMAIN schema] : \A col \in tied : f[col] \in best[col]}}

-----------------------------------------------------------------------------
(* The columns that refer to a key: _build_fk_map_and_order() *)

HcideaChild ==
  {<<"p", "hcidea">> \o t \o <<"tb">> :
     t \in {<<"prov", "adr">>, <<"prov", "adr", "mcaid">>, <<"prov", "adr", "phone">>,
            <<"prov", "adr", "spi">>, <<"prov", "deg">>, <<"alt", "id">>, <<"prov", "lic">>,
            <<"prov", "specl">>, <<"prov", "txnmy">>}}

HcideaAddressChild ==
  {<<"p", "hcidea", "prov", "adr", t, "tb">> : t \in {"mcaid", "phone", "spi"}}

\* PROVIDER_FK_MAP: column col of table refers to column pcol of parent.
Declared(table, col, parent, pcol) ==
  \/ /\ parent = <<"p", "dtl", "tb">> /\ pcol = <<"p", "sys", "id">>
     /\ \/ table \in Satellites /\ col = pcol
        \/ /\ table \in {<<"p", "affl", "tb">>, <<"p", "affl", "tx">>, <<"p", "enrol", "affl", "tb">>}
           /\ col \in {<<"p", "grp", "sys", "id">>, <<"p", "mbr", "sys", "id">>}
        \/ /\ table \in {<<"p", "enrol", "affl", "tb">>, <<"p", "enrol", "affl", "tx">>}
           /\ col = <<"p", "enrol", "sys", "id">>
  \/ /\ col = pcol
     /\ \/ /\ table = <<"p", "event", "rsn", "tb">> /\ parent = <<"p", "event", "tb">>
           /\ col = <<"p", "event", "sk">>
        \/ /\ table = <<"p", "pbm", "nw", "prtcptn", "tb">> /\ parent = <<"p", "nw", "part", "tb">>
           /\ col = <<"p", "nw", "part", "sk">>
        \/ /\ table \in HcideaChild /\ parent = <<"p", "hcidea", "prov", "tb">>
           /\ col = <<"p", "hcidea", "sys", "id">>
        \/ /\ table \in HcideaAddressChild /\ parent = <<"p", "hcidea", "prov", "adr", "tb">>
           /\ col = <<"p", "hcidea", "adr", "sys", "id">>

PrimaryKey == {<<"p", "sys", "id">>, <<"p", "event", "sk">>, <<"p", "nw", "part", "sk">>,
               <<"p", "hcidea", "sys", "id">>, <<"p", "hcidea", "adr", "sys", "id">>}

\* The references that the map declares; the parent's table must have a sample,
\* but nothing asks whether it has the column.
Explicit(schema) ==
  {e \in Columns(schema) \X (DOMAIN schema) \X PrimaryKey :
     Declared(schema[e[1][1]].name, e[1][2], schema[e[2]].name, e[3])}

\* The columns, as places of the schema: the order in which parent_of was filled.
Places(schema) == UNION {{t} \X DOMAIN schema[t].cols : t \in DOMAIN schema}

Precedes(p, q) == p[1] < q[1] \/ (p[1] = q[1] /\ p[2] < q[2])

NameAt(schema, p) == schema[p[1]].cols[p[2]].name

\* The first column, owned by another table, that matches: a reference, or none.
Heuristic(schema, owner, x) ==
  LET match == {p \in Places(schema) : /\ owner[NameAt(schema, p)] # x[1]
                                       /\ SuffixMatches(x[2], NameAt(schema, p))}
  IN {<<x, owner[NameAt(schema, p)], NameAt(schema, p)>> :
        p \in {p \in match : \A q \in match : ~Precedes(q, p)}}

\* _fk_map, as a set of <<<<table, column>>, parent, column of the parent>>.
ForeignKeys(schema, owner) ==
  LET mapped == {e[1] : e \in Explicit(schema)}
  IN Explicit(schema) \cup
     UNION {Heuristic(schema, owner, x) : x \in Columns(schema) \ mapped}
=============================================================================
