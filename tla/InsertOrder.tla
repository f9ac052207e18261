------------------------------- MODULE InsertOrder -------------------------------
(***************************************************************************)
(* SchemaGraph.topological_insert_order() of core/schema_graph.py: Kahn's   *)
(* algorithm over the foreign keys of the schema, the order in which tables *)
(* are written (InsertRank of PlanWorkflow).                               *)
(*                                                                         *)
(* A step is one turn of one of its loops.  Tables are numbers, their       *)
(* places in alphabetical order, since the code sorts names to break ties.  *)
(* A foreign key is the table it refers to: a table may refer to the same   *)
(* one several times, to itself, and to tables that were not exported.     *)
(***************************************************************************)
EXTENDS Integers, Sequences, FiniteSets

CONSTANTS
  Table,     \* tables of the export
  External,  \* tables that foreign keys name and the export lacks
  MaxKeys    \* bound: foreign keys of a table

ASSUME OrderAssumption ==
  /\ Table \subseteq Nat /\ IsFiniteSet(Table)
  /\ External \subseteq Nat \ Table
  /\ MaxKeys \in Nat

VARIABLES
  foreignKeys,  \* node.foreign_keys of each table
  left,         \* foreign keys that the first loop has not seen
  edges,        \* children of each table
  inDegree,     \* parents of each table that are not placed
  ready,        \* tables without parents left, not placed
  order,        \* the result
  stage

vars == <<foreignKeys, left, edges, inDegree, ready, order, stage>>
graph == <<foreignKeys, left, edges>>

-----------------------------------------------------------------------------
(* The schema *)

\* Parents of a table in the export, itself aside.
Parents(t) == {foreignKeys[t][i] : i \in 1 .. Len(foreignKeys[t])} \cap (Table \ {t})

Placed == {order[i] : i \in 1 .. Len(order)}

\* Tables that wait for one another: no order serves them.
HasCycle == \E C \in (SUBSET Table) \ {{}} : \A t \in C : Parents(t) \cap C # {}

-----------------------------------------------------------------------------

Stage == {"count", "place", "done", "cycle"}

TypeOK ==
  /\ foreignKeys \in [Table -> Seq(Table \cup External)]
  /\ left \subseteq Table \X Nat
  /\ edges \in [Table -> SUBSET Table]
  /\ inDegree \in [Table -> Nat]
  /\ ready \subseteq Table
  /\ order \in Seq(Table)
  /\ stage \in Stage

Keys == UNION {[1 .. n -> Table \cup External] : n \in 0 .. MaxKeys}

Init ==
  /\ foreignKeys \in [Table -> Keys]
  /\ left = UNION {{t} \X (1 .. Len(foreignKeys[t])) : t \in Table}
  /\ edges = [t \in Table |-> {}]
  /\ inDegree = [t \in Table |-> 0]
  /\ ready = {}
  /\ order = <<>>
  /\ stage = "count"

\* Mutant: a table that refers twice to another counts it twice.
CountsTwice(t, parent) == parent \in Table \ {t}

\* Mutant: a table waits for itself.
CountsItself(t, parent) == parent \in Table /\ t \notin edges[parent]

\* A foreign key that orders two tables, seen for the first time.
Counts(t, parent) == parent \in Table \ {t} /\ t \notin edges[parent]

\* The first loop: one foreign key.
CountForeignKey(t, i) ==
  LET parent == foreignKeys[t][i]
  IN /\ stage = "count" /\ <<t, i>> \in left
     /\ left' = left \ {<<t, i>>}
     /\ IF Counts(t, parent)
        THEN /\ edges' = [edges EXCEPT ![parent] = @ \cup {t}]
             /\ inDegree' = [inDegree EXCEPT ![t] = @ + 1]
        ELSE UNCHANGED <<edges, inDegree>>
     /\ UNCHANGED <<foreignKeys, ready, order, stage>>

\* Between the loops: the tables without parents.
FindRoots ==
  /\ stage = "count" /\ left = {}
  /\ ready' = {t \in Table : inDegree[t] = 0}
  /\ stage' = "place"
  /\ UNCHANGED <<graph, inDegree, order>>

\* Mutant: a child is ready when one of its parents is placed.
BecomesReadyEarly(t) == inDegree[t] > 0

\* A child whose last parent is being placed.
BecomesReady(t) == inDegree[t] = 1

\* Mutant: the list is not sorted again.
MayComeNextUnsorted(t) == TRUE

\* ready.sort(); ready.pop(0)
MayComeNext(t) == \A u \in ready : t <= u

\* The second loop: one table is placed, its children wait for one parent less.
PlaceTable(current) ==
  /\ stage = "place" /\ current \in ready
  /\ MayComeNext(current)
  /\ order' = Append(order, current)
  /\ inDegree' = [t \in Table |->
                    IF t \in edges[current] THEN inDegree[t] - 1 ELSE inDegree[t]]
  /\ ready' = (ready \ {current}) \cup {t \in edges[current] : BecomesReady(t)}
  /\ UNCHANGED <<graph, stage>>

\* Tables that were not placed are reported as a cycle (CycleError).
Finish ==
  /\ stage = "place" /\ ready = {}
  /\ stage' = IF Len(order) = Cardinality(Table) THEN "done" ELSE "cycle"
  /\ UNCHANGED <<graph, inDegree, ready, order>>

Next ==
  \/ \E t \in Table : \E i \in 1 .. Len(foreignKeys[t]) : CountForeignKey(t, i)
  \/ FindRoots
  \/ \E t \in Table : PlaceTable(t)
  \/ Finish

Spec == Init /\ [][Next]_vars

-----------------------------------------------------------------------------
(* Properties *)

\* The order is what a writer of rows needs, at every moment: no table comes before
\* a parent, none comes twice.
ParentsPrecede ==
  \A i \in 1 .. Len(order) :
    /\ \A u \in Parents(order[i]) : \E j \in 1 .. i - 1 : order[j] = u
    /\ \A j \in 1 .. i - 1 : order[j] # order[i]

\* CycleError is raised when tables wait for one another and only then: references
\* to the table itself, to tables outside the export and repeated ones do not raise.
CycleFoundExactly ==
  /\ stage = "cycle" => HasCycle
  /\ stage = "done" => Placed = Table /\ ~HasCycle

\* The result depends on the schema only, not on the order of its file: each table
\* is the first, alphabetically, of those whose parents precede.
AlphabeticalAmongReady ==
  [][\A t \in Table : order' = Append(order, t) =>
       \A u \in Table \ Placed : Parents(u) \subseteq Placed => t <= u]_order

-----------------------------------------------------------------------------
(* Inductive strengthening: see InsertOrderProofs *)

\* The edges are the parents of the foreign keys seen so far.
Edges ==
  \A t, u \in Table :
    t \in edges[u] <=>
      t # u /\ \E i \in 1 .. Len(foreignKeys[t]) : foreignKeys[t][i] = u /\ <<t, i>> \notin left

\* A table waits for its parents that are not placed.
Waiting(t) == {u \in Table \ Placed : t \in edges[u]}

Counted == \A t \in Table : inDegree[t] = Cardinality(Waiting(t))

\* Ready are the tables that wait for nothing and are not placed.
Readiness ==
  /\ stage = "count" => order = <<>>
  /\ stage # "count" => left = {} /\ ready = {t \in Table \ Placed : Waiting(t) = {}}
  /\ stage \in {"done", "cycle"} => ready = {}
  /\ stage = "done" => Len(order) = Cardinality(Table)
  /\ stage = "cycle" => Len(order) # Cardinality(Table)

\* Tables that wait for one another stay out of the order.
CyclesUnplaced ==
  \A C \in SUBSET Table : (\A t \in C : Parents(t) \cap C # {}) => C \cap Placed = {}

PlacedOnce == Cardinality(Placed) = Len(order)

Ordering == Edges /\ Counted /\ Readiness /\ ParentsPrecede /\ CyclesUnplaced /\ PlacedOnce
=============================================================================
