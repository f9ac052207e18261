---------------------------- MODULE InsertOrderProofs ----------------------------
(***************************************************************************)
(* Kahn's algorithm of InsertOrder is correct for every schema: TypeOK and  *)
(* Ordering are inductive together, and give the order and the cycles.      *)
(***************************************************************************)
EXTENDS InsertOrder, FiniteSetTheorems, SequenceTheorems, TLAPS

IInv == TypeOK /\ Ordering

-----------------------------------------------------------------------------
(* Facts about one state *)

LEMMA TableFinite == IsFiniteSet(Table) /\ Table \subseteq Nat
  BY OrderAssumption

LEMMA KeysAreSequences == Keys \subseteq Seq(Table \cup External)
  BY OrderAssumption DEF Keys

LEMMA WaitingFinite ==
  ASSUME NEW t \in Table
  PROVE  /\ IsFiniteSet(Waiting(t))
         /\ Cardinality(Waiting(t)) \in Nat
         /\ Cardinality(Waiting(t)) = 0 <=> Waiting(t) = {}
         /\ Cardinality(Waiting(t)) = 1 <=> \E u : Waiting(t) = {u}
  <1>1. Waiting(t) \in SUBSET Table
    BY DEF Waiting
  <1>2. IsFiniteSet(Waiting(t))
    BY <1>1, TableFinite, FS_Subset
  <1>3. Cardinality(Waiting(t)) \in Nat
    BY <1>2, FS_CardinalityType
  <1>4. Cardinality(Waiting(t)) = 0 <=> Waiting(t) = {}
    BY <1>2, FS_EmptySet
  <1>5. Cardinality(Waiting(t)) = 1 <=> \E u : Waiting(t) = {u}
    BY <1>2, FS_Singleton
  <1> QED
    BY <1>2, <1>3, <1>4, <1>5

LEMMA PlacedFinite ==
  ASSUME TypeOK
  PROVE  Placed \in SUBSET Table /\ IsFiniteSet(Placed)
  <1>1. \A i \in 1 .. Len(order) : order[i] \in Table
    BY ElementOfSeq DEF TypeOK
  <1>2. Placed \in SUBSET Table
    BY <1>1 DEF Placed
  <1> QED
    BY <1>2, TableFinite, FS_Subset

\* When every foreign key was seen, the edges are the parents.
LEMMA EdgesAreParents ==
  ASSUME Edges, left = {}, NEW t \in Table, NEW u \in Table
  PROVE  t \in edges[u] <=> u \in Parents(t)
  BY DEF Edges, Parents

\* A placed table's parents are placed.
LEMMA ParentsPlaced ==
  ASSUME TypeOK, ParentsPrecede, NEW t \in Placed
  PROVE  Parents(t) \subseteq Placed
  <1>1. PICK i \in 1 .. Len(order) : t = order[i]
    BY DEF Placed
  <1>2. Len(order) \in Nat
    BY LenProperties DEF TypeOK
  <1>3. \A j \in 1 .. i - 1 : j \in 1 .. Len(order)
    BY <1>2
  <1> QED
    BY <1>1, <1>3 DEF ParentsPrecede, Placed

\* What waits for nothing is what has its parents placed.
LEMMA NothingToWaitFor ==
  ASSUME Edges, left = {}, NEW t \in Table
  PROVE  Waiting(t) = {} <=> Parents(t) \subseteq Placed
  <1>1. Parents(t) \subseteq Table
    BY DEF Parents
  <1>2. \A u \in Table : t \in edges[u] <=> u \in Parents(t)
    BY EdgesAreParents
  <1> QED
    BY <1>1, <1>2 DEF Waiting

-----------------------------------------------------------------------------
(* The parts of Ordering that depend on the schema and the order only *)

LEMMA SameOrder ==
  ASSUME UNCHANGED <<foreignKeys, order>>
  PROVE  /\ Placed' = Placed
         /\ ParentsPrecede /\ CyclesUnplaced /\ PlacedOnce
              => (ParentsPrecede /\ CyclesUnplaced /\ PlacedOnce)'
  <1>1. Placed' = Placed /\ \A t : Parents(t)' = Parents(t)
    BY DEF Placed, Parents
  <1>2. ParentsPrecede => ParentsPrecede'
    BY DEF ParentsPrecede, Parents
  <1>3. CyclesUnplaced => CyclesUnplaced'
    BY <1>1 DEF CyclesUnplaced
  <1>4. PlacedOnce => PlacedOnce'
    BY <1>1 DEF PlacedOnce
  <1> QED
    BY <1>1, <1>2, <1>3, <1>4

LEMMA SameWaiting ==
  ASSUME UNCHANGED <<edges, order>>, NEW t
  PROVE  Waiting(t)' = Waiting(t)
  BY DEF Waiting, Placed

-----------------------------------------------------------------------------
(* One lemma per action *)

LEMMA InitOrdering == Init => IInv
  <1> SUFFICES ASSUME Init PROVE IInv
    OBVIOUS
  <1>1. TypeOK
    <2>1. foreignKeys \in [Table -> Seq(Table \cup External)]
      BY KeysAreSequences DEF Init
    <2>2. \A t \in Table : Len(foreignKeys[t]) \in Nat
      BY <2>1, LenProperties
    <2>3. left \subseteq Table \X Nat
      BY <2>2 DEF Init
    <2> QED
      BY <2>1, <2>3, EmptySeq DEF Init, TypeOK, Stage
  <1>2. Placed = {}
    BY EmptySeq DEF Init, Placed
  <1>3. Edges
    <2>1. \A t \in Table : \A i \in 1 .. Len(foreignKeys[t]) : <<t, i>> \in left
      BY DEF Init
    <2> QED
      BY <2>1 DEF Init, Edges
  <1>4. Counted
    <2>1. \A t \in Table : Waiting(t) = {}
      BY DEF Init, Waiting
    <2> QED
      BY <2>1, FS_EmptySet DEF Init, Counted
  <1>5. Readiness
    BY DEF Init, Readiness
  <1>6. ParentsPrecede
    BY EmptySeq DEF Init, ParentsPrecede
  <1>7. CyclesUnplaced
    BY <1>2 DEF CyclesUnplaced
  <1>8. PlacedOnce
    BY <1>2, EmptySeq, FS_EmptySet DEF Init, PlacedOnce
  <1> QED
    BY <1>1, <1>3, <1>4, <1>5, <1>6, <1>7, <1>8 DEF IInv, Ordering

LEMMA CountOrdering ==
  ASSUME IInv, NEW t \in Table, NEW i \in 1 .. Len(foreignKeys[t]), CountForeignKey(t, i)
  PROVE  IInv'
  <1> DEFINE parent == foreignKeys[t][i]
  <1>1. TypeOK /\ Edges /\ Counted /\ Readiness
    BY DEF IInv, Ordering
  <1>2. /\ stage = "count" /\ <<t, i>> \in left /\ left' = left \ {<<t, i>>}
        /\ UNCHANGED <<foreignKeys, ready, order, stage>>
    BY DEF CountForeignKey
  <1>3. (ParentsPrecede /\ CyclesUnplaced /\ PlacedOnce)' /\ Placed' = Placed /\ Placed = {}
    <2>1. Placed = {}
      BY <1>1, <1>2, EmptySeq DEF Readiness, Placed
    <2> QED
      BY <1>2, <2>1, SameOrder DEF IInv, Ordering
  <1>4. Readiness'
    BY <1>1, <1>2 DEF Readiness
  <1>5. CASE ~Counts(t, parent)
    <2>1. UNCHANGED <<edges, inDegree>>
      BY <1>5 DEF CountForeignKey
    <2>2. TypeOK'
      BY <1>1, <1>2, <2>1 DEF TypeOK
    <2>3. Edges'
      <3>1. parent \in Table \ {t} => t \in edges[parent]
        BY <1>5 DEF Counts
      <3> QED
        BY <1>1, <1>2, <2>1, <3>1 DEF Edges
    <2>4. Counted'
      BY <1>1, <1>2, <2>1, SameWaiting DEF Counted
    <2> QED
      BY <1>3, <1>4, <2>2, <2>3, <2>4 DEF IInv, Ordering
  <1>6. CASE Counts(t, parent)
    <2>1. /\ edges' = [edges EXCEPT ![parent] = @ \cup {t}]
          /\ inDegree' = [inDegree EXCEPT ![t] = @ + 1]
          /\ parent \in Table \ {t} /\ t \notin edges[parent]
      BY <1>6 DEF CountForeignKey, Counts
    <2>2. TypeOK'
      BY <1>1, <1>2, <2>1 DEF TypeOK
    <2>3. \A u \in Table : edges'[u] = IF u = parent THEN edges[u] \cup {t} ELSE edges[u]
      BY <1>1, <2>1 DEF TypeOK
    <2>4. Edges'
      <3>1. ASSUME NEW a \in Table, NEW b \in Table
            PROVE  (a \in edges[b])' <=>
                     (a # b /\ \E k \in 1 .. Len(foreignKeys[a]) :
                                 foreignKeys[a][k] = b /\ <<a, k>> \notin left)'
        <4>1. CASE a = t /\ b = parent
          <5>1. (a \in edges[b])' /\ a # b
            <6> HIDE DEF parent
            <6>1. edges'[b] = edges[b] \cup {t}
              BY <2>3, <4>1
            <6> QED
              BY <2>1, <4>1, <6>1
          <5>2. foreignKeys'[a][i] = b /\ <<a, i>> \notin left' /\ foreignKeys' = foreignKeys
            BY <1>2, <4>1
          <5> QED
            BY <4>1, <5>1, <5>2
        <4>2. CASE a # t
          BY <1>1, <1>2, <2>1, <2>3, <4>2 DEF Edges
        <4>3. CASE a = t /\ b # parent
          BY <1>1, <1>2, <2>1, <2>3, <4>3 DEF Edges
        <4> QED
          BY <4>1, <4>2, <4>3
      <3> QED
        BY <3>1 DEF Edges
    <2>5. Counted'
      <3>1. Waiting(t)' = Waiting(t) \cup {parent} /\ parent \notin Waiting(t)
        <4>1. parent \in Table \ Placed
          BY <1>3, <2>1
        <4>2. \A u \in Table : t \in edges'[u] <=> t \in edges[u] \/ u = parent
          BY <2>3
        <4> HIDE DEF parent
        <4> QED
          BY <1>3, <2>1, <4>1, <4>2 DEF Waiting
      <3>2. \A u \in Table \ {t} : Waiting(u)' = Waiting(u)
        BY <1>3, <2>1, <2>3 DEF Waiting
      <3>3. Cardinality(Waiting(t)') = Cardinality(Waiting(t)) + 1
        BY <3>1, WaitingFinite, FS_AddElement
      <3> QED
        BY <1>1, <2>1, <3>2, <3>3 DEF Counted, TypeOK
    <2> QED
      BY <1>3, <1>4, <2>2, <2>4, <2>5 DEF IInv, Ordering
  <1> QED
    BY <1>5, <1>6

LEMMA RootsOrdering ==
  ASSUME IInv, FindRoots
  PROVE  IInv'
  <1>1. TypeOK /\ Edges /\ Counted /\ Readiness
    BY DEF IInv, Ordering
  <1>2. /\ stage = "count" /\ left = {} /\ stage' = "place"
        /\ ready' = {t \in Table : inDegree[t] = 0}
        /\ UNCHANGED <<foreignKeys, left, edges, inDegree, order>>
    BY DEF FindRoots, graph
  <1>3. TypeOK'
    BY <1>1, <1>2 DEF TypeOK, Stage
  <1>4. Placed = {} /\ Placed' = {}
    BY <1>1, <1>2, EmptySeq DEF Readiness, Placed
  <1>5. (ParentsPrecede /\ CyclesUnplaced /\ PlacedOnce)'
    BY <1>2, SameOrder DEF IInv, Ordering
  <1>6. \A t \in Table : Waiting(t)' = Waiting(t)
    BY <1>2, SameWaiting
  <1>7. Edges' /\ Counted'
    BY <1>1, <1>2, <1>6 DEF Edges, Counted
  <1>8. \A t \in Table : inDegree[t] = 0 <=> Waiting(t) = {}
    BY <1>1, WaitingFinite DEF Counted
  <1>9. Readiness'
    BY <1>2, <1>4, <1>6, <1>8 DEF Readiness
  <1> QED
    BY <1>3, <1>5, <1>7, <1>9 DEF IInv, Ordering

LEMMA PlaceOrdering ==
  ASSUME IInv, NEW c \in Table, PlaceTable(c)
  PROVE  IInv'
  <1>1. /\ TypeOK /\ Edges /\ Counted /\ Readiness
        /\ ParentsPrecede /\ CyclesUnplaced /\ PlacedOnce
    BY DEF IInv, Ordering
  <1>2. /\ stage = "place" /\ c \in ready /\ left = {}
        /\ order' = Append(order, c)
        /\ inDegree' = [t \in Table |->
                          IF t \in edges[c] THEN inDegree[t] - 1 ELSE inDegree[t]]
        /\ ready' = (ready \ {c}) \cup {t \in edges[c] : inDegree[t] = 1}
        /\ UNCHANGED <<foreignKeys, left, edges, stage>>
    BY <1>1 DEF PlaceTable, graph, Readiness, BecomesReady
  <1>3. c \notin Placed /\ Waiting(c) = {} /\ ready = {t \in Table \ Placed : Waiting(t) = {}}
    BY <1>1, <1>2 DEF Readiness
  <1>4. /\ Len(order) \in Nat /\ Len(order') = Len(order) + 1
        /\ \A i \in 1 .. Len(order) : order'[i] = order[i]
        /\ order'[Len(order) + 1] = c /\ order' \in Seq(Table)
    BY <1>1, <1>2, LenProperties, AppendProperties DEF TypeOK
  <1>5. Placed' = Placed \cup {c}
    BY <1>4 DEF Placed
  <1>6. Parents(c) \subseteq Placed
    BY <1>1, <1>2, <1>3, NothingToWaitFor
  <1>7. \A t \in Table : Waiting(t)' = Waiting(t) \ {c}
    BY <1>2, <1>5 DEF Waiting
  <1>8. \A t \in Table : c \in Waiting(t) <=> t \in edges[c]
    BY <1>3 DEF Waiting
  <1>9. \A t \in Table :
          /\ t \in edges[c] => Cardinality(Waiting(t)') = Cardinality(Waiting(t)) - 1
          /\ t \notin edges[c] => Cardinality(Waiting(t)') = Cardinality(Waiting(t))
    BY <1>7, <1>8, WaitingFinite, FS_RemoveElement
  <1>10. Counted'
    BY <1>1, <1>2, <1>9 DEF Counted
  <1>11. TypeOK'
    <2>1. \A t \in Table : t \in edges[c] => inDegree[t] - 1 \in Nat
      <3>1. \A t \in Table : t \in edges[c] => inDegree[t] # 0
        BY <1>1, <1>8, WaitingFinite DEF Counted
      <3> QED
        BY <1>1, <3>1 DEF TypeOK
    <2>2. inDegree' \in [Table -> Nat]
      BY <1>1, <1>2, <2>1 DEF TypeOK
    <2>3. ready' \subseteq Table
      BY <1>1, <1>2 DEF TypeOK
    <2> QED
      BY <1>1, <1>2, <1>4, <2>2, <2>3 DEF TypeOK
  <1>12. Edges'
    BY <1>1, <1>2 DEF Edges
  <1>13. Readiness'
    <2>1. \A t \in Table : t \in edges[c] => t \notin Placed /\ t # c
      BY <1>1, <1>2, <1>3, EdgesAreParents, ParentsPlaced DEF Edges
    <2>2. \A t \in Table : t \in edges[c] => (inDegree[t] = 1 <=> Waiting(t)' = {})
      <3>1. ASSUME NEW t \in Table, t \in edges[c]
            PROVE  inDegree[t] = 1 <=> Waiting(t)' = {}
        <4>1. inDegree[t] = 1 <=> \E u : Waiting(t) = {u}
          BY <1>1, WaitingFinite DEF Counted
        <4>2. c \in Waiting(t) /\ Waiting(t)' = Waiting(t) \ {c}
          BY <1>7, <1>8, <3>1
        <4> QED
          BY <4>1, <4>2
      <3> QED
        BY <3>1
    <2>3. \A t \in Table : t \notin edges[c] => Waiting(t)' = Waiting(t)
      BY <1>7, <1>8
    <2>4. \A t \in Table : t \in edges[c] => Waiting(t) # {}
      BY <1>8
    <2>5. \A t \in Table : t \in ready' <=> t \notin Placed' /\ Waiting(t)' = {}
      <3>1. ASSUME NEW t \in Table, t \in edges[c]
            PROVE  t \in ready' <=> t \notin Placed' /\ Waiting(t)' = {}
        BY <1>2, <1>3, <1>5, <2>1, <2>2, <2>4, <3>1
      <3>2. ASSUME NEW t \in Table, t \notin edges[c]
            PROVE  t \in ready' <=> t \notin Placed' /\ Waiting(t)' = {}
        BY <1>2, <1>3, <1>5, <2>3, <3>2
      <3> QED
        BY <3>1, <3>2
    <2>6. ready' = {t \in Table \ Placed' : Waiting(t)' = {}}
      BY <1>11, <2>5 DEF TypeOK
    <2> QED
      BY <1>2, <2>6 DEF Readiness
  <1>14. ParentsPrecede'
    <2>1. foreignKeys' = foreignKeys
      BY <1>2
    <2>2. ASSUME NEW i \in 1 .. Len(order')
          PROVE  /\ \A u \in Parents(order'[i]) : \E j \in 1 .. i - 1 : order'[j] = u
                 /\ \A j \in 1 .. i - 1 : order'[j] # order'[i]
      <3>1. CASE i \in 1 .. Len(order)
        <4>1. order'[i] = order[i] /\ \A j \in 1 .. i - 1 : order'[j] = order[j]
          BY <1>4, <3>1
        <4> QED
          <5>1. \A u \in Parents(order[i]) : \E j \in 1 .. i - 1 : order[j] = u
            BY <1>1, <3>1 DEF ParentsPrecede
          <5>2. \A j \in 1 .. i - 1 : order[j] # order[i]
            BY <1>1, <3>1 DEF ParentsPrecede
          <5>3. Parents(order'[i]) = Parents(order[i])
            BY <4>1
          <5> QED
            BY <4>1, <5>1, <5>2, <5>3
      <3>2. CASE i = Len(order) + 1
        <4>1. order'[i] = c /\ \A j \in 1 .. i - 1 : j \in 1 .. Len(order) /\ order'[j] = order[j]
          BY <1>4, <3>2
        <4>2. i - 1 = Len(order)
          BY <1>4, <3>2
        <4>3. \A u \in Parents(c) : \E j \in 1 .. i - 1 : order'[j] = u
          BY <1>6, <4>1, <4>2 DEF Placed
        <4>4. \A j \in 1 .. i - 1 : order'[j] # c
          BY <1>3, <4>1 DEF Placed
        <4> QED
          BY <4>1, <4>3, <4>4
      <3> QED
        BY <1>4, <3>1, <3>2
    <2> QED
      BY <2>1, <2>2 DEF ParentsPrecede, Parents
  <1>15. CyclesUnplaced'
    <2>1. ASSUME NEW C \in SUBSET Table, \A t \in C : Parents(t) \cap C # {}
          PROVE  C \cap Placed' = {}
      <3>1. C \cap Placed = {}
        BY <1>1, <2>1 DEF CyclesUnplaced
      <3>2. c \notin C
        BY <1>6, <2>1, <3>1
      <3> QED
        BY <1>5, <3>1, <3>2
    <2>2. \A t : Parents(t)' = Parents(t)
      BY <1>2 DEF Parents
    <2> QED
      BY <2>1, <2>2 DEF CyclesUnplaced
  <1>16. PlacedOnce'
    <2>1. Cardinality(Placed \cup {c}) = Cardinality(Placed) + 1
      BY <1>1, <1>3, PlacedFinite, FS_AddElement
    <2> QED
      BY <1>1, <1>4, <1>5, <2>1 DEF PlacedOnce
  <1> QED
    BY <1>10, <1>11, <1>12, <1>13, <1>14, <1>15, <1>16 DEF IInv, Ordering

LEMMA FinishOrdering ==
  ASSUME IInv, Finish
  PROVE  IInv'
  <1>1. TypeOK /\ Edges /\ Counted /\ Readiness
    BY DEF IInv, Ordering
  <1>2. /\ stage = "place" /\ ready = {}
        /\ stage' = IF Len(order) = Cardinality(Table) THEN "done" ELSE "cycle"
        /\ UNCHANGED <<foreignKeys, left, edges, inDegree, ready, order>>
    BY DEF Finish, graph
  <1>3. TypeOK'
    BY <1>1, <1>2 DEF TypeOK, Stage
  <1>4. (ParentsPrecede /\ CyclesUnplaced /\ PlacedOnce)' /\ Placed' = Placed
    BY <1>2, SameOrder DEF IInv, Ordering
  <1>5. \A t \in Table : Waiting(t)' = Waiting(t)
    BY <1>2, SameWaiting
  <1>6. Edges' /\ Counted'
    BY <1>1, <1>2, <1>5 DEF Edges, Counted
  <1>7. Readiness'
    BY <1>1, <1>2, <1>4, <1>5 DEF Readiness
  <1> QED
    BY <1>3, <1>4, <1>6, <1>7 DEF IInv, Ordering

LEMMA NextOrdering == IInv /\ [Next]_vars => IInv'
  <1> SUFFICES ASSUME IInv, [Next]_vars PROVE IInv'
    OBVIOUS
  <1>1. ASSUME NEW t \in Table, NEW i \in 1 .. Len(foreignKeys[t]), CountForeignKey(t, i)
        PROVE  IInv'
    BY <1>1, CountOrdering
  <1>2. CASE FindRoots
    BY <1>2, RootsOrdering
  <1>3. ASSUME NEW t \in Table, PlaceTable(t) PROVE IInv'
    BY <1>3, PlaceOrdering
  <1>4. CASE Finish
    BY <1>4, FinishOrdering
  <1>5. CASE UNCHANGED vars
    <2>1. UNCHANGED <<foreignKeys, left, edges, inDegree, ready, order, stage>>
      BY <1>5 DEF vars
    <2>2. TypeOK'
      BY <2>1 DEF IInv, TypeOK
    <2>3. (ParentsPrecede /\ CyclesUnplaced /\ PlacedOnce)' /\ Placed' = Placed
      BY <2>1, SameOrder DEF IInv, Ordering
    <2>4. \A t \in Table : Waiting(t)' = Waiting(t)
      BY <2>1, SameWaiting
    <2>5. Edges /\ Counted /\ Readiness
      BY DEF IInv, Ordering
    <2>6. Edges'
      BY <2>1, <2>5 DEF Edges
    <2>7. Counted'
      BY <2>1, <2>4, <2>5 DEF Counted
    <2>8. Readiness'
      BY <2>1, <2>3, <2>4, <2>5 DEF Readiness
    <2> QED
      BY <2>2, <2>3, <2>6, <2>7, <2>8 DEF IInv, Ordering
  <1> QED
    BY <1>1, <1>2, <1>3, <1>4, <1>5 DEF Next

LEMMA Invariant == Spec => []IInv
  BY InitOrdering, NextOrdering, PTL DEF Spec

-----------------------------------------------------------------------------
(* Theorems *)

\* The state of topological_insert_order() has its type; above all, no count of parents
\* goes below zero.
THEOREM OrderTypeCorrect == Spec => []TypeOK
  <1>1. IInv => TypeOK
    BY DEF IInv
  <1> QED
    BY <1>1, Invariant, PTL

\* The inductive invariant of the algorithm, for every schema.
THEOREM OrderInvariant == Spec => []Ordering
  <1>1. IInv => Ordering
    BY DEF IInv
  <1> QED
    BY <1>1, Invariant, PTL

\* For every schema, no table of the order that topological_insert_order() builds comes
\* before a parent, and none comes twice.
THEOREM OrderParentsPrecede == Spec => []ParentsPrecede
  <1>1. IInv => ParentsPrecede
    BY DEF IInv, Ordering
  <1> QED
    BY <1>1, Invariant, PTL

LEMMA CyclesFound == IInv => CycleFoundExactly
  <1> SUFFICES ASSUME IInv PROVE CycleFoundExactly
    OBVIOUS
  <1>1. TypeOK /\ Edges /\ Counted /\ Readiness /\ CyclesUnplaced /\ PlacedOnce
    BY DEF IInv, Ordering
  <1>2. Placed \in SUBSET Table
    BY <1>1, PlacedFinite
  <1>3. ASSUME stage = "done" PROVE Placed = Table /\ ~HasCycle
    <2>1. Cardinality(Placed) = Cardinality(Table)
      BY <1>1, <1>3 DEF Readiness, PlacedOnce
    <2>2. Placed = Table
      BY <1>2, <2>1, TableFinite, FS_Subset
    <2>3. ASSUME NEW C \in SUBSET Table, \A t \in C : Parents(t) \cap C # {}
          PROVE  C = {}
      BY <1>1, <2>2, <2>3 DEF CyclesUnplaced
    <2>4. ~HasCycle
      BY <2>3 DEF HasCycle
    <2> QED
      BY <2>2, <2>4
  <1>4. ASSUME stage = "cycle" PROVE HasCycle
    <2>1. Len(order) # Cardinality(Table) /\ left = {}
          /\ {t \in Table \ Placed : Waiting(t) = {}} = {}
      BY <1>1, <1>4 DEF Readiness
    <2>2. Table \ Placed # {}
      <3>1. Placed # Table
        BY <1>1, <2>1 DEF PlacedOnce
      <3> QED
        BY <1>2, <3>1
    <2>3. \A t \in Table \ Placed : Parents(t) \cap (Table \ Placed) # {}
      <3>1. \A t \in Table \ Placed : ~(Parents(t) \subseteq Placed)
        BY <1>1, <2>1, NothingToWaitFor
      <3> QED
        BY <3>1 DEF Parents
    <2> QED
      BY <2>2, <2>3 DEF HasCycle
  <1> QED
    BY <1>3, <1>4 DEF CycleFoundExactly

\* For every schema, CycleError is raised when tables wait for one another and only
\* then; otherwise the order holds every table.
THEOREM OrderFindsCycles == Spec => []CycleFoundExactly
  BY Invariant, CyclesFound, PTL

\* For every schema, the table placed next is the first alphabetically among those whose
\* parents are placed: the result does not depend on the order of the file.
THEOREM OrderAlphabetical == Spec => AlphabeticalAmongReady
  <1> DEFINE First ==
        \A t \in Table : order' = Append(order, t) =>
          \A u \in Table \ Placed : Parents(u) \subseteq Placed => t <= u
  <1>1. IInv /\ [Next]_vars => [First]_order
    <2> SUFFICES ASSUME IInv, Next, order' # order
                 PROVE  First
      BY DEF vars
    <2>1. PICK c \in Table : PlaceTable(c)
      BY DEF Next, CountForeignKey, FindRoots, Finish
    <2>2. TypeOK /\ Edges /\ left = {} /\ ready = {t \in Table \ Placed : Waiting(t) = {}}
      BY <2>1 DEF IInv, Ordering, Readiness, PlaceTable
    <2>3. ASSUME NEW t \in Table, order' = Append(order, t) PROVE t = c
      <3>1. order' = Append(order, c) /\ order \in Seq(Table)
        BY <2>1, <2>2 DEF PlaceTable, TypeOK
      <3>2. Append(order, t)[Len(order) + 1] = t /\ Append(order, c)[Len(order) + 1] = c
        BY <3>1, AppendProperties
      <3> QED
        BY <2>3, <3>1, <3>2
    <2>4. ASSUME NEW u \in Table \ Placed, Parents(u) \subseteq Placed PROVE c <= u
      <3>1. u \in ready
        BY <2>2, <2>4, NothingToWaitFor
      <3> QED
        BY <2>1, <3>1 DEF PlaceTable, MayComeNext
    <2> QED
      BY <2>3, <2>4
  <1>2. Spec => [][First]_order
    BY <1>1, Invariant, PTL DEF Spec
  <1> QED
    BY <1>2 DEF AlphabeticalAmongReady
=============================================================================
