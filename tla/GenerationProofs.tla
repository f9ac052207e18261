---------------------------- MODULE GenerationProofs ----------------------------
(***************************************************************************)
(* Theorems about Generation, for any samples, any number of rows and any  *)
(* failures: what one round generates, what the repair leaves behind, what *)
(* the audit sees, and what stays loaded.                                  *)
(***************************************************************************)
EXTENDS Generation, FiniteSetTheorems, SequenceTheorems, WellFoundedInduction, TLAPS

-----------------------------------------------------------------------------
(* The inductive invariant *)

NoRepeats(s) == \A i, j \in 1 .. Len(s) : s[i] = s[j] => i = j

File(t) == [ColumnsOf(schema[t]) -> [1 .. Rows -> Int \cup {Null}]]

Typed ==
  /\ schema \in Schema
  /\ pool \in [Columns(schema) -> SUBSET Int]
  /\ files = [t \in Tables |-> files[t]]
  /\ \A t \in Tables : files[t] \in File(t) \cup {NoFile}
  /\ history \in [forced : SUBSET Tables, failed : SUBSET Tables, unloaded : SUBSET Tables]

\* A column refers to one key, and the references of the map are among them.
Linked ==
  /\ \A ref \in refs : ref[1] \in Columns(schema) /\ ref[2] \in Tables
  /\ \A ref, other \in refs : ref[1] = other[1] => ref = other
  /\ Explicit(schema) \subseteq refs

\* Every table comes after those that it refers to.
ParentsBefore(s) ==
  \A i \in 1 .. Len(s) : \A p \in Parents(s[i]) : \E j \in 1 .. i - 1 : s[j] = p

\* While the tables are ordered: a table waits for its parents that are not placed,
\* and stands in the queue when it waits for none.
Placing ==
  /\ order \in Seq(Tables) /\ NoRepeats(order) /\ ParentsBefore(order)
  /\ queue \in Seq(Tables) /\ NoRepeats(queue)
  /\ deps = [t \in Tables |-> Parents(t) \ ToSet(order)]
  /\ ToSet(queue) = {t \in Tables \ ToSet(order) : deps[t] = {}}
  /\ todo = <<>> /\ deferred = <<>>
  /\ \A t \in Tables : files[t] = NoFile
  /\ \A x \in Columns(schema) : pool[x] = {}
  /\ history.forced = {} /\ loaded = {}

\* Every table once, parents first if they can be.
Ordered ==
  /\ order \in Seq(Tables) /\ NoRepeats(order) /\ ToSet(order) = Tables
  /\ Acyclic => ParentsBefore(order)

Kahn == IF phase = "order" THEN Placing ELSE Ordered

\* A table that is still to come has no file.
Lists ==
  /\ phase \in {"order", "round", "force", "repair", "load", "done"}
  /\ phase \in {"round", "force"} =>
       /\ todo \in Seq(Tables) /\ deferred \in Seq(Tables)
       /\ NoRepeats(todo) /\ NoRepeats(deferred) /\ ToSet(todo) \cap ToSet(deferred) = {}
       /\ \A t \in ToSet(todo) \cup ToSet(deferred) : files[t] = NoFile
  /\ phase = "force" => deferred = <<>>
  /\ phase = "repair" => todo \in Seq(refs)
  /\ phase \in {"load", "done"} => todo \in Seq(Tables)

\* What was registered is in the file, until a repair of the column.
Kept ==
  \A x \in Columns(schema) :
    phase \in {"order", "round", "force"} \/ Firm(x) => pool[x] \subseteq Written(x)

\* The columns of tables that were not forced refer to registered values, but for
\* those that are written over.
Sound ==
  history.forced = {} =>
    \A ref \in refs : ref[1][2] \notin Overwritten /\ files[ref[1][1]] # NoFile =>
      \A i \in 1 .. Rows : files[ref[1][1]][ref[1][2]][i] \in Registry(ref) \cup {Null}

Whole(ref) ==
  \/ Registry(ref) = {} \/ files[ref[1][1]] = NoFile
  \/ Orphans(files[ref[1][1]][ref[1][2]], Registry(ref)) = {}

\* What was repaired stays so.
Repaired ==
  /\ phase = "repair" => \A ref \in refs : ref \in ToSet(todo) \/ Whole(ref)
  /\ phase \in {"load", "done"} => report = {} /\ \A ref \in refs : Whole(ref)

\* The end of an order, parents first, and the tables before it refer to none of it.
Suffix(s) ==
  /\ s \in Seq(Tables) /\ NoRepeats(s)
  /\ \A t \in Tables \ ToSet(s) : Parents(t) \cap ToSet(s) = {}
  /\ \A i \in 1 .. Len(s) : \A p \in Parents(s[i]) \cap ToSet(s) : \E j \in 1 .. i - 1 : s[j] = p

Regular ==
  Acyclic /\ history.failed = {} /\ \A ref \in refs : Filled(KeyOf(ref))

Supplied(t) == \A col \in ColumnsOf(schema[t]) : Filled(<<t, col>>) => pool[<<t, col>>] # {}

\* A regular round goes through the order, and finds the keys that it needs.
Rounds ==
  Regular =>
    /\ deferred = <<>> /\ history.forced = {}
    /\ phase = "round" => Suffix(todo) /\ \A t \in Tables \ ToSet(todo) : Supplied(t)
    /\ phase = "force" => todo = <<>>

\* Tables that are still to be loaded are not reported, and no table that was
\* refers to them.
Loads ==
  /\ phase \notin {"load", "done"} => loaded = {}
  /\ (Acyclic /\ ConstraintsFound) => loaded \subseteq stored
  /\ (Acyclic /\ ConstraintsFound /\ phase = "load") => Suffix(todo) /\ loaded \cap ToSet(todo) = {}

GenInv ==
  Typed /\ Linked /\ Kahn /\ Lists /\ Kept /\ Sound /\ Repaired /\ Rounds /\ Loads
-----------------------------------------------------------------------------
(* Sequences *)

LEMMA ElementsOf ==
  ASSUME NEW S, NEW s \in Seq(S)
  PROVE  /\ Len(s) \in Nat /\ DOMAIN s = 1 .. Len(s)
         /\ \A i \in 1 .. Len(s) : s[i] \in S
         /\ ToSet(s) = {s[i] : i \in 1 .. Len(s)}
         /\ ToSet(s) \subseteq S
  BY LenProperties, ElementOfSeq DEF ToSet

LEMMA EmptyOf == ToSet(<<>>) = {} /\ NoRepeats(<<>>)
  <1>1. DOMAIN <<>> = {} /\ Len(<<>>) = 0
    OBVIOUS
  <1> QED
    BY <1>1 DEF ToSet, NoRepeats

LEMMA TailOf ==
  ASSUME NEW S, NEW s \in Seq(S), s # <<>>
  PROVE  /\ Len(s) \in Nat \ {0} /\ Head(s) = s[1] /\ Head(s) \in S
         /\ Tail(s) \in Seq(S) /\ Len(Tail(s)) = Len(s) - 1
         /\ \A i \in 1 .. Len(s) - 1 : Tail(s)[i] = s[i + 1]
         /\ ToSet(s) = {Head(s)} \cup ToSet(Tail(s))
  <1>1. /\ Len(s) \in Nat \ {0} /\ Head(s) = s[1] /\ Head(s) \in S
        /\ Tail(s) \in Seq(S) /\ Len(Tail(s)) = Len(s) - 1
        /\ \A i \in 1 .. Len(s) - 1 : Tail(s)[i] = s[i + 1]
    BY EmptySeq, HeadTailProperties
  <1>2. /\ ToSet(s) = {s[i] : i \in 1 .. Len(s)}
        /\ ToSet(Tail(s)) = {Tail(s)[i] : i \in 1 .. Len(s) - 1}
    <2>1. ToSet(Tail(s)) = {Tail(s)[i] : i \in 1 .. Len(Tail(s))}
      <3> DEFINE t == Tail(s)
      <3>1. t \in Seq(S)
        BY <1>1
      <3> HIDE DEF t
      <3>2. ToSet(t) = {t[i] : i \in 1 .. Len(t)}
        BY <3>1, ElementsOf
      <3> QED
        BY <3>2 DEF t
    <2> QED
      BY <1>1, <2>1, ElementsOf
  <1>3. ASSUME NEW i \in 1 .. Len(s) PROVE s[i] \in {Head(s)} \cup ToSet(Tail(s))
    <2>1. CASE i = 1
      BY <1>1, <2>1
    <2>2. CASE i # 1
      <3>1. i - 1 \in 1 .. Len(s) - 1 /\ s[i] = Tail(s)[i - 1]
        BY <1>1, <2>2
      <3> QED
        BY <1>2, <3>1
    <2> QED
      BY <2>1, <2>2
  <1>4. ASSUME NEW i \in 1 .. Len(s) - 1 PROVE Tail(s)[i] \in ToSet(s)
    <2>1. i + 1 \in 1 .. Len(s) /\ Tail(s)[i] = s[i + 1]
      BY <1>1
    <2> QED
      BY <1>2, <2>1
  <1>5. Head(s) \in ToSet(s)
    BY <1>1, <1>2
  <1> QED
    BY <1>1, <1>2, <1>3, <1>4, <1>5

LEMMA TailOnce ==
  ASSUME NEW S, NEW s \in Seq(S), s # <<>>, NoRepeats(s)
  PROVE  NoRepeats(Tail(s)) /\ Head(s) \notin ToSet(Tail(s))
  <1>1. /\ Len(s) \in Nat \ {0} /\ Head(s) = s[1]
        /\ Tail(s) \in Seq(S) /\ Len(Tail(s)) = Len(s) - 1
        /\ \A i \in 1 .. Len(s) - 1 : Tail(s)[i] = s[i + 1]
    BY TailOf
  <1>2. ASSUME NEW i \in 1 .. Len(s) - 1, NEW j \in 1 .. Len(s) - 1, Tail(s)[i] = Tail(s)[j]
        PROVE  i = j
    <2>1. i + 1 \in 1 .. Len(s) /\ j + 1 \in 1 .. Len(s) /\ s[i + 1] = s[j + 1]
      BY <1>1, <1>2
    <2>2. i + 1 = j + 1
      BY <2>1 DEF NoRepeats
    <2> QED
      BY <2>2
  <1>3. ASSUME NEW i \in 1 .. Len(s) - 1, Tail(s)[i] = Head(s)
        PROVE  FALSE
    <2>1. i + 1 \in 1 .. Len(s) /\ 1 \in 1 .. Len(s) /\ s[i + 1] = s[1]
      BY <1>1, <1>3
    <2>2. i + 1 = 1
      BY <2>1 DEF NoRepeats
    <2> QED
      BY <2>2
  <1>4. ToSet(Tail(s)) = {Tail(s)[i] : i \in 1 .. Len(s) - 1}
    <2>1. ToSet(Tail(s)) = {Tail(s)[i] : i \in 1 .. Len(Tail(s))}
      <3> DEFINE t == Tail(s)
      <3>1. t \in Seq(S)
        BY <1>1
      <3> HIDE DEF t
      <3>2. ToSet(t) = {t[i] : i \in 1 .. Len(t)}
        BY <3>1, ElementsOf
      <3> QED
        BY <3>2 DEF t
    <2> QED
      BY <1>1, <2>1
  <1> QED
    BY <1>1, <1>2, <1>3, <1>4 DEF NoRepeats

LEMMA ConcatOf ==
  ASSUME NEW S, NEW s \in Seq(S), NEW t \in Seq(S)
  PROVE  /\ s \o t \in Seq(S) /\ Len(s \o t) = Len(s) + Len(t)
         /\ \A i \in 1 .. Len(s) : (s \o t)[i] = s[i]
         /\ \A i \in 1 .. Len(t) : (s \o t)[Len(s) + i] = t[i]
         /\ \A k \in 1 .. Len(s) + Len(t) :
              k \in 1 .. Len(s) \/ \E i \in 1 .. Len(t) : k = Len(s) + i
         /\ ToSet(s \o t) = ToSet(s) \cup ToSet(t)
         /\ (NoRepeats(s) /\ NoRepeats(t) /\ ToSet(s) \cap ToSet(t) = {}) => NoRepeats(s \o t)
  <1> DEFINE u == s \o t
  <1>1. /\ u \in Seq(S) /\ Len(u) = Len(s) + Len(t)
        /\ \A i \in 1 .. Len(s) + Len(t) : u[i] = IF i <= Len(s) THEN s[i] ELSE t[i - Len(s)]
    BY ConcatProperties
  <1>2. Len(s) \in Nat /\ Len(t) \in Nat
    BY ElementsOf
  <1> HIDE DEF u
  <1>3. ASSUME NEW i \in 1 .. Len(s) PROVE u[i] = s[i] /\ i \in 1 .. Len(u)
    BY <1>1, <1>2
  <1>4. ASSUME NEW i \in 1 .. Len(t) PROVE u[Len(s) + i] = t[i] /\ Len(s) + i \in 1 .. Len(u)
    <2>1. Len(s) + i \in 1 .. Len(s) + Len(t) /\ ~(Len(s) + i <= Len(s)) /\ (Len(s) + i) - Len(s) = i
      BY <1>2
    <2> QED
      BY <1>1, <2>1
  <1>5. ASSUME NEW k \in 1 .. Len(s) + Len(t)
        PROVE  k \in 1 .. Len(s) \/ \E i \in 1 .. Len(t) : k = Len(s) + i
    <2>1. CASE k <= Len(s)
      BY <1>2, <2>1
    <2>2. CASE k > Len(s)
      <3>1. k - Len(s) \in 1 .. Len(t) /\ k = Len(s) + (k - Len(s))
        BY <1>2, <2>2
      <3> QED
        BY <3>1
    <2> QED
      BY <1>2, <2>1, <2>2
  <1>6. /\ ToSet(u) = {u[i] : i \in 1 .. Len(u)}
        /\ ToSet(s) = {s[i] : i \in 1 .. Len(s)} /\ ToSet(t) = {t[i] : i \in 1 .. Len(t)}
    BY <1>1, ElementsOf
  <1>7. ToSet(u) = ToSet(s) \cup ToSet(t)
    <2>1. \A k \in 1 .. Len(u) : u[k] \in ToSet(s) \cup ToSet(t)
      <3> SUFFICES ASSUME NEW k \in 1 .. Len(u) PROVE u[k] \in ToSet(s) \cup ToSet(t)
        OBVIOUS
      <3>1. CASE k \in 1 .. Len(s)
        BY <1>3, <1>6, <3>1
      <3>2. CASE \E i \in 1 .. Len(t) : k = Len(s) + i
        BY <1>4, <1>6, <3>2
      <3> QED
        BY <1>1, <1>5, <3>1, <3>2
    <2>2. \A i \in 1 .. Len(s) : s[i] \in ToSet(u)
      BY <1>3, <1>6
    <2>3. \A i \in 1 .. Len(t) : t[i] \in ToSet(u)
      BY <1>4, <1>6
    <2> QED
      BY <1>6, <2>1, <2>2, <2>3
  <1>8. ASSUME NoRepeats(s), NoRepeats(t), ToSet(s) \cap ToSet(t) = {}
        PROVE  NoRepeats(u)
    <2> SUFFICES ASSUME NEW k \in 1 .. Len(u), NEW l \in 1 .. Len(u), u[k] = u[l]
                 PROVE  k = l
      BY DEF NoRepeats
    <2>1. CASE k \in 1 .. Len(s) /\ l \in 1 .. Len(s)
      BY <1>3, <1>8, <2>1 DEF NoRepeats
    <2>2. CASE k \in 1 .. Len(s) /\ \E i \in 1 .. Len(t) : l = Len(s) + i
      BY <1>3, <1>4, <1>6, <1>8, <2>2
    <2>3. CASE l \in 1 .. Len(s) /\ \E i \in 1 .. Len(t) : k = Len(s) + i
      BY <1>3, <1>4, <1>6, <1>8, <2>3
    <2>4. CASE (\E i \in 1 .. Len(t) : k = Len(s) + i) /\ (\E i \in 1 .. Len(t) : l = Len(s) + i)
      <3>1. PICK i \in 1 .. Len(t), j \in 1 .. Len(t) : k = Len(s) + i /\ l = Len(s) + j
        BY <2>4
      <3>2. t[i] = t[j]
        BY <1>4, <3>1
      <3> QED
        BY <1>8, <3>1, <3>2 DEF NoRepeats
    <2> QED
      BY <1>1, <1>5, <2>1, <2>2, <2>3, <2>4
  <1> QED
    BY <1>1, <1>3, <1>4, <1>5, <1>7, <1>8 DEF u

LEMMA SingletonOf ==
  ASSUME NEW S, NEW x \in S
  PROVE  <<x>> \in Seq(S) /\ Len(<<x>>) = 1 /\ <<x>>[1] = x /\ ToSet(<<x>>) = {x} /\ NoRepeats(<<x>>)
  <1>1. <<x>> \in Seq(S) /\ Len(<<x>>) = 1 /\ DOMAIN <<x>> = {1} /\ <<x>>[1] = x
    OBVIOUS
  <1> QED
    BY <1>1 DEF ToSet, NoRepeats

LEMMA AppendOf ==
  ASSUME NEW S, NEW s \in Seq(S), NEW x \in S
  PROVE  /\ Append(s, x) \in Seq(S) /\ ToSet(Append(s, x)) = ToSet(s) \cup {x}
         /\ Len(Append(s, x)) = Len(s) + 1 /\ Len(s) \in Nat
         /\ \A i \in 1 .. Len(s) : Append(s, x)[i] = s[i]
         /\ Append(s, x)[Len(s) + 1] = x
         /\ (NoRepeats(s) /\ x \notin ToSet(s)) => NoRepeats(Append(s, x))
  <1> DEFINE last == <<x>>
             u == s \o last
  <1>1. /\ last \in Seq(S) /\ Len(last) = 1 /\ last[1] = x
        /\ ToSet(last) = {x} /\ NoRepeats(last)
    BY SingletonOf
  <1> HIDE DEF last
  <1>2. /\ u \in Seq(S) /\ Len(u) = Len(s) + Len(last)
        /\ \A i \in 1 .. Len(s) : u[i] = s[i]
        /\ \A i \in 1 .. Len(last) : u[Len(s) + i] = last[i]
        /\ ToSet(u) = ToSet(s) \cup ToSet(last)
        /\ (NoRepeats(s) /\ NoRepeats(last) /\ ToSet(s) \cap ToSet(last) = {}) => NoRepeats(u)
    BY <1>1, ConcatOf
  <1>3. Append(s, x) = u
    BY AppendIsConcat DEF last
  <1>4. Len(s) \in Nat
    BY ElementsOf
  <1> HIDE DEF u
  <1> QED
    BY <1>1, <1>2, <1>3, <1>4

\* The tables of a set, each once.
LEMMA ListedIs ==
  ASSUME NEW S \in SUBSET Nat, IsFiniteSet(S)
  PROVE  Listed(S) \in Seq(S) /\ NoRepeats(Listed(S)) /\ ToSet(Listed(S)) = S
  <1> DEFINE n == Cardinality(S)
             below(t) == {u \in S : u <= t}
             place == [t \in S |-> Cardinality(below(t))]
             s == Listed(S)
  <1>1. n \in Nat
    BY FS_CardinalityType
  <1>2. ASSUME NEW t \in S PROVE IsFiniteSet(below(t)) /\ place[t] \in 1 .. n
    <2>1. IsFiniteSet(below(t)) /\ Cardinality(below(t)) <= n
      BY FS_Subset
    <2>2. t \in below(t)
      OBVIOUS
    <2> HIDE DEF below
    <2>3. Cardinality(below(t)) \in Nat /\ Cardinality(below(t)) # 0
      BY <2>1, <2>2, FS_CardinalityType, FS_EmptySet
    <2> QED
      BY <1>1, <2>1, <2>3
  <1>3. ASSUME NEW t \in S, NEW u \in S, t < u PROVE place[t] # place[u]
    <2>1. below(t) \in SUBSET below(u) /\ u \in below(u) /\ u \notin below(t)
      <3>1. t \in Nat /\ u \in Nat /\ \A v \in S : v \in Nat
        OBVIOUS
      <3>2. \A v \in S : v <= t => v <= u
        BY <1>3, <3>1
      <3>3. u <= u /\ ~(u <= t)
        BY <1>3, <3>1
      <3> QED
        BY <3>2, <3>3
    <2> HIDE DEF below
    <2>2. below(t) # below(u)
      BY <2>1
    <2> QED
      BY <1>2, <2>1, <2>2, FS_Subset
  <1>4. place \in Injection(S, 1 .. n)
    <2>1. place \in [S -> 1 .. n]
      BY <1>2
    <2>2. \A t, u \in S : place[t] = place[u] => t = u
      <3> HIDE DEF place
      <3> SUFFICES ASSUME NEW t \in S, NEW u \in S, place[t] = place[u] PROVE t = u
        OBVIOUS
      <3>1. ~(t < u) /\ ~(u < t) /\ t \in Nat /\ u \in Nat
        BY <1>3
      <3> QED
        BY <3>1
    <2> HIDE DEF place
    <2> QED
      BY <2>1, <2>2 DEF Injection, IsInjective
  <1>5. place \in Surjection(S, 1 .. n)
    <2>1. IsFiniteSet(1 .. n) /\ Cardinality(1 .. n) = n
      BY <1>1, FS_Interval
    <2> HIDE DEF place
    <2> QED
      BY <1>4, <2>1, FS_Injection
  <1>6. s = [i \in 1 .. n |-> CHOOSE t \in S : Cardinality({u \in S : u <= t}) = i]
    BY DEF Listed
  <1>7. ASSUME NEW i \in 1 .. n PROVE s[i] \in S /\ place[s[i]] = i
    <2>1. \E t \in S : place[t] = i
      <3> HIDE DEF place
      <3> QED
        BY <1>5 DEF Surjection
    <2>2. \E t \in S : Cardinality({u \in S : u <= t}) = i
      BY <2>1
    <2>3. s[i] \in S /\ Cardinality({u \in S : u <= s[i]}) = i
      <3> HIDE DEF s, n
      <3> QED
        BY <1>6, <2>2
    <2> HIDE DEF s
    <2> QED
      BY <2>3
  <1>8. ASSUME NEW t \in S PROVE place[t] \in 1 .. n /\ s[place[t]] = t
    <2>1. place[t] \in 1 .. n
      BY <1>2
    <2>2. place[s[place[t]]] = place[t] /\ s[place[t]] \in S
      BY <1>7, <2>1
    <2> HIDE DEF place, s
    <2> QED
      BY <1>4, <2>1, <2>2 DEF Injection, IsInjective
  <1> HIDE DEF s, place
  <1>9. s \in [1 .. n -> S]
    <2>1. DOMAIN s = 1 .. n /\ s = [i \in 1 .. n |-> s[i]]
      BY <1>6
    <2> QED
      BY <1>7, <2>1
  <1>10. s \in Seq(S) /\ Len(s) = n /\ DOMAIN s = 1 .. n
    <2>1. s \in Seq(S)
      BY <1>1, <1>9, SeqDef
    <2>2. DOMAIN s = 1 .. n
      BY <1>9
    <2> QED
      BY <1>1, <2>1, <2>2, LenProperties
  <1>11. NoRepeats(s)
    BY <1>7, <1>10 DEF NoRepeats
  <1>12. ToSet(s) = S
    BY <1>7, <1>8, <1>10 DEF ToSet
  <1> QED
    BY <1>10, <1>11, <1>12 DEF s

LEMMA SetToSeqIs ==
  ASSUME NEW S, IsFiniteSet(S)
  PROVE  SetToSeq(S) \in Seq(S) /\ ToSet(SetToSeq(S)) = S
  <1> DEFINE n == Cardinality(S)
             s == SetToSeq(S)
  <1>1. n \in Nat /\ ExistsBijection(1 .. n, S)
    BY FS_CardinalityType
  <1>2. \E f \in [1 .. n -> S] : IsInjective(f)
    BY <1>1 DEF ExistsBijection, Bijection, Injection
  <1>3. s \in [1 .. n -> S] /\ IsInjective(s)
    BY <1>2 DEF SetToSeq
  <1> HIDE DEF s
  <1>4. s \in Injection(1 .. n, S)
    BY <1>3 DEF Injection
  <1>5. Cardinality(1 .. n) = n
    BY <1>1, FS_Interval
  <1>6. s \in Surjection(1 .. n, S)
    BY <1>4, <1>5, FS_Injection
  <1>7. s \in Seq(S)
    BY <1>1, <1>3, SeqDef
  <1>8. DOMAIN s = 1 .. n
    BY <1>3
  <1>9. ToSet(s) = S
    BY <1>3, <1>6, <1>8 DEF ToSet, Surjection
  <1> QED
    BY <1>7, <1>9 DEF s

-----------------------------------------------------------------------------
(* Finite sets *)

\* A set of naturals has a least element.
LEMMA Least ==
  ASSUME NEW S \in SUBSET Nat, S # {}
  PROVE  \E x \in S : \A y \in S : x <= y
  <1> DEFINE Less == OpToRel(<, Nat)
  <1>1. IsWellFoundedOn(Less, Nat)
    BY NatLessThanWellFounded
  <1>2. \A x \in Nat, y \in Nat : <<y, x>> \in Less <=> y < x
    BY DEF OpToRel
  <1> HIDE DEF Less
  <1>3. PICK x \in S : \A y \in S : ~ (<<y, x>> \in Less)
    BY <1>1, WFMin
  <1>4. ASSUME NEW y \in S PROVE x <= y
    <2>1. x \in Nat /\ y \in Nat
      OBVIOUS
    <2>2. ~(y < x)
      BY <1>2, <1>3, <2>1
    <2> QED
      BY <2>1, <2>2
  <1> QED
    BY <1>4

\* Of finitely many scores one is the greatest.
LEMMA Greatest ==
  ASSUME NEW T, IsFiniteSet(T), T # {}, NEW f, \A t \in T : f[t] \in Int
  PROVE  \E t \in T : \A u \in T : f[u] <= f[t]
  <1> DEFINE topped(X) == \E t \in X : \A u \in X : f[u] <= f[t]
             wrong(X) == X # {} /\ ~topped(X)
             sizes == {n \in Nat : \E X \in SUBSET T : wrong(X) /\ Cardinality(X) = n}
  <1> SUFFICES ASSUME ~topped(T) PROVE FALSE
    OBVIOUS
  <1>1. Cardinality(T) \in sizes
    BY FS_CardinalityType
  <1> HIDE DEF topped, sizes
  <1>2. PICK n \in sizes : \A m \in sizes : n <= m
    BY <1>1, Least DEF sizes
  <1>3. PICK X \in SUBSET T : wrong(X) /\ Cardinality(X) = n
    BY <1>2 DEF sizes
  <1>4. PICK x \in X : TRUE
    BY <1>3
  <1> DEFINE Y == X \ {x}
  <1>5. IsFiniteSet(X) /\ IsFiniteSet(Y) /\ Cardinality(Y) = n - 1
    BY <1>3, <1>4, FS_Subset, FS_RemoveElement
  <1>6. n \in Nat /\ Cardinality(Y) \in Nat /\ Y \in SUBSET T
    BY <1>2, <1>5, FS_CardinalityType DEF sizes
  <1>7. ~wrong(Y)
    <2> SUFFICES ASSUME wrong(Y) PROVE FALSE
      OBVIOUS
    <2>1. Cardinality(Y) \in sizes
      BY <1>6 DEF sizes
    <2>2. n <= n - 1
      BY <1>2, <1>5, <2>1
    <2> QED
      BY <1>6, <2>2
  <1>8. f[x] \in Int /\ \A u \in X : f[u] \in Int
    BY <1>4
  <1>9. CASE Y = {}
    <2>1. \A u \in X : f[u] <= f[x]
      BY <1>8, <1>9
    <2> QED
      BY <1>3, <1>4, <2>1 DEF topped
  <1>10. CASE Y # {}
    <2>1. PICK y \in Y : \A u \in Y : f[u] <= f[y]
      BY <1>7, <1>10 DEF topped
    <2>2. y \in X /\ f[y] \in Int
      BY <1>8
    <2>3. CASE f[y] <= f[x]
      <3>1. \A u \in X : f[u] <= f[x]
        BY <1>8, <2>1, <2>2, <2>3
      <3> QED
        BY <1>3, <1>4, <3>1 DEF topped
    <2>4. CASE f[x] <= f[y]
      <3>1. \A u \in X : f[u] <= f[y]
        BY <1>8, <2>1, <2>2, <2>4
      <3> QED
        BY <1>3, <2>2, <3>1 DEF topped
    <2> QED
      BY <1>8, <2>2, <2>3, <2>4
  <1> QED
    BY <1>9, <1>10

-----------------------------------------------------------------------------
(* The plan *)

LEMMA SamplesAre ==
  ASSUME NEW s \in Schema
  PROVE  /\ Len(s) \in Nat /\ DOMAIN s = 1 .. Len(s)
         /\ \A t \in DOMAIN s :
              /\ s[t].cols \in Seq(Sample) /\ Len(s[t].cols) \in Nat
              /\ DOMAIN s[t].cols = 1 .. Len(s[t].cols)
              /\ \A k \in DOMAIN s[t].cols : s[t].cols[k] \in Sample
  <1>1. s \in Seq(TableSample)
    BY SchemaAssumption
  <1>2. Len(s) \in Nat /\ DOMAIN s = 1 .. Len(s) /\ \A t \in DOMAIN s : s[t] \in TableSample
    BY <1>1, ElementsOf
  <1>3. ASSUME NEW t \in DOMAIN s
        PROVE  /\ s[t].cols \in Seq(Sample) /\ Len(s[t].cols) \in Nat
               /\ DOMAIN s[t].cols = 1 .. Len(s[t].cols)
               /\ \A k \in DOMAIN s[t].cols : s[t].cols[k] \in Sample
    <2> DEFINE cols == s[t].cols
    <2>1. cols \in Seq(Sample)
      BY <1>2 DEF TableSample
    <2> HIDE DEF cols
    <2>2. Len(cols) \in Nat /\ DOMAIN cols = 1 .. Len(cols) /\ \A k \in DOMAIN cols : cols[k] \in Sample
      BY <2>1, ElementsOf
    <2> QED
      BY <2>1, <2>2 DEF cols
  <1> QED
    BY <1>2, <1>3

LEMMA TablesFinite ==
  ASSUME NEW s \in Schema
  PROVE  IsFiniteSet(DOMAIN s) /\ DOMAIN s \subseteq Nat /\ IsFiniteSet(Columns(s))
  <1>1. Len(s) \in Int /\ DOMAIN s = 1 .. Len(s)
    BY SamplesAre
  <1>2. IsFiniteSet(1 .. Len(s))
    BY <1>1, FS_Interval
  <1>3. IsFiniteSet(DOMAIN s) /\ DOMAIN s \subseteq Nat
    BY <1>1, <1>2
  <1>4. IsFiniteSet(Columns(s))
    <2> DEFINE width(t) == Len(s[t].cols)
               part == [t \in DOMAIN s |-> {t} \X ColumnsOf(s[t])]
               parts == {part[t] : t \in DOMAIN s}
    <2>1. ASSUME NEW t \in DOMAIN s PROVE IsFiniteSet(part[t])
      <3> DEFINE cols == s[t].cols
                 name == [k \in DOMAIN cols |-> cols[k].name]
                 C == ColumnsOf(s[t])
      <3>1. Len(cols) \in Int /\ DOMAIN cols = 1 .. Len(cols)
        BY SamplesAre
      <3>2. name \in Surjection(DOMAIN cols, C)
        BY DEF Surjection, ColumnsOf
      <3>3. IsFiniteSet(DOMAIN cols)
        <4>1. IsFiniteSet(1 .. Len(cols))
          BY <3>1, FS_Interval
        <4> QED
          BY <3>1, <4>1
      <3> HIDE DEF name, C, cols
      <3>4. IsFiniteSet(C)
        BY <3>2, <3>3, FS_Surjection
      <3>5. IsFiniteSet({t} \X C)
        BY <3>4, FS_Singleton, FS_Product
      <3> QED
        BY <3>5 DEF C
    <2>2. part \in Surjection(DOMAIN s, parts)
      BY DEF Surjection
    <2> HIDE DEF part
    <2>3. IsFiniteSet(parts)
      <3> HIDE DEF parts
      <3> QED
        BY <1>3, <2>2, FS_Surjection
    <2>4. \A P \in parts : IsFiniteSet(P)
      BY <2>1
    <2>5. IsFiniteSet(UNION parts)
      <3> HIDE DEF parts
      <3> QED
        BY <2>3, <2>4, FS_UNION
    <2>6. UNION parts = Columns(s)
      BY DEF part, Columns
    <2> QED
      BY <2>5, <2>6
  <1> QED
    BY <1>3, <1>4

LEMMA ProfileStart ==
  ASSUME NEW s \in Schema, NEW t \in DOMAIN s, NEW col \in ColumnsOf(s[t])
  PROVE  ProfileOf(s[t], col).start \in Int
  <1> DEFINE k == CHOOSE k \in DOMAIN s[t].cols : s[t].cols[k].name = col
             sample == s[t].cols[k]
  <1>1. \E n \in DOMAIN s[t].cols : s[t].cols[n].name = col
    BY DEF ColumnsOf
  <1>2. k \in DOMAIN s[t].cols
    BY <1>1
  <1>3. sample \in Sample
    BY <1>2, SamplesAre
  <1>4. ProfileOf(s[t], col) = Profile(sample)
    BY DEF ProfileOf
  <1> HIDE DEF sample
  <1>5. sample.top \in Int
    BY <1>3 DEF Sample
  <1>6. Profile(sample).start = IF ~IsIdentifier(sample.name) THEN 0
                                ELSE IF sample.numeric THEN sample.top ELSE 1000000
    BY DEF Profile
  <1>7. Profile(sample).start \in Int
    BY <1>5, <1>6
  <1> QED
    BY <1>4, <1>7

LEMMA ScoreInt ==
  ASSUME NEW s \in Schema, NEW t \in DOMAIN s, NEW col \in ColumnsOf(s[t])
  PROVE  Score(s[t], col) \in Int
  <1> DEFINE prof == ProfileOf(s[t], col)
             first == IF prof.strategy = "sequential" THEN 25 ELSE 0
             second == IF prof.unique THEN 15 ELSE IF prof.strategy = "int_range" THEN 5 ELSE 0
             third == IF HasOwnSurrogate(s[t], col) THEN -20 ELSE 30
             base == first + second + third
             start == prof.start
  <1>1. Score(s[t], col) = base * StartScale - start
    BY DEF Score
  <1>2. start \in Int
    BY ProfileStart
  <1>3. first \in Int /\ second \in Int /\ third \in Int
    OBVIOUS
  <1> HIDE DEF first, second, third
  <1>4. base \in Int
    BY <1>3
  <1> HIDE DEF base, start
  <1>5. StartScale \in Int
    BY ScaleAssumption
  <1>6. base * StartScale \in Int
    BY <1>4, <1>5
  <1> QED
    BY <1>1, <1>2, <1>6

\* Every column has an owner, which is a table.
LEMMA OwnersAre ==
  ASSUME NEW s \in Schema, NEW owner \in Ownerships(s), NEW col \in AllColumns(s)
  PROVE  owner[col] \in DOMAIN s
  <1> DEFINE having == {t \in DOMAIN s : col \in ColumnsOf(s[t])}
             score == [t \in having |-> Score(s[t], col)]
             best == [c \in AllColumns(s) |-> BestOwners(s, c)]
             tied == {c \in AllColumns(s) : Cardinality(best[c]) > 1}
  <1>1. having # {}
    BY DEF AllColumns
  <1>2. IsFiniteSet(having)
    BY TablesFinite, FS_Subset
  <1>3. \A t \in having : score[t] \in Int
    BY ScoreInt
  <1>4. PICK t \in having : \A u \in having : score[u] <= score[t]
    <2> HIDE DEF score, having
    <2> QED
      BY <1>1, <1>2, <1>3, Greatest
  <1>5. t \in BestOwners(s, col)
    BY <1>4 DEF BestOwners
  <1>6. BestOwners(s, col) \subseteq DOMAIN s
    BY DEF BestOwners
  <1>7. PICK pick \in {f \in [tied -> DOMAIN s] : \A c \in tied : f[c] \in best[c]} :
          owner = [c \in AllColumns(s) |->
                     IF c \in tied THEN pick[c] ELSE CHOOSE u \in best[c] : TRUE]
    BY DEF Ownerships
  <1>8. owner[col] = IF col \in tied THEN pick[col] ELSE CHOOSE u \in best[col] : TRUE
    BY <1>7
  <1>9. best[col] = BestOwners(s, col)
    OBVIOUS
  <1> HIDE DEF best, tied
  <1>10. CASE col \in tied
    BY <1>7, <1>8, <1>10
  <1>11. CASE col \notin tied
    <2>1. \E u \in best[col] : TRUE
      BY <1>5, <1>9
    <2>2. owner[col] \in best[col]
      BY <1>8, <1>11, <2>1
    <2> QED
      BY <1>6, <1>9, <2>2
  <1> QED
    BY <1>10, <1>11

LEMMA PlacesAre ==
  ASSUME NEW s \in Schema, NEW p \in Places(s)
  PROVE  /\ p = <<p[1], p[2]>> /\ p[1] \in Nat /\ p[2] \in Nat
         /\ NameAt(s, p) \in AllColumns(s)
  <1>1. PICK t \in DOMAIN s : p \in {t} \X DOMAIN s[t].cols
    BY DEF Places
  <1>2. p = <<p[1], p[2]>> /\ p[1] = t /\ p[2] \in DOMAIN s[t].cols
    BY <1>1
  <1>3. t \in Nat /\ p[2] \in Nat
    BY <1>2, SamplesAre
  <1>4. NameAt(s, p) \in ColumnsOf(s[t])
    BY <1>2 DEF NameAt, ColumnsOf
  <1> QED
    BY <1>2, <1>3, <1>4 DEF AllColumns

LEMMA FirstOnly ==
  ASSUME NEW s \in Schema, NEW p \in Places(s), NEW q \in Places(s), ~Precedes(p, q), ~Precedes(q, p)
  PROVE  p = q
  BY PlacesAre DEF Precedes

LEMMA HeuristicIs ==
  ASSUME NEW s \in Schema, NEW owner \in Ownerships(s), NEW x
  PROVE  /\ \A ref \in Heuristic(s, owner, x) : ref[1] = x /\ ref[2] \in DOMAIN s
         /\ \A ref, other \in Heuristic(s, owner, x) : ref = other
  <1> DEFINE match == {p \in Places(s) : /\ owner[NameAt(s, p)] # x[1]
                                         /\ SuffixMatches(x[2], NameAt(s, p))}
             first == {p \in match : \A q \in match : ~Precedes(q, p)}
             made(p) == <<x, owner[NameAt(s, p)], NameAt(s, p)>>
  <1>1. Heuristic(s, owner, x) = {made(p) : p \in first}
    BY DEF Heuristic
  <1>2. \A p \in first : p \in Places(s) /\ owner[NameAt(s, p)] \in DOMAIN s
    BY PlacesAre, OwnersAre
  <1>3. \A p, q \in first : p = q
    BY FirstOnly
  <1> HIDE DEF first
  <1> QED
    BY <1>1, <1>2, <1>3

\* The map has one key for a column, whatever its table.
LEMMA DeclaredOnce ==
  ASSUME NEW table, NEW col, NEW parent, NEW pcol, Declared(table, col, parent, pcol),
         NEW parent2, NEW pcol2, Declared(table, col, parent2, pcol2)
  PROVE  parent = parent2 /\ pcol = pcol2
  BY DEF Declared

LEMMA ExplicitIs ==
  ASSUME NEW s \in Schema
  PROVE  /\ \A ref \in Explicit(s) : ref[1] \in Columns(s) /\ ref[2] \in DOMAIN s
         /\ \A ref, other \in Explicit(s) : ref[1] = other[1] => ref = other
  <1>1. \A ref \in Explicit(s) :
          /\ ref = <<ref[1], ref[2], ref[3]>>
          /\ ref[1] \in Columns(s) /\ ref[2] \in DOMAIN s
          /\ Declared(s[ref[1][1]].name, ref[1][2], s[ref[2]].name, ref[3])
    BY DEF Explicit
  <1>2. ASSUME NEW ref \in Explicit(s), NEW other \in Explicit(s), ref[1] = other[1]
        PROVE  ref = other
    <2>1. s[ref[2]].name = s[other[2]].name /\ ref[3] = other[3]
      BY <1>1, <1>2, DeclaredOnce
    <2>2. ref[2] = other[2]
      BY <1>1, <2>1, SchemaAssumption
    <2> QED
      BY <1>1, <1>2, <2>1, <2>2
  <1> QED
    BY <1>1, <1>2

LEMMA ForeignKeysAre ==
  ASSUME NEW s \in Schema, NEW owner \in Ownerships(s)
  PROVE  LET keys == ForeignKeys(s, owner)
         IN /\ \A ref \in keys : ref[1] \in Columns(s) /\ ref[2] \in DOMAIN s
            /\ \A ref, other \in keys : ref[1] = other[1] => ref = other
            /\ Explicit(s) \subseteq keys
  <1> DEFINE mapped == {e[1] : e \in Explicit(s)}
             keys == ForeignKeys(s, owner)
  <1>1. keys = Explicit(s) \cup UNION {Heuristic(s, owner, x) : x \in Columns(s) \ mapped}
    BY DEF ForeignKeys
  <1>2. \A ref \in keys : ref \in Explicit(s) \/ \E x \in Columns(s) \ mapped : ref \in Heuristic(s, owner, x)
    BY <1>1
  <1>3. \A ref \in Explicit(s) : ref[1] \in mapped
    OBVIOUS
  <1>4. Explicit(s) \subseteq keys
    BY <1>1
  <1> HIDE DEF mapped, keys
  <1>5. \A ref \in keys : ref[1] \in Columns(s) /\ ref[2] \in DOMAIN s
    BY <1>2, ExplicitIs, HeuristicIs
  <1>6. ASSUME NEW ref \in keys, NEW other \in keys, ref[1] = other[1] PROVE ref = other
    <2>1. CASE ref \in Explicit(s) /\ other \in Explicit(s)
      BY <1>6, <2>1, ExplicitIs
    <2>2. CASE ref \in Explicit(s) /\ other \notin Explicit(s)
      BY <1>2, <1>3, <1>6, <2>2, HeuristicIs
    <2>3. CASE ref \notin Explicit(s) /\ other \in Explicit(s)
      BY <1>2, <1>3, <1>6, <2>3, HeuristicIs
    <2>4. CASE ref \notin Explicit(s) /\ other \notin Explicit(s)
      <3>1. PICK x \in Columns(s) \ mapped : ref \in Heuristic(s, owner, x)
        BY <1>2, <2>4
      <3>2. PICK y \in Columns(s) \ mapped : other \in Heuristic(s, owner, y)
        BY <1>2, <2>4
      <3>3. x = y
        BY <1>6, <3>1, <3>2, HeuristicIs
      <3> QED
        BY <3>1, <3>2, <3>3, HeuristicIs
    <2> QED
      BY <2>1, <2>2, <2>3, <2>4
  <1> QED
    BY <1>4, <1>5, <1>6 DEF keys

-----------------------------------------------------------------------------
(* One state *)

\* The plan is never changed once it is made.
LEMMA PlanStays ==
  ASSUME UNCHANGED <<schema, refs>>
  PROVE  /\ Tables' = Tables /\ (\A t : Parents(t)' = Parents(t)) /\ Acyclic' = Acyclic
         /\ ConstraintsFound' = ConstraintsFound
         /\ \A s : Suffix(s)' = Suffix(s) /\ ParentsBefore(s)' = ParentsBefore(s)
  <1>1. Tables' = Tables
    BY DEF Tables
  <1>2. \A t : Parents(t)' = Parents(t)
    BY DEF Parents
  <1>3. Acyclic' = Acyclic
    BY <1>1, <1>2 DEF Acyclic
  <1>4. \A s : ParentsBefore(s)' = ParentsBefore(s)
    BY <1>2 DEF ParentsBefore
  <1>5. \A s : Suffix(s)' = Suffix(s)
    BY <1>1, <1>2 DEF Suffix
  <1>6. ConstraintsFound' = ConstraintsFound
    <2>1. \A t : Descendants(t)' = Descendants(t)
      BY <1>1, <1>2 DEF Descendants
    <2>2. \A t : Cascade(t)' = Cascade(t)
      BY <1>1 DEF Cascade
    <2> QED
      BY <1>1, <2>1, <2>2 DEF ConstraintsFound
  <1> QED
    BY <1>1, <1>2, <1>3, <1>4, <1>5, <1>6

LEMMA LinkedStays ==
  ASSUME Linked, UNCHANGED <<schema, refs>>
  PROVE  Linked'
  BY DEF Linked, Tables

LEMMA TypedStays ==
  ASSUME Typed, UNCHANGED <<schema, pool, files, history>>
  PROVE  Typed'
  BY DEF Typed, Tables, File

LEMMA TableNumbers ==
  ASSUME Typed
  PROVE  Tables \in SUBSET Nat /\ IsFiniteSet(Tables)
  BY TablesFinite DEF Typed, Tables

LEMMA ReferencesFinite ==
  ASSUME Typed, Linked
  PROVE  IsFiniteSet(refs)
  <1> DEFINE f == [ref \in refs |-> ref[1]]
  <1>1. f \in [refs -> Columns(schema)] /\ \A ref, other \in refs : f[ref] = f[other] => ref = other
    BY DEF Linked
  <1> HIDE DEF f
  <1>2. f \in Injection(refs, Columns(schema))
    BY <1>1 DEF Injection, IsInjective
  <1> QED
    BY <1>2, TablesFinite, FS_Injection DEF Typed

\* A reference is made by a column of a table, and to another table.
LEMMA ReferenceOf ==
  ASSUME Linked, NEW ref \in refs
  PROVE  /\ ref[1] \in Columns(schema) /\ ref[1] = <<ref[1][1], ref[1][2]>>
         /\ ref[1][1] \in Tables /\ ref[1][2] \in ColumnsOf(schema[ref[1][1]])
         /\ ref[2] \in Tables /\ ref[2] \in Parents(ref[1][1])
  <1>1. ref[1] \in Columns(schema) /\ ref[2] \in Tables
    BY DEF Linked
  <1>2. PICK t \in Tables : ref[1] \in {t} \X ColumnsOf(schema[t])
    BY <1>1 DEF Columns, Tables
  <1>3. ref[2] \in Parents(ref[1][1])
    BY DEF Parents
  <1> QED
    BY <1>1, <1>2, <1>3

LEMMA ColumnIn ==
  ASSUME NEW t \in Tables, NEW col \in ColumnsOf(schema[t])
  PROVE  <<t, col>> \in Columns(schema)
  BY DEF Columns, Tables

LEMMA ColumnOut ==
  ASSUME NEW x \in Columns(schema)
  PROVE  x[1] \in Tables /\ x[2] \in ColumnsOf(schema[x[1]]) /\ x = <<x[1], x[2]>>
  BY DEF Columns, Tables

\* Parents are tables.
LEMMA ParentTables ==
  ASSUME Linked, NEW t
  PROVE  Parents(t) \subseteq Tables
  BY DEF Linked, Parents

\* The parts of the invariant as a step finds them that writes no order and no list.
LEMMA PlanPrimed ==
  ASSUME UNCHANGED <<schema, refs>>
  PROVE  /\ Suffix(todo)' = Suffix(todo') /\ ParentsBefore(order)' = ParentsBefore(order')
         /\ NoRepeats(todo)' = NoRepeats(todo') /\ NoRepeats(deferred)' = NoRepeats(deferred')
         /\ NoRepeats(order)' = NoRepeats(order')
  BY DEF Suffix, ParentsBefore, NoRepeats, Tables, Parents

\* A step after the order is made that leaves it alone.
LEMMA KahnStays ==
  ASSUME GenInv, phase # "order", phase' # "order", UNCHANGED <<schema, refs, order>>
  PROVE  Linked' /\ Kahn'
  <1>1. Linked'
    BY LinkedStays DEF GenInv
  <1>2. Ordered
    BY DEF GenInv, Kahn
  <1>3. Tables' = Tables /\ Acyclic' = Acyclic /\ ParentsBefore(order)' = ParentsBefore(order)
        /\ NoRepeats(order)' = NoRepeats(order)
    BY PlanStays, PlanPrimed
  <1>4. Ordered'
    BY <1>2, <1>3 DEF Ordered
  <1> QED
    BY <1>1, <1>4 DEF Kahn

\* A step that writes no file and registers no value.
LEMMA QuietInv ==
  ASSUME GenInv, UNCHANGED <<schema, refs, pool, files>>, history'.forced = history.forced,
         history' \in [forced : SUBSET Tables, failed : SUBSET Tables, unloaded : SUBSET Tables],
         phase' \in {"order", "round", "force"} => phase \in {"order", "round", "force"}
  PROVE  /\ Typed' /\ Linked' /\ Kept' /\ Sound'
         /\ \A ref : Whole(ref)' = Whole(ref)
  <1>1. Typed'
    BY DEF GenInv, Typed, Tables, File
  <1>2. Linked'
    BY LinkedStays DEF GenInv
  <1>3. \A x : Written(x)' = Written(x)
    BY DEF Written
  <1>4. Kept'
    BY <1>3 DEF GenInv, Kept, Firm
  <1>5. \A ref : Registry(ref)' = Registry(ref)
    BY DEF Registry, KeyOf
  <1>6. Sound'
    BY <1>5 DEF GenInv, Sound
  <1>7. \A ref : Whole(ref)' = Whole(ref)
    BY <1>5 DEF Whole, Orphans
  <1> QED
    BY <1>1, <1>2, <1>4, <1>6, <1>7

-----------------------------------------------------------------------------
(* The order *)

LEMMA InitInv == Init => GenInv
  <1> SUFFICES ASSUME Init PROVE GenInv
    OBVIOUS
  <1>1. PICK owner \in Ownerships(schema) : refs = ForeignKeys(schema, owner)
    BY DEF Init
  <1>2. schema \in Schema
    BY DEF Init
  <1>3. Linked
    BY <1>1, <1>2, ForeignKeysAre DEF Linked, Tables
  <1>4. Typed
    BY DEF Init, Typed
  <1>5. Placing
    <2> DEFINE S == {t \in Tables : deps[t] = {}}
    <2>1. S \in SUBSET Nat /\ IsFiniteSet(S) /\ S \in SUBSET Tables
      BY <1>4, TableNumbers, FS_Subset
    <2>2. queue = Listed(S) /\ order = <<>> /\ deps = [t \in Tables |-> Parents(t)]
      BY DEF Init
    <2>3. queue \in Seq(S) /\ NoRepeats(queue) /\ ToSet(queue) = S
      <3> HIDE DEF S
      <3> QED
        BY <2>1, <2>2, ListedIs
    <2>4. queue \in Seq(Tables)
      <3> HIDE DEF S
      <3> QED
        BY <2>1, <2>3, SeqMonotonic
    <2>5. order \in Seq(Tables) /\ NoRepeats(order) /\ ToSet(order) = {} /\ ParentsBefore(order)
      <3>1. Len(<<>>) = 0
        OBVIOUS
      <3> QED
        BY <2>2, <3>1, EmptyOf, EmptySeq DEF ParentsBefore
    <2>6. deps = [t \in Tables |-> Parents(t) \ ToSet(order)]
      BY <2>2, <2>5
    <2>7. /\ todo = <<>> /\ deferred = <<>> /\ \A t \in Tables : files[t] = NoFile
          /\ \A x \in Columns(schema) : pool[x] = {}
          /\ history.forced = {} /\ loaded = {}
      BY DEF Init
    <2> QED
      BY <2>3, <2>4, <2>5, <2>6, <2>7 DEF Placing
  <1>6. phase = "order"
    BY DEF Init
  <1>7. Kahn /\ Lists
    BY <1>5, <1>6 DEF Kahn, Lists
  <1>8. Kept /\ Sound
    <2>1. \A x \in Columns(schema) : pool[x] = {}
      BY <1>5 DEF Placing
    <2>2. \A ref \in refs : files[ref[1][1]] = NoFile
      BY <1>3, <1>5, ReferenceOf DEF Placing
    <2> QED
      BY <2>1, <2>2 DEF Kept, Sound
  <1>9. Repaired /\ Rounds /\ Loads
    BY <1>5, <1>6 DEF Placing, Repaired, Rounds, Loads
  <1> QED
    BY <1>3, <1>4, <1>7, <1>8, <1>9 DEF GenInv

\* What was placed waits for nothing.
LEMMA PlacedParents ==
  ASSUME Placing, NEW t \in Tables, t \in ToSet(order)
  PROVE  deps[t] = {}
  <1>1. order \in Seq(Tables) /\ ParentsBefore(order)
    BY DEF Placing
  <1>2. Len(order) \in Nat /\ ToSet(order) = {order[i] : i \in 1 .. Len(order)}
    BY <1>1, ElementsOf
  <1>3. PICK i \in 1 .. Len(order) : t = order[i]
    BY <1>2
  <1>4. \A parent \in Parents(t) : \E j \in 1 .. Len(order) : order[j] = parent
    <2> SUFFICES ASSUME NEW parent \in Parents(t)
                 PROVE  \E j \in 1 .. Len(order) : order[j] = parent
      OBVIOUS
    <2>1. PICK j \in 1 .. i - 1 : order[j] = parent
      BY <1>1, <1>3 DEF ParentsBefore
    <2> QED
      BY <1>2, <2>1
  <1>5. Parents(t) \subseteq ToSet(order)
    BY <1>2, <1>4
  <1>6. deps[t] = Parents(t) \ ToSet(order)
    BY DEF Placing
  <1> QED
    BY <1>5, <1>6

LEMMA PlaceTableInv ==
  ASSUME GenInv, PlaceTable
  PROVE  GenInv'
  <1> DEFINE node == Head(queue)
             S == {t \in Tables : node \in deps[t] /\ NoLongerWaits(deps[t] \ {node})}
  <1>1. /\ phase = "order" /\ queue # <<>> /\ order' = Append(order, node)
        /\ deps' = [t \in Tables |-> deps[t] \ {node}]
        /\ queue' = Tail(queue) \o Listed(S)
        /\ UNCHANGED <<schema, refs, phase, todo, deferred, moved, pool, used, files, report,
                       stored, loaded, history>>
    BY DEF PlaceTable, database
  <1>2. Placing /\ Typed /\ Linked
    BY <1>1 DEF GenInv, Kahn
  <1>3. /\ node \in Tables /\ Tail(queue) \in Seq(Tables)
        /\ ToSet(queue) = {node} \cup ToSet(Tail(queue))
        /\ NoRepeats(Tail(queue)) /\ node \notin ToSet(Tail(queue))
    BY <1>1, <1>2, TailOf, TailOnce DEF Placing
  <1>4. /\ S \in SUBSET Tables /\ Listed(S) \in Seq(Tables)
        /\ NoRepeats(Listed(S)) /\ ToSet(Listed(S)) = S
    <2>1. S \in SUBSET Tables /\ S \in SUBSET Nat /\ IsFiniteSet(S)
      BY <1>2, TableNumbers, FS_Subset
    <2> HIDE DEF S
    <2> QED
      BY <2>1, ListedIs, SeqMonotonic
  <1>5. node \notin ToSet(order) /\ deps[node] = {}
    BY <1>2, <1>3 DEF Placing
  <1>6. deps = [t \in Tables |-> Parents(t) \ ToSet(order)]
    BY <1>2 DEF Placing
  <1>7. ToSet(queue) = {t \in Tables \ ToSet(order) : deps[t] = {}}
    BY <1>2 DEF Placing
  <1>8. S = {t \in Tables : node \in deps[t] /\ deps[t] \ {node} = {}}
    BY DEF NoLongerWaits
  <1> HIDE DEF node, S
  <1>9. /\ order' \in Seq(Tables) /\ NoRepeats(order') /\ ToSet(order') = ToSet(order) \cup {node}
        /\ ParentsBefore(order')
    <2>1. order \in Seq(Tables) /\ NoRepeats(order) /\ ParentsBefore(order)
      BY <1>2 DEF Placing
    <2> DEFINE longer == Append(order, node)
    <2>2. /\ longer \in Seq(Tables) /\ ToSet(longer) = ToSet(order) \cup {node}
          /\ Len(longer) = Len(order) + 1 /\ Len(order) \in Nat
          /\ \A i \in 1 .. Len(order) : longer[i] = order[i]
          /\ longer[Len(order) + 1] = node /\ NoRepeats(longer)
      BY <1>3, <1>5, <2>1, AppendOf
    <2> HIDE DEF longer
    <2>3. order' = longer
      BY <1>1 DEF longer
    <2>4. Parents(node) \subseteq ToSet(order)
      BY <1>3, <1>5, <1>6
    <2>5. ToSet(order) = {order[i] : i \in 1 .. Len(order)}
      BY <2>1, ElementsOf
    <2>6. ParentsBefore(longer)
      <3> SUFFICES ASSUME NEW i \in 1 .. Len(longer), NEW parent \in Parents(longer[i])
                   PROVE  \E j \in 1 .. i - 1 : longer[j] = parent
        BY DEF ParentsBefore
      <3>1. CASE i \in 1 .. Len(order)
        <4>1. PICK j \in 1 .. i - 1 : order[j] = parent
          BY <2>1, <2>2, <3>1 DEF ParentsBefore
        <4>2. j \in 1 .. Len(order)
          BY <2>2, <3>1
        <4> QED
          BY <2>2, <4>1, <4>2
      <3>2. CASE i = Len(order) + 1
        <4>1. PICK j \in 1 .. Len(order) : order[j] = parent
          BY <2>2, <2>4, <2>5, <3>2
        <4>2. j \in 1 .. i - 1 /\ longer[j] = parent
          BY <2>2, <3>2, <4>1
        <4> QED
          BY <4>2
      <3> QED
        BY <2>2, <3>1, <3>2
    <2> QED
      BY <2>2, <2>3, <2>6
  <1>10. deps' = [t \in Tables |-> Parents(t) \ ToSet(order')]
    <2>1. \A t \in Tables : deps[t] \ {node} = Parents(t) \ ToSet(order')
      BY <1>6, <1>9
    <2> QED
      BY <1>1, <2>1
  <1>11. queue' \in Seq(Tables) /\ NoRepeats(queue') /\ ToSet(queue') = ToSet(Tail(queue)) \cup S
    <2>1. ToSet(Tail(queue)) \cap S = {}
      BY <1>3, <1>7, <1>8
    <2> DEFINE rest == Tail(queue)
               freed == Listed(S)
    <2>2. /\ rest \in Seq(Tables) /\ freed \in Seq(Tables) /\ NoRepeats(rest) /\ NoRepeats(freed)
          /\ ToSet(rest) \cap ToSet(freed) = {} /\ queue' = rest \o freed
          /\ ToSet(freed) = S
      BY <1>1, <1>3, <1>4, <2>1
    <2> HIDE DEF rest, freed
    <2>3. queue' \in Seq(Tables) /\ NoRepeats(queue') /\ ToSet(queue') = ToSet(rest) \cup S
      BY <2>2, ConcatOf
    <2> QED
      BY <2>3 DEF rest
  <1>12. ToSet(queue') = {t \in Tables \ ToSet(order') : deps'[t] = {}}
    <2>1. \A t \in Tables : deps'[t] = deps[t] \ {node}
      BY <1>1
    <2>2. ASSUME NEW t \in ToSet(Tail(queue)) \cup S
          PROVE  t \in Tables /\ t \notin ToSet(order') /\ deps'[t] = {}
      <3>1. CASE t \in ToSet(Tail(queue))
        BY <1>3, <1>7, <1>9, <2>1, <3>1
      <3>2. CASE t \in S
        <4>1. t \in Tables /\ node \in deps[t] /\ deps[t] \ {node} = {}
          BY <1>8, <3>2
        <4>2. t # node
          BY <1>5, <4>1
        <4>3. t \notin ToSet(order)
          BY <1>2, <1>5, <1>6, <4>1, PlacedParents
        <4> QED
          BY <1>9, <2>1, <4>1, <4>2, <4>3
      <3> QED
        BY <3>1, <3>2
    <2>3. ASSUME NEW t \in Tables \ ToSet(order'), deps'[t] = {}
          PROVE  t \in ToSet(Tail(queue)) \cup S
      <3>1. t \notin ToSet(order) /\ t # node /\ deps[t] \ {node} = {}
        BY <1>9, <2>1, <2>3
      <3>2. CASE node \in deps[t]
        BY <1>8, <3>1, <3>2
      <3>3. CASE node \notin deps[t]
        BY <1>3, <1>7, <3>1, <3>3
      <3> QED
        BY <3>2, <3>3
    <2> QED
      BY <1>11, <2>2, <2>3
  <1>13. Placing'
    <2>1. /\ Tables' = Tables /\ (\A t : Parents(t)' = Parents(t))
          /\ ParentsBefore(order)' = ParentsBefore(order')
      BY <1>1 DEF Tables, Parents, ParentsBefore
    <2>2. /\ todo' = <<>> /\ deferred' = <<>> /\ \A t \in Tables : files'[t] = NoFile
          /\ \A x \in Columns(schema') : pool'[x] = {}
          /\ history'.forced = {} /\ loaded' = {}
      BY <1>1, <1>2 DEF Placing
    <2>3. /\ (NoRepeats(order))' = NoRepeats(order') /\ (NoRepeats(queue))' = NoRepeats(queue')
      BY DEF NoRepeats
    <2>4. deps' = [t \in Tables' |-> (Parents(t))' \ ToSet(order')]
      BY <1>10, <2>1
    <2> QED
      BY <1>9, <1>11, <1>12, <2>1, <2>2, <2>3, <2>4 DEF Placing
  <1>14. Typed' /\ Linked' /\ Kept' /\ Sound' /\ Repaired'
    <2>1. Typed' /\ Linked' /\ Kept' /\ Sound'
      BY <1>1, QuietInv DEF GenInv, Typed
    <2> QED
      BY <1>1, <2>1 DEF Repaired
  <1>15. Kahn' /\ Lists' /\ Rounds' /\ Loads'
    <2>1. phase' = "order" /\ deferred' = <<>> /\ history'.forced = {} /\ loaded' = {}
      BY <1>1, <1>2 DEF Placing
    <2> QED
      BY <1>13, <2>1 DEF Kahn, Lists, Rounds, Loads
  <1> QED
    BY <1>14, <1>15 DEF GenInv

\* An order that has every table and puts parents first.
LEMMA OrderSuffix ==
  ASSUME NEW s \in Seq(Tables), NoRepeats(s), ToSet(s) = Tables, ParentsBefore(s)
  PROVE  Suffix(s)
  BY DEF Suffix, ParentsBefore

LEMMA FinishOrderInv ==
  ASSUME GenInv, FinishOrder
  PROVE  GenInv'
  <1> DEFINE rest == Tables \ ToSet(order)
             last == Listed(rest)
             all == order \o last
  <1>1. /\ phase = "order" /\ queue = <<>> /\ order' = all /\ todo' = all /\ phase' = "round"
        /\ UNCHANGED <<schema, refs, deferred, pool, files, report, stored, loaded, history>>
    BY DEF FinishOrder, database
  <1>2. Placing /\ Typed /\ Linked
    BY <1>1 DEF GenInv, Kahn
  <1>3. last \in Seq(Tables) /\ NoRepeats(last) /\ ToSet(last) = rest
    <2>1. rest \in SUBSET Tables /\ rest \in SUBSET Nat /\ IsFiniteSet(rest)
      BY <1>2, TableNumbers, FS_Subset
    <2> HIDE DEF rest
    <2>2. Listed(rest) \in Seq(rest) /\ NoRepeats(Listed(rest)) /\ ToSet(Listed(rest)) = rest
      BY <2>1, ListedIs
    <2> QED
      BY <2>1, <2>2, SeqMonotonic
  <1>4. order \in Seq(Tables) /\ NoRepeats(order) /\ ParentsBefore(order) /\ ToSet(order) \subseteq Tables
    BY <1>2, ElementsOf DEF Placing
  <1> HIDE DEF last
  <1>5. /\ all \in Seq(Tables) /\ Len(all) = Len(order) + Len(last) /\ Len(order) \in Nat
        /\ \A i \in 1 .. Len(order) : all[i] = order[i]
        /\ \A k \in 1 .. Len(order) + Len(last) :
             k \in 1 .. Len(order) \/ \E i \in 1 .. Len(last) : k = Len(order) + i
        /\ ToSet(all) = ToSet(order) \cup ToSet(last)
        /\ (NoRepeats(order) /\ NoRepeats(last) /\ ToSet(order) \cap ToSet(last) = {}) => NoRepeats(all)
    BY <1>3, <1>4, ConcatOf, ElementsOf
  <1> HIDE DEF all
  <1>6. NoRepeats(all) /\ ToSet(all) = Tables
    BY <1>3, <1>4, <1>5
  <1>7. ASSUME Acyclic PROVE ParentsBefore(all)
    <2>1. rest = {}
      <3> SUFFICES ASSUME rest # {} PROVE FALSE
        OBVIOUS
      <3>1. PICK t \in rest : Parents(t) \cap rest = {}
        BY <1>7 DEF Acyclic
      <3>2. Parents(t) \subseteq ToSet(order)
        BY <1>2, <3>1, ParentTables
      <3>3. t \in ToSet(queue)
        BY <1>2, <3>1, <3>2 DEF Placing
      <3> QED
        BY <1>1, <3>3, EmptyOf
    <2>2. \A i \in 1 .. Len(last) : last[i] \in ToSet(last)
      BY <1>3, ElementsOf
    <2>3. \A i \in 1 .. Len(all) : i \in 1 .. Len(order)
      BY <1>3, <1>5, <2>1, <2>2
    <2> SUFFICES ASSUME NEW i \in 1 .. Len(all), NEW parent \in Parents(all[i])
                 PROVE  \E j \in 1 .. i - 1 : all[j] = parent
      BY DEF ParentsBefore
    <2>4. i \in 1 .. Len(order) /\ all[i] = order[i]
      BY <1>5, <2>3
    <2>5. PICK j \in 1 .. i - 1 : order[j] = parent
      BY <1>4, <2>4 DEF ParentsBefore
    <2>6. j \in 1 .. Len(order)
      BY <1>5, <2>4
    <2> QED
      BY <1>5, <2>5, <2>6
  <1>8. /\ Tables' = Tables /\ Acyclic' = Acyclic
        /\ \A s : Suffix(s)' = Suffix(s) /\ ParentsBefore(s)' = ParentsBefore(s)
    BY <1>1, PlanStays
  <1>9. /\ Suffix(todo)' = Suffix(all) /\ ParentsBefore(order)' = ParentsBefore(all)
        /\ NoRepeats(todo)' = NoRepeats(all) /\ NoRepeats(order)' = NoRepeats(all)
    BY <1>1, PlanPrimed
  <1>10. Kahn'
    <2>1. Ordered'
      BY <1>1, <1>5, <1>6, <1>7, <1>8, <1>9 DEF Ordered
    <2> QED
      BY <1>1, <2>1 DEF Kahn
  <1>11. Typed' /\ Linked' /\ Kept' /\ Sound'
    BY <1>1, QuietInv DEF GenInv, Typed
  <1>12. /\ deferred = <<>> /\ history.forced = {} /\ loaded = {}
         /\ \A t \in Tables : files[t] = NoFile
    BY <1>2 DEF Placing
  <1>13. Lists'
    <2>1. deferred' = <<>> /\ NoRepeats(deferred)' /\ ToSet(deferred') = {} /\ deferred' \in Seq(Tables)
      BY <1>1, <1>12, EmptyOf, PlanPrimed
    <2>2. \A t \in ToSet(todo') : files'[t] = NoFile
      BY <1>1, <1>6, <1>12
    <2> QED
      BY <1>1, <1>5, <1>6, <1>8, <1>9, <2>1, <2>2 DEF Lists
  <1>14. Rounds'
    <2>1. Acyclic => Suffix(all)
      BY <1>5, <1>6, <1>7, OrderSuffix
    <2>2. Regular' => Suffix(todo)'
      BY <1>8, <1>9, <2>1 DEF Regular
    <2>3. Tables' \ ToSet(todo') = {}
      BY <1>1, <1>6, <1>8
    <2>4. deferred' = <<>> /\ history'.forced = {} /\ phase' = "round"
      BY <1>1, <1>12
    <2> QED
      BY <2>2, <2>3, <2>4 DEF Rounds
  <1>15. Repaired' /\ Loads'
    BY <1>1, <1>12 DEF Repaired, Loads
  <1> QED
    BY <1>10, <1>11, <1>13, <1>14, <1>15 DEF GenInv

-----------------------------------------------------------------------------
(* The content of a table *)

\* A column of references draws from the key that the reference names.
LEMMA DrawnIs ==
  ASSUME Linked, NEW ref \in refs
  PROVE  Drawn(ref[1]) = Registry(ref)
  <1>1. {other \in refs : other[1] = ref[1]} = {ref}
    BY DEF Linked
  <1>2. RefersTo(ref[1]) = {KeyOf(ref)}
    BY <1>1 DEF RefersTo
  <1> QED
    BY <1>2 DEF Drawn, Registry

LEMMA DrawnInt ==
  ASSUME Typed, NEW x
  PROVE  Drawn(x) \subseteq Int
  <1>1. DOMAIN pool = Columns(schema) /\ \A key \in Columns(schema) : pool[key] \subseteq Int
    BY DEF Typed
  <1> QED
    BY <1>1 DEF Drawn

\* A column that is null has no values to register.
LEMMA ProfileNull ==
  ASSUME NEW table, NEW col, ProfileOf(table, col).strategy = "null"
  PROVE  ~ProfileOf(table, col).unique
  <1> DEFINE sample == table.cols[CHOOSE k \in DOMAIN table.cols : table.cols[k].name = col]
  <1>1. ProfileOf(table, col) = Profile(sample)
    BY DEF ProfileOf
  <1> HIDE DEF sample
  <1>2. /\ Profile(sample).strategy = IF ~sample.filled THEN "null"
                                      ELSE IF IsIdentifier(sample.name) THEN "sequential"
                                      ELSE IF sample.numeric THEN "int_range" ELSE "other"
        /\ Profile(sample).unique = (sample.filled /\ (IsIdentifier(sample.name) \/ sample.distinct))
    BY DEF Profile
  <1>3. ~sample.filled
    BY <1>1, <1>2
  <1> QED
    BY <1>1, <1>2, <1>3

\* The cells of a sequence are numbers where it has no gaps.
LEMMA SequenceIs ==
  ASSUME NEW start \in Int, NEW col, NEW gaps, NEW cells \in Sequence(start, col, gaps)
  PROVE  /\ cells \in [1 .. Rows -> Int \cup {Null}]
         /\ gaps = {} => cells \in [1 .. Rows -> Int]
  <1> DEFINE walks == {value \in [0 .. Rows -> start .. start + Rows * Attempts] :
                         /\ value[0] = start
                         /\ \A i \in 1 .. Rows :
                              value[i] = IF i \in gaps THEN value[i - 1]
                                         ELSE NextValue(value[i - 1], col)}
             row(value) == [i \in 1 .. Rows |-> IF i \in gaps THEN Null ELSE value[i]]
  <1>1. Sequence(start, col, gaps) = {row(value) : value \in walks}
    BY DEF Sequence
  <1>2. \A value \in walks : value \in [0 .. Rows -> Int]
    <2>1. start .. start + Rows * Attempts \subseteq Int
      OBVIOUS
    <2> QED
      BY <2>1
  <1> HIDE DEF walks
  <1>3. PICK value \in walks : cells = row(value)
    BY <1>1
  <1>4. \A i \in 1 .. Rows : i \in 0 .. Rows
    BY RowAssumption
  <1>5. \A i \in 1 .. Rows : value[i] \in Int
    BY <1>2, <1>4
  <1> QED
    BY <1>3, <1>5

\* What a column may be: numbers, and nulls if its sample misses some or has none.
LEMMA CellsAre ==
  ASSUME Typed, NEW x \in Columns(schema), NEW cells \in Cells(x)
  PROVE  /\ cells \in [1 .. Rows -> Int \cup {Null}]
         /\ Filled(x) => cells \in [1 .. Rows -> Int]
         /\ Drawn(x) # {} => cells \in [1 .. Rows -> Drawn(x) \cup {Null}]
  <1> DEFINE prof == ProfileOf(schema[x[1]], x[2])
             nulls == prof.nulls
             kind == prof.strategy
             start == prof.start
             empty == IF nulls THEN {Null} ELSE {}
             gapped == IF nulls THEN SUBSET (1 .. Rows) ELSE {{}}
             drawn == Drawn(x)
             sequences == UNION {Sequence(start, x[2], gaps) : gaps \in gapped}
             goal == /\ cells \in [1 .. Rows -> Int \cup {Null}]
                     /\ Filled(x) => cells \in [1 .. Rows -> Int]
                     /\ Drawn(x) # {} => cells \in [1 .. Rows -> Drawn(x) \cup {Null}]
  <1> SUFFICES goal
    OBVIOUS
  <1>1. Cells(x) = IF drawn # {} THEN [1 .. Rows -> drawn \cup empty]
                   ELSE IF kind = "null" THEN {[i \in 1 .. Rows |-> Null]}
                   ELSE IF kind = "sequential" THEN sequences
                   ELSE [1 .. Rows -> Plain \cup empty]
    BY DEF Cells
  <1>2. drawn \subseteq Int /\ Plain \subseteq Int
    BY DrawnInt, RowAssumption
  <1>3. start \in Int
    BY ColumnOut, ProfileStart DEF Typed, Tables
  <1>4. empty \subseteq {Null} /\ (Filled(x) => empty = {} /\ gapped = {{}} /\ kind # "null")
    <2>1. kind = "null" => ~prof.unique
      BY ProfileNull
    <2>2. Filled(x) => ~nulls /\ (kind = "sequential" \/ prof.unique)
      BY DEF Filled, Registered
    <2>3. Filled(x) => kind # "null"
      BY <2>1, <2>2
    <2> QED
      BY <2>2, <2>3
  <1>5. \A c \in sequences : \E gaps \in gapped : c \in Sequence(start, x[2], gaps)
    <2> HIDE DEF gapped, start
    <2> QED
      OBVIOUS
  <1> HIDE DEF prof, kind, start, empty, gapped, drawn, sequences
  <1>6. CASE drawn # {}
    BY <1>1, <1>2, <1>4, <1>6 DEF drawn
  <1>7. CASE drawn = {} /\ kind = "null"
    BY <1>1, <1>4, <1>7 DEF drawn
  <1>8. CASE drawn = {} /\ kind # "null" /\ kind = "sequential"
    <2>1. PICK gaps \in gapped : cells \in Sequence(start, x[2], gaps)
      BY <1>1, <1>5, <1>8
    <2>2. /\ cells \in [1 .. Rows -> Int \cup {Null}]
          /\ gaps = {} => cells \in [1 .. Rows -> Int]
      BY <1>3, <2>1, SequenceIs
    <2>3. Filled(x) => gaps = {}
      BY <1>4, <2>1
    <2> QED
      BY <1>8, <2>2, <2>3 DEF drawn
  <1>9. CASE drawn = {} /\ kind # "null" /\ kind # "sequential"
    <2>1. cells \in [1 .. Rows -> Plain \cup empty]
      BY <1>1, <1>9
    <2>2. cells \in [1 .. Rows -> Int \cup {Null}]
      BY <1>2, <1>4, <2>1
    <2>3. Filled(x) => cells \in [1 .. Rows -> Int]
      BY <1>2, <1>4, <2>1
    <2> QED
      BY <1>9, <2>2, <2>3 DEF drawn
  <1> HIDE DEF goal
  <1> QED
    BY <1>6, <1>7, <1>8, <1>9

\* What is left of a column after the audit data is written over it.
LEMMA ConstrainedAre ==
  ASSUME Typed, NEW x \in Columns(schema), NEW cells \in Constrained(x)
  PROVE  /\ cells \in [1 .. Rows -> Int \cup {Null}]
         /\ Filled(x) => cells \in [1 .. Rows -> Int]
         /\ (Drawn(x) # {} /\ x[2] \notin Overwritten) => cells \in [1 .. Rows -> Drawn(x) \cup {Null}]
  <1>1. CASE x[2] \in AuditUsers
    <2>1. cells = [i \in 1 .. Rows |-> AuditUser]
      BY <1>1 DEF Constrained
    <2> QED
      BY <1>1, <2>1, RowAssumption DEF Overwritten
  <1>2. CASE x[2] \in AuditTimes /\ x[2] \notin AuditUsers
    <2>1. /\ cells \in [1 .. Rows -> Plain \cup {Null}]
          /\ \E drawn \in Cells(x) : \A i \in 1 .. Rows : cells[i] = Null <=> drawn[i] = Null
      BY <1>2 DEF Constrained
    <2>2. PICK drawn \in Cells(x) : \A i \in 1 .. Rows : cells[i] = Null <=> drawn[i] = Null
      BY <2>1
    <2>3. Filled(x) => drawn \in [1 .. Rows -> Int]
      BY CellsAre
    <2>4. Filled(x) => \A i \in 1 .. Rows : cells[i] \in Plain
      BY <2>1, <2>2, <2>3, RowAssumption
    <2>5. cells \in [1 .. Rows -> Plain \cup {Null}] /\ Plain \subseteq Int
      BY <2>1, RowAssumption
    <2>6. cells \in [1 .. Rows -> Int \cup {Null}]
      BY <2>5
    <2>7. Filled(x) => cells \in [1 .. Rows -> Int]
      BY <2>4, <2>5
    <2> QED
      BY <1>2, <2>6, <2>7 DEF Overwritten
  <1>3. CASE x[2] \notin AuditUsers /\ x[2] \notin AuditTimes
    <2>1. cells \in Cells(x)
      BY <1>3 DEF Constrained
    <2> QED
      BY <2>1, CellsAre
  <1> QED
    BY <1>1, <1>2, <1>3

LEMMA ContentsAre ==
  ASSUME Typed, NEW t \in Tables, NEW content \in Contents(t)
  PROVE  /\ content \in File(t) /\ content # NoFile
         /\ \A col \in ColumnsOf(schema[t]) : content[col] \in Constrained(<<t, col>>)
  <1> DEFINE cells == [col \in ColumnsOf(schema[t]) |-> Constrained(<<t, col>>)]
  <1>1. content \in {f \in [DOMAIN cells -> UNION {cells[col] : col \in DOMAIN cells}] :
                       \A col \in DOMAIN cells : f[col] \in cells[col]}
    BY DEF Contents
  <1>2. DOMAIN cells = ColumnsOf(schema[t]) /\ \A col \in ColumnsOf(schema[t]) : cells[col] = Constrained(<<t, col>>)
    OBVIOUS
  <1> HIDE DEF cells
  <1>3. /\ content = [col \in ColumnsOf(schema[t]) |-> content[col]]
        /\ \A col \in ColumnsOf(schema[t]) : content[col] \in Constrained(<<t, col>>)
    BY <1>1, <1>2
  <1>4. \A col \in ColumnsOf(schema[t]) : content[col] \in [1 .. Rows -> Int \cup {Null}]
    BY <1>3, ColumnIn, ConstrainedAre
  <1>5. content \in File(t)
    BY <1>3, <1>4 DEF File
  <1>6. NoFile \notin File(t)
    BY FileAssumption DEF Typed, Tables, File
  <1> QED
    BY <1>3, <1>5, <1>6

\* The file is written with what was registered, and nothing registered is lost.
LEMMA WriteIs ==
  ASSUME Typed, Kept, phase \in {"round", "force"}, NEW t \in Tables, files[t] = NoFile,
         NEW content \in Contents(t), Write(t, content), UNCHANGED schema
  PROVE  /\ pool' \in [Columns(schema) -> SUBSET Int]
         /\ files' = [u \in Tables |-> files'[u]]
         /\ \A u \in Tables : files'[u] \in File(u) \cup {NoFile}
         /\ files'[t] = content /\ \A u \in Tables : u # t => files'[u] = files[u]
         /\ \A x \in Columns(schema) : pool[x] \subseteq pool'[x] /\ pool'[x] \subseteq Written(x)'
  <1>1. /\ content \in File(t) /\ content # NoFile
        /\ \A col \in ColumnsOf(schema[t]) : content[col] \in [1 .. Rows -> Int \cup {Null}]
    <2>1. content \in File(t) /\ content # NoFile
      BY ContentsAre
    <2> QED
      BY <2>1 DEF File
  <1>2. /\ files = [u \in Tables |-> files[u]] /\ \A u \in Tables : files[u] \in File(u) \cup {NoFile}
        /\ pool \in [Columns(schema) -> SUBSET Int]
    BY DEF Typed
  <1>3. files' = [files EXCEPT ![t] = content]
    BY DEF Write
  <1>4. /\ files'[t] = content /\ \A u \in Tables : u # t => files'[u] = files[u]
        /\ files' = [u \in Tables |-> files'[u]]
    BY <1>2, <1>3
  <1>5. \A u \in Tables : files'[u] \in File(u) \cup {NoFile}
    BY <1>1, <1>2, <1>4
  <1> DEFINE added(x) == IF x[1] = t /\ Registered(x) THEN ToSet(content[x[2]]) \ {Null} ELSE {}
  <1>6. /\ DOMAIN pool' = Columns(schema)
        /\ \A x \in Columns(schema) : pool'[x] = pool[x] \cup added(x)
        /\ pool' = [x \in Columns(schema) |-> pool'[x]]
    <2>1. pool' = [x \in Columns(schema) |->
                     IF x[1] = t /\ Registered(x)
                     THEN pool[x] \cup (ToSet(content[x[2]]) \ {Null}) ELSE pool[x]]
      BY <1>2 DEF Write
    <2>2. \A x \in Columns(schema) :
            pool'[x] = IF x[1] = t /\ Registered(x)
                       THEN pool[x] \cup (ToSet(content[x[2]]) \ {Null}) ELSE pool[x]
      BY <2>1
    <2> QED
      BY <2>1, <2>2
  <1>7. ASSUME NEW x \in Columns(schema)
        PROVE  added(x) \subseteq Int /\ (x[1] = t => added(x) \subseteq ToSet(content[x[2]]))
    <2>1. CASE x[1] = t
      <3> DEFINE cells == content[x[2]]
      <3>1. x[2] \in ColumnsOf(schema[t])
        BY <2>1, ColumnOut
      <3>2. cells \in [1 .. Rows -> Int \cup {Null}]
        BY <1>1, <3>1
      <3> HIDE DEF cells
      <3>3. ToSet(cells) \subseteq Int \cup {Null}
        BY <3>2 DEF ToSet
      <3> QED
        BY <3>3 DEF cells
    <2>2. CASE x[1] # t
      BY <2>2
    <2> QED
      BY <2>1, <2>2
  <1> HIDE DEF added
  <1>8. pool' \in [Columns(schema) -> SUBSET Int]
    BY <1>2, <1>6, <1>7
  <1>9. ASSUME NEW x \in Columns(schema) PROVE pool'[x] \subseteq Written(x)'
    <2>1. x[1] \in Tables /\ x[2] \in ColumnsOf(schema[x[1]])
      BY ColumnOut
    <2>2. pool[x] \subseteq Written(x)
      BY DEF Kept
    <2>3. CASE x[1] = t
      <3>1. Written(x) = {}
        BY <2>3 DEF Written
      <3>2. x[2] \in DOMAIN content
        BY <1>1, <2>1, <2>3 DEF File
      <3>3. Written(x)' = ToSet(content[x[2]])
        BY <1>1, <1>4, <2>3, <3>2 DEF Written
      <3> QED
        BY <1>6, <1>7, <2>2, <2>3, <3>1, <3>3
    <2>4. CASE x[1] # t
      <3>1. Written(x)' = Written(x)
        BY <1>4, <2>1, <2>4 DEF Written
      <3>2. added(x) = {}
        BY <2>4 DEF added
      <3> QED
        BY <1>6, <2>2, <3>1, <3>2
    <2> QED
      BY <2>3, <2>4
  <1> QED
    BY <1>4, <1>5, <1>6, <1>8, <1>9

\* The keys of a table that is generated have values.
LEMMA WriteSupplies ==
  ASSUME Typed, NEW t \in Tables, NEW content \in Contents(t), Write(t, content),
         NEW col \in ColumnsOf(schema[t]), Filled(<<t, col>>)
  PROVE  pool'[<<t, col>>] # {}
  <1> DEFINE x == <<t, col>>
  <1>1. x \in Columns(schema) /\ x[1] = t /\ x[2] = col
    BY ColumnIn
  <1>2. content[col] \in Constrained(x)
    BY ContentsAre
  <1> HIDE DEF x
  <1>3. content[col] \in [1 .. Rows -> Int]
    BY <1>1, <1>2, ConstrainedAre DEF x
  <1>4. 1 \in 1 .. Rows
    BY RowAssumption
  <1>5. content[col][1] \in ToSet(content[col]) \ {Null}
    <2> DEFINE cells == content[col]
    <2>1. cells \in [1 .. Rows -> Int]
      BY <1>3
    <2> HIDE DEF cells
    <2>2. cells[1] \in ToSet(cells) /\ cells[1] \in Int
      BY <1>4, <2>1 DEF ToSet
    <2> QED
      BY <2>2, RowAssumption DEF cells
  <1>6. Registered(x)
    BY DEF Filled, x
  <1>7. x \in DOMAIN pool
    BY <1>1 DEF Typed
  <1>8. pool'[x] = pool[x] \cup (ToSet(content[col]) \ {Null})
    BY <1>1, <1>6, <1>7 DEF Write
  <1> QED
    BY <1>5, <1>8 DEF x

\* In a suffix of the order, the first table's parents are before it.
LEMMA SuffixHead ==
  ASSUME NEW s, Suffix(s), s # <<>>, Linked
  PROVE  Parents(Head(s)) \subseteq Tables \ ToSet(s)
  <1>1. s \in Seq(Tables) /\ Len(s) \in Nat \ {0} /\ Head(s) = s[1]
    BY TailOf DEF Suffix
  <1>2. Parents(s[1]) \cap ToSet(s) = {}
    <2> SUFFICES ASSUME NEW parent \in Parents(s[1]) \cap ToSet(s) PROVE FALSE
      OBVIOUS
    <2>1. \E j \in 1 .. 1 - 1 : s[j] = parent
      BY <1>1 DEF Suffix
    <2> QED
      BY <2>1
  <1>3. Parents(s[1]) \subseteq Tables
    BY ParentTables
  <1> QED
    BY <1>1, <1>2, <1>3

LEMMA SuffixTail ==
  ASSUME NEW s, Suffix(s), s # <<>>, Linked
  PROVE  Suffix(Tail(s))
  <1> DEFINE rest == Tail(s)
  <1>1. s \in Seq(Tables) /\ NoRepeats(s)
    BY DEF Suffix
  <1>2. /\ Len(s) \in Nat \ {0} /\ Head(s) = s[1] /\ Head(s) \in Tables
        /\ rest \in Seq(Tables) /\ Len(rest) = Len(s) - 1
        /\ \A i \in 1 .. Len(s) - 1 : rest[i] = s[i + 1]
        /\ ToSet(s) = {Head(s)} \cup ToSet(rest)
    BY <1>1, TailOf
  <1>3. NoRepeats(rest) /\ Head(s) \notin ToSet(rest)
    BY <1>1, TailOnce
  <1>4. Parents(Head(s)) \subseteq Tables \ ToSet(s)
    BY SuffixHead
  <1> HIDE DEF rest
  <1>5. \A t \in Tables \ ToSet(rest) : Parents(t) \cap ToSet(rest) = {}
    BY <1>2, <1>4 DEF Suffix
  <1>6. ASSUME NEW i \in 1 .. Len(rest), NEW parent \in Parents(rest[i]) \cap ToSet(rest)
        PROVE  \E j \in 1 .. i - 1 : rest[j] = parent
    <2>1. i + 1 \in 1 .. Len(s) /\ s[i + 1] = rest[i] /\ parent \in ToSet(s)
      BY <1>2
    <2>2. PICK j \in 1 .. (i + 1) - 1 : s[j] = parent
      BY <2>1 DEF Suffix
    <2>3. j # 1
      BY <1>2, <1>3, <2>2
    <2>4. j - 1 \in 1 .. i - 1 /\ j - 1 \in 1 .. Len(s) - 1 /\ (j - 1) + 1 = j
      BY <1>2, <2>2, <2>3
    <2>5. rest[j - 1] = s[j]
      BY <1>2, <2>4
    <2> QED
      BY <2>2, <2>4, <2>5
  <1>7. Suffix(rest)
    BY <1>2, <1>3, <1>5, <1>6 DEF Suffix
  <1> QED
    BY <1>7 DEF rest

-----------------------------------------------------------------------------
(* The rounds *)

\* The first table of the list: it has no file, and is in no list after.
LEMMA FirstTable ==
  ASSUME Lists, phase \in {"round", "force"}, todo # <<>>
  PROVE  /\ Head(todo) \in Tables /\ files[Head(todo)] = NoFile
         /\ Tail(todo) \in Seq(Tables) /\ NoRepeats(Tail(todo))
         /\ ToSet(todo) = {Head(todo)} \cup ToSet(Tail(todo))
         /\ Head(todo) \notin ToSet(Tail(todo)) /\ Head(todo) \notin ToSet(deferred)
  <1>1. /\ todo \in Seq(Tables) /\ NoRepeats(todo) /\ ToSet(todo) \cap ToSet(deferred) = {}
        /\ \A t \in ToSet(todo) : files[t] = NoFile
    BY DEF Lists
  <1>2. /\ Head(todo) \in Tables /\ Tail(todo) \in Seq(Tables) /\ NoRepeats(Tail(todo))
        /\ ToSet(todo) = {Head(todo)} \cup ToSet(Tail(todo)) /\ Head(todo) \notin ToSet(Tail(todo))
    BY <1>1, TailOf, TailOnce
  <1> QED
    BY <1>1, <1>2

\* The lists after a step that takes the first table.
LEMMA ListsTail ==
  ASSUME Lists, phase \in {"round", "force"}, todo # <<>>, todo' = Tail(todo),
         UNCHANGED <<schema, refs, phase, deferred>>,
         \A t \in Tables : t # Head(todo) => files'[t] = files[t]
  PROVE  Lists'
  <1>1. /\ Tail(todo) \in Seq(Tables) /\ NoRepeats(Tail(todo))
        /\ ToSet(todo) = {Head(todo)} \cup ToSet(Tail(todo))
        /\ Head(todo) \notin ToSet(Tail(todo)) /\ Head(todo) \notin ToSet(deferred)
    BY FirstTable
  <1>2. /\ deferred \in Seq(Tables) /\ NoRepeats(deferred) /\ ToSet(todo) \cap ToSet(deferred) = {}
        /\ \A t \in ToSet(todo) \cup ToSet(deferred) : files[t] = NoFile
        /\ phase = "force" => deferred = <<>>
    BY DEF Lists
  <1>3. \A t \in ToSet(Tail(todo)) \cup ToSet(deferred) : files'[t] = NoFile
    BY <1>1, <1>2, ElementsOf
  <1>4. Tables' = Tables
    BY PlanStays
  <1>5. NoRepeats(todo)' = NoRepeats(Tail(todo)) /\ NoRepeats(deferred)' = NoRepeats(deferred)
    BY PlanPrimed
  <1> QED
    BY <1>1, <1>2, <1>3, <1>4, <1>5 DEF Lists

\* What is regular stays so as long as no table fails.
LEMMA RegularStays ==
  ASSUME UNCHANGED <<schema, refs>>
  PROVE  /\ \A key : Filled(key)' = Filled(key)
         /\ Regular' => Acyclic /\ \A ref \in refs : Filled(KeyOf(ref))
         /\ (Regular' /\ history'.failed = history.failed) => Regular
  <1>1. \A key : Filled(key)' = Filled(key)
    BY DEF Filled, Registered
  <1>2. Acyclic' = Acyclic
    BY PlanStays
  <1>3. Regular' => Acyclic /\ \A ref \in refs : Filled(KeyOf(ref))
    BY <1>1, <1>2 DEF Regular, KeyOf
  <1>4. Regular' => history'.failed = {}
    BY DEF Regular
  <1> QED
    BY <1>1, <1>3, <1>4 DEF Regular

\* Nothing is loaded before the tables are loaded.
LEMMA NothingLoaded ==
  ASSUME Loads, phase \notin {"load", "done"}, phase' \notin {"load", "done"}, UNCHANGED loaded
  PROVE  Loads'
  BY DEF Loads

\* In a regular round every table is ready.
LEMMA RegularReady ==
  ASSUME GenInv, phase = "round", todo # <<>>, Regular
  PROVE  Ready(Head(todo))
  <1>1. Linked /\ Suffix(todo) /\ \A t \in Tables \ ToSet(todo) : Supplied(t)
    BY DEF GenInv, Rounds
  <1> SUFFICES ASSUME NEW ref \in refs, ref[1][1] = Head(todo) PROVE Drawn(ref[1]) # {}
    BY DEF Ready
  <1>2. ref[2] \in Tables \ ToSet(todo)
    BY <1>1, ReferenceOf, SuffixHead
  <1> DEFINE t == ref[2]
             col == ref[3]
  <1>3. KeyOf(ref) = <<t, col>>
    BY DEF KeyOf
  <1>4. Filled(<<t, col>>)
    BY <1>3 DEF Regular
  <1>5. <<t, col>> \in Columns(schema) /\ <<t, col>>[1] = t /\ <<t, col>>[2] = col
    BY <1>4 DEF Filled
  <1>6. col \in ColumnsOf(schema[t])
    BY <1>5, ColumnOut
  <1> HIDE DEF t, col
  <1>7. pool[<<t, col>>] # {}
    BY <1>1, <1>2, <1>4, <1>6 DEF Supplied, t
  <1>8. Registry(ref) = pool[<<t, col>>]
    BY <1>3, <1>5 DEF Registry, GenInv, Typed
  <1> QED
    BY <1>1, <1>7, <1>8, DrawnIs

\* A failure is written down, and leaves everything else.
LEMMA FailIs ==
  ASSUME Typed, NEW t \in Tables, Fail(t)
  PROVE  /\ history' \in [forced : SUBSET Tables, failed : SUBSET Tables, unloaded : SUBSET Tables]
         /\ history'.forced = history.forced /\ history'.failed # {} /\ UNCHANGED <<files, pool>>
  BY DEF Typed, Fail

\* A table that is generated refers to registered values when it was ready.
LEMMA SoundWrite ==
  ASSUME GenInv, phase = "round", NEW t \in Tables, files[t] = NoFile, Ready(t),
         NEW content \in Contents(t), Write(t, content), UNCHANGED <<schema, refs, history>>
  PROVE  Sound'
  <1>1. Typed /\ Linked /\ Kept
    BY DEF GenInv
  <1>2. /\ pool' \in [Columns(schema) -> SUBSET Int]
        /\ files'[t] = content /\ \A u \in Tables : u # t => files'[u] = files[u]
        /\ \A x \in Columns(schema) : pool[x] \subseteq pool'[x]
    BY <1>1, WriteIs
  <1>3. \A ref : Registry(ref) \subseteq Registry(ref)'
    <2> TAKE ref
    <2>1. DOMAIN pool = Columns(schema) /\ DOMAIN pool' = Columns(schema) /\ KeyOf(ref)' = KeyOf(ref)
      BY <1>1, <1>2 DEF Typed, KeyOf
    <2> QED
      BY <1>2, <2>1 DEF Registry
  <1> SUFFICES ASSUME history.forced = {}, NEW ref \in refs, ref[1][2] \notin Overwritten,
                      files'[ref[1][1]] # NoFile, NEW i \in 1 .. Rows
               PROVE  files'[ref[1][1]][ref[1][2]][i] \in Registry(ref)' \cup {Null}
    BY DEF Sound
  <1>4. /\ ref[1] = <<ref[1][1], ref[1][2]>> /\ ref[1][1] \in Tables
        /\ ref[1][2] \in ColumnsOf(schema[ref[1][1]]) /\ ref[1] \in Columns(schema)
    BY <1>1, ReferenceOf
  <1>5. CASE ref[1][1] = t
    <2>1. Drawn(ref[1]) # {} /\ Drawn(ref[1]) = Registry(ref)
      BY <1>1, <1>5, DrawnIs DEF Ready
    <2>2. content[ref[1][2]] \in Constrained(ref[1])
      BY <1>1, <1>4, <1>5, ContentsAre
    <2>3. content[ref[1][2]] \in [1 .. Rows -> Drawn(ref[1]) \cup {Null}]
      BY <1>1, <1>4, <2>1, <2>2, ConstrainedAre
    <2>4. content[ref[1][2]][i] \in Registry(ref) \cup {Null}
      BY <2>1, <2>3
    <2> QED
      BY <1>2, <1>3, <1>5, <2>4
  <1>6. CASE ref[1][1] # t
    BY <1>1, <1>2, <1>3, <1>4, <1>6 DEF GenInv, Sound
  <1> QED
    BY <1>5, <1>6

LEMMA GenerateReadyInv ==
  ASSUME GenInv, GenerateReady
  PROVE  GenInv'
  <1> DEFINE t == Head(todo)
  <1>1. /\ phase = "round" /\ todo # <<>> /\ Ready(t) /\ todo' = Tail(todo)
        /\ Fail(t) \/ ((\E content \in Contents(t) : Write(t, content)) /\ UNCHANGED history)
        /\ UNCHANGED <<schema, refs, order, phase, deferred, report, stored, loaded>>
    BY DEF GenerateReady, plan, database
  <1>2. /\ Typed /\ Linked /\ Kahn /\ Lists /\ Kept /\ Sound /\ Repaired /\ Rounds /\ Loads
    BY DEF GenInv
  <1>3. /\ t \in Tables /\ files[t] = NoFile
        /\ ToSet(todo) = {t} \cup ToSet(Tail(todo))
    BY <1>1, <1>2, FirstTable
  <1>4. Linked' /\ Kahn'
    BY <1>1, KahnStays
  <1>5. Loads' /\ Repaired'
    BY <1>1, <1>2, NothingLoaded DEF Repaired
  <1> HIDE DEF t
  <1>6. CASE Fail(t)
    <2>1. /\ history' \in [forced : SUBSET Tables, failed : SUBSET Tables, unloaded : SUBSET Tables]
          /\ history'.forced = history.forced /\ history'.failed # {} /\ UNCHANGED <<files, pool>>
      BY <1>2, <1>3, <1>6, FailIs
    <2>2. Typed' /\ Kept' /\ Sound'
      BY <1>1, <2>1, QuietInv
    <2>3. Lists'
      BY <1>1, <1>2, <2>1, ListsTail
    <2>4. Rounds'
      BY <2>1 DEF Rounds, Regular
    <2> QED
      BY <1>4, <1>5, <2>2, <2>3, <2>4 DEF GenInv
  <1>7. CASE (\E content \in Contents(t) : Write(t, content)) /\ UNCHANGED history
    <2>1. PICK content \in Contents(t) : Write(t, content)
      BY <1>7
    <2>2. /\ pool' \in [Columns(schema) -> SUBSET Int] /\ files' = [u \in Tables |-> files'[u]]
          /\ \A u \in Tables : files'[u] \in File(u) \cup {NoFile}
          /\ files'[t] = content /\ \A u \in Tables : u # t => files'[u] = files[u]
          /\ \A x \in Columns(schema) : pool[x] \subseteq pool'[x] /\ pool'[x] \subseteq Written(x)'
      BY <1>1, <1>2, <1>3, <2>1, WriteIs
    <2>3. Typed' /\ Kept'
      BY <1>1, <1>2, <1>7, <2>2 DEF Typed, Kept, Tables, File
    <2>4. Sound'
      BY <1>1, <1>3, <1>7, <2>1, SoundWrite
    <2>5. Lists'
      BY <1>1, <1>2, <2>2, ListsTail DEF t
    <2>6. ASSUME Regular'
          PROVE  /\ deferred' = <<>> /\ history'.forced = {} /\ Suffix(todo)'
                 /\ \A u \in Tables' \ ToSet(todo') : Supplied(u)'
      <3>1. Regular
        BY <1>1, <1>7, <2>6, RegularStays
      <3>2. /\ deferred = <<>> /\ history.forced = {} /\ Suffix(todo)
            /\ \A u \in Tables \ ToSet(todo) : Supplied(u)
        BY <1>1, <1>2, <3>1 DEF Rounds
      <3>3. Suffix(todo)'
        <4>1. Suffix(Tail(todo))
          BY <1>1, <1>2, <3>2, SuffixTail
        <4>2. Suffix(todo)' = Suffix(todo')
          BY <1>1, PlanPrimed
        <4> QED
          BY <1>1, <4>1, <4>2
      <3>4. \A u \in Tables \ ToSet(Tail(todo)) : Supplied(u)'
        <4> SUFFICES ASSUME NEW u \in Tables \ ToSet(Tail(todo)),
                            NEW col \in ColumnsOf(schema[u]), Filled(<<u, col>>)
                     PROVE  pool'[<<u, col>>] # {}
          BY <1>1, RegularStays DEF Supplied
        <4>1. CASE u = t
          BY <1>2, <1>3, <2>1, <4>1, WriteSupplies
        <4>2. CASE u # t
          BY <1>3, <2>2, <3>2, <4>2, ColumnIn DEF Supplied
        <4> QED
          BY <4>1, <4>2
      <3>5. Tables' = Tables
        BY <1>1, PlanStays
      <3> QED
        BY <1>1, <1>7, <3>2, <3>3, <3>4, <3>5
    <2>7. Rounds'
      BY <1>1, <2>6 DEF Rounds
    <2> QED
      BY <1>4, <1>5, <2>3, <2>4, <2>5, <2>7 DEF GenInv
  <1> QED
    BY <1>1, <1>6, <1>7

LEMMA DeferInv ==
  ASSUME GenInv, Defer
  PROVE  GenInv'
  <1> DEFINE t == Head(todo)
             later == Append(deferred, t)
  <1>1. /\ phase = "round" /\ todo # <<>> /\ ~Ready(t) /\ todo' = Tail(todo) /\ deferred' = later
        /\ UNCHANGED <<schema, refs, order, phase, pool, files, report, stored, loaded, history>>
    BY DEF Defer, plan, database
  <1>2. Lists /\ Loads
    BY DEF GenInv
  <1>3. /\ t \in Tables /\ files[t] = NoFile
        /\ Tail(todo) \in Seq(Tables) /\ NoRepeats(Tail(todo))
        /\ ToSet(todo) = {t} \cup ToSet(Tail(todo))
        /\ t \notin ToSet(Tail(todo)) /\ t \notin ToSet(deferred)
    BY <1>1, <1>2, FirstTable
  <1>4. Typed' /\ Linked' /\ Kahn' /\ Kept' /\ Sound'
    BY <1>1, QuietInv, KahnStays DEF GenInv, Typed
  <1>5. Loads' /\ Repaired'
    BY <1>1, <1>2, NothingLoaded DEF Repaired
  <1>6. ~Regular
    BY <1>1, RegularReady
  <1>7. Rounds'
    BY <1>1, <1>6, RegularStays DEF Rounds
  <1>8. Lists'
    <2>1. /\ deferred \in Seq(Tables) /\ NoRepeats(deferred) /\ ToSet(todo) \cap ToSet(deferred) = {}
          /\ \A u \in ToSet(todo) \cup ToSet(deferred) : files[u] = NoFile
      BY <1>1, <1>2 DEF Lists
    <2> HIDE DEF t
    <2>2. later \in Seq(Tables) /\ NoRepeats(later) /\ ToSet(later) = ToSet(deferred) \cup {t}
      BY <1>3, <2>1, AppendOf
    <2> HIDE DEF later
    <2>3. NoRepeats(todo)' = NoRepeats(Tail(todo)) /\ NoRepeats(deferred)' = NoRepeats(later)
          /\ Tables' = Tables
      BY <1>1, PlanPrimed, PlanStays
    <2>4. /\ ToSet(Tail(todo)) \cap ToSet(later) = {}
          /\ \A u \in ToSet(Tail(todo)) \cup ToSet(later) : files[u] = NoFile
      BY <1>3, <2>1, <2>2
    <2> QED
      BY <1>1, <1>3, <2>2, <2>3, <2>4 DEF Lists
  <1> QED
    BY <1>4, <1>5, <1>7, <1>8 DEF GenInv

LEMMA EndRoundInv ==
  ASSUME GenInv, EndRound
  PROVE  GenInv'
  <1>1. /\ phase = "round" /\ todo = <<>> /\ todo' = deferred /\ deferred' = <<>>
        /\ phase' = IF deferred # <<>> /\ moved THEN "round" ELSE "force"
        /\ UNCHANGED <<schema, refs, order, pool, files, report, stored, loaded, history>>
    BY DEF EndRound, plan, database
  <1>2. phase' \in {"round", "force"} /\ (phase' = "round" => deferred # <<>>)
    BY <1>1
  <1>3. Typed' /\ Linked' /\ Kahn' /\ Kept' /\ Sound'
    BY <1>1, <1>2, QuietInv, KahnStays DEF GenInv, Typed
  <1>4. Loads' /\ Repaired'
    BY <1>1, <1>2, NothingLoaded DEF GenInv, Repaired
  <1>5. Lists'
    <2>1. /\ deferred \in Seq(Tables) /\ NoRepeats(deferred)
          /\ \A u \in ToSet(deferred) : files[u] = NoFile
      BY <1>1 DEF GenInv, Lists
    <2>2. NoRepeats(todo)' = NoRepeats(deferred) /\ NoRepeats(deferred)' = NoRepeats(<<>>)
          /\ Tables' = Tables
      BY <1>1, PlanPrimed, PlanStays
    <2>3. ToSet(deferred') = {} /\ NoRepeats(<<>>) /\ deferred' \in Seq(Tables)
      BY <1>1, EmptyOf
    <2> QED
      BY <1>1, <1>2, <2>1, <2>2, <2>3 DEF Lists
  <1>6. Rounds'
    <2>1. Regular' => Regular
      BY <1>1, RegularStays
    <2>2. Regular => deferred = <<>> /\ history.forced = {}
      BY DEF GenInv, Rounds
    <2> QED
      BY <1>1, <1>2, <2>1, <2>2 DEF Rounds
  <1> QED
    BY <1>3, <1>4, <1>5, <1>6 DEF GenInv

LEMMA ForceTableInv ==
  ASSUME GenInv, ForceTable
  PROVE  GenInv'
  <1> DEFINE t == Head(todo)
  <1>1. /\ phase = "force" /\ todo # <<>> /\ todo' = Tail(todo)
        /\ \/ Fail(t)
           \/ /\ \E content \in Contents(t) : Write(t, content)
              /\ history' = [history EXCEPT !.forced = @ \cup {t}]
        /\ UNCHANGED <<schema, refs, order, phase, deferred, report, stored, loaded>>
    BY DEF ForceTable, plan, database
  <1>2. /\ Typed /\ Linked /\ Kahn /\ Lists /\ Kept /\ Sound /\ Repaired /\ Rounds /\ Loads
    BY DEF GenInv
  <1>3. t \in Tables /\ files[t] = NoFile
    BY <1>1, <1>2, FirstTable
  <1>4. Linked' /\ Kahn'
    BY <1>1, KahnStays
  <1>5. Loads' /\ Repaired'
    BY <1>1, <1>2, NothingLoaded DEF Repaired
  <1>6. ~Regular
    BY <1>1, <1>2 DEF Rounds
  <1> HIDE DEF t
  <1>7. CASE Fail(t)
    <2>1. /\ history' \in [forced : SUBSET Tables, failed : SUBSET Tables, unloaded : SUBSET Tables]
          /\ history'.forced = history.forced /\ history'.failed # {} /\ UNCHANGED <<files, pool>>
      BY <1>2, <1>3, <1>7, FailIs
    <2>2. Typed' /\ Kept' /\ Sound'
      BY <1>1, <2>1, QuietInv
    <2>3. Lists'
      BY <1>1, <1>2, <2>1, ListsTail
    <2>4. Rounds'
      BY <2>1 DEF Rounds, Regular
    <2> QED
      BY <1>4, <1>5, <2>2, <2>3, <2>4 DEF GenInv
  <1>8. CASE /\ \E content \in Contents(t) : Write(t, content)
             /\ history' = [history EXCEPT !.forced = @ \cup {t}]
    <2>1. PICK content \in Contents(t) : Write(t, content)
      BY <1>8
    <2>2. /\ pool' \in [Columns(schema) -> SUBSET Int] /\ files' = [u \in Tables |-> files'[u]]
          /\ \A u \in Tables : files'[u] \in File(u) \cup {NoFile}
          /\ files'[t] = content /\ \A u \in Tables : u # t => files'[u] = files[u]
          /\ \A x \in Columns(schema) : pool[x] \subseteq pool'[x] /\ pool'[x] \subseteq Written(x)'
      BY <1>1, <1>2, <1>3, <2>1, WriteIs
    <2>3. /\ history' \in [forced : SUBSET Tables, failed : SUBSET Tables, unloaded : SUBSET Tables]
          /\ history'.forced # {} /\ history'.failed = history.failed
      BY <1>2, <1>3, <1>8 DEF Typed
    <2>4. Typed' /\ Kept'
      BY <1>1, <1>2, <2>2, <2>3 DEF Typed, Kept, Tables, File
    <2>5. Sound'
      BY <2>3 DEF Sound
    <2>6. Lists'
      BY <1>1, <1>2, <2>2, ListsTail DEF t
    <2>7. Rounds'
      BY <1>1, <1>6, <2>3, RegularStays DEF Rounds
    <2> QED
      BY <1>4, <1>5, <2>4, <2>5, <2>6, <2>7 DEF GenInv
  <1> QED
    BY <1>1, <1>7, <1>8

-----------------------------------------------------------------------------
(* The repairs *)

LEMMA StartRepairInv ==
  ASSUME GenInv, StartRepair
  PROVE  GenInv'
  <1> DEFINE all == SetToSeq(refs)
  <1>1. /\ phase = "force" /\ phase' = "repair" /\ todo' = all
        /\ UNCHANGED <<schema, refs, order, deferred, pool, files, report, stored, loaded, history>>
    BY DEF StartRepair, plan, database
  <1>2. Typed' /\ Linked' /\ Kahn' /\ Kept' /\ Sound'
    BY <1>1, QuietInv, KahnStays DEF GenInv, Typed
  <1>3. Loads'
    BY <1>1, NothingLoaded DEF GenInv
  <1>4. all \in Seq(refs) /\ ToSet(all) = refs
    BY ReferencesFinite, SetToSeqIs DEF GenInv
  <1> HIDE DEF all
  <1>5. Lists' /\ Repaired'
    BY <1>1, <1>4 DEF Lists, Repaired
  <1>6. Rounds'
    <2>1. Regular' => Regular
      BY <1>1, RegularStays
    <2>2. Regular => deferred = <<>> /\ history.forced = {}
      BY DEF GenInv, Rounds
    <2> QED
      BY <1>1, <2>1, <2>2 DEF Rounds
  <1> QED
    BY <1>2, <1>3, <1>5, <1>6 DEF GenInv

\* What a repair makes of a column: only orphans change, and none is left.
LEMMA MendedIs ==
  ASSUME NEW keys \in SUBSET Int, NEW old \in [1 .. Rows -> Int \cup {Null}],
         NEW cells \in Mended(old, keys)
  PROVE  /\ cells \in [1 .. Rows -> Int \cup {Null}] /\ Orphans(cells, keys) = {}
         /\ Orphans(old, keys) = {} => cells = old
  <1>1. /\ cells \in [1 .. Rows -> keys \cup ToSet(old)]
        /\ \A i \in 1 .. Rows : IF i \in Orphans(old, keys) THEN cells[i] \in keys ELSE cells[i] = old[i]
    BY DEF Mended
  <1>2. ToSet(old) \subseteq Int \cup {Null}
    BY DEF ToSet
  <1>3. cells \in [1 .. Rows -> Int \cup {Null}]
    BY <1>1, <1>2
  <1>4. Orphans(cells, keys) = {}
    BY <1>1 DEF Orphans
  <1>5. ASSUME Orphans(old, keys) = {} PROVE cells = old
    <2>1. \A i \in 1 .. Rows : cells[i] = old[i]
      BY <1>1, <1>5
    <2>2. cells = [i \in 1 .. Rows |-> cells[i]] /\ old = [i \in 1 .. Rows |-> old[i]]
      BY <1>3
    <2> QED
      BY <2>1, <2>2
  <1> QED
    BY <1>3, <1>4, <1>5

\* The repair of one column leaves every other column as it is.
LEMMA RepairIs ==
  ASSUME Typed, Linked, NEW ref \in refs, files[ref[1][1]] # NoFile, UNCHANGED <<schema, pool>>,
         NEW cells \in Mended(files[ref[1][1]][ref[1][2]], Registry(ref)),
         files' = [files EXCEPT ![ref[1][1]] = [@ EXCEPT ![ref[1][2]] = cells]]
  PROVE  /\ files' = [t \in Tables |-> files'[t]]
         /\ \A t \in Tables : files'[t] \in File(t) \cup {NoFile}
         /\ \A t \in Tables : files'[t] = NoFile <=> files[t] = NoFile
         /\ files'[ref[1][1]][ref[1][2]] = cells
         /\ \A x \in Columns(schema) : x # ref[1] => files'[x[1]][x[2]] = files[x[1]][x[2]]
         /\ \A t \in Tables : files[t] # NoFile =>
              DOMAIN files[t] = ColumnsOf(schema[t]) /\ DOMAIN files'[t] = ColumnsOf(schema[t])
         /\ Orphans(cells, Registry(ref)) = {}
         /\ Orphans(files[ref[1][1]][ref[1][2]], Registry(ref)) = {}
              => cells = files[ref[1][1]][ref[1][2]]
  <1> DEFINE t == ref[1][1]
             col == ref[1][2]
             file == files[t]
             mended == [file EXCEPT ![col] = cells]
  <1>1. /\ ref[1] = <<t, col>> /\ t \in Tables /\ col \in ColumnsOf(schema[t])
    BY ReferenceOf
  <1>2. /\ files = [u \in Tables |-> files[u]] /\ \A u \in Tables : files[u] \in File(u) \cup {NoFile}
    BY DEF Typed
  <1>3. file \in [ColumnsOf(schema[t]) -> [1 .. Rows -> Int \cup {Null}]]
    BY <1>1, <1>2 DEF File
  <1>4. Registry(ref) \in SUBSET Int
    BY DEF Typed, Registry
  <1>5. files' = [files EXCEPT ![t] = mended]
    OBVIOUS
  <1>6. files[t] = file /\ cells \in Mended(file[col], Registry(ref))
    OBVIOUS
  <1>7. \A x \in Columns(schema) : x[1] \in Tables /\ x[2] \in ColumnsOf(schema[x[1]]) /\ x = <<x[1], x[2]>>
    BY ColumnOut
  <1> HIDE DEF t, col, file
  <1>8. /\ cells \in [1 .. Rows -> Int \cup {Null}] /\ Orphans(cells, Registry(ref)) = {}
        /\ Orphans(file[col], Registry(ref)) = {} => cells = file[col]
    BY <1>1, <1>3, <1>4, <1>6, MendedIs
  <1>9. /\ mended \in [ColumnsOf(schema[t]) -> [1 .. Rows -> Int \cup {Null}]] /\ mended[col] = cells
        /\ \A c \in ColumnsOf(schema[t]) : c # col => mended[c] = file[c]
    BY <1>1, <1>3, <1>8
  <1>10. NoFile \notin File(t)
    BY <1>1, FileAssumption DEF Typed, Tables, File
  <1> HIDE DEF mended
  <1>11. /\ files'[t] = mended /\ \A u \in Tables : u # t => files'[u] = files[u]
         /\ files' = [u \in Tables |-> files'[u]]
    BY <1>1, <1>2, <1>5
  <1>12. mended \in File(t) /\ mended # NoFile /\ file # NoFile
    BY <1>9, <1>10, <1>3 DEF File
  <1>13. \A u \in Tables : files'[u] \in File(u) \cup {NoFile}
    BY <1>2, <1>11, <1>12
  <1>14. \A u \in Tables : files'[u] = NoFile <=> files[u] = NoFile
    <2> SUFFICES ASSUME NEW u \in Tables PROVE files'[u] = NoFile <=> files[u] = NoFile
      OBVIOUS
    <2>1. CASE u = t
      BY <1>6, <1>11, <1>12, <2>1
    <2>2. CASE u # t
      BY <1>11, <2>2
    <2> QED
      BY <2>1, <2>2
  <1>15. ASSUME NEW x \in Columns(schema), x # ref[1]
         PROVE  files'[x[1]][x[2]] = files[x[1]][x[2]]
    <2>1. CASE x[1] = t
      <3>1. x[2] # col /\ x[2] \in ColumnsOf(schema[t])
        BY <1>1, <1>7, <1>15, <2>1
      <3> QED
        BY <1>6, <1>9, <1>11, <2>1, <3>1
    <2>2. CASE x[1] # t
      BY <1>7, <1>11, <2>2
    <2> QED
      BY <2>1, <2>2
  <1>16. ASSUME NEW u \in Tables, files[u] # NoFile
         PROVE  DOMAIN files[u] = ColumnsOf(schema[u]) /\ DOMAIN files'[u] = ColumnsOf(schema[u])
    <2>1. files[u] \in File(u) /\ files'[u] \in File(u)
      BY <1>2, <1>13, <1>14, <1>16
    <2> QED
      BY <2>1 DEF File
  <1>17. files'[t][col] = cells /\ (Orphans(files[t][col], Registry(ref)) = {} => cells = files[t][col])
    BY <1>6, <1>8, <1>9, <1>11
  <1> QED
    BY <1>8, <1>11, <1>13, <1>14, <1>15, <1>16, <1>17 DEF t, col

LEMMA RepairReferenceInv ==
  ASSUME GenInv, RepairReference
  PROVE  GenInv'
  <1>0. PICK ref : ref = Head(todo)
    OBVIOUS
  <1> DEFINE t == ref[1][1]
             col == ref[1][2]
             mends == \E cells \in Mended(files[t][col], Registry(ref)) :
                        files' = [files EXCEPT ![t] = [@ EXCEPT ![col] = cells]]
  <1>1. /\ phase = "repair" /\ todo # <<>> /\ todo' = Tail(todo)
        /\ IF Registry(ref) = {} \/ files[t] = NoFile THEN UNCHANGED files ELSE mends
        /\ UNCHANGED <<schema, refs, order, phase, deferred, pool, report, stored, loaded, history>>
    BY <1>0 DEF RepairReference, plan, database
  <1>2. /\ Typed /\ Linked /\ Kahn /\ Lists /\ Kept /\ Sound /\ Repaired /\ Rounds /\ Loads
    BY DEF GenInv
  <1>3. ref \in refs /\ Tail(todo) \in Seq(refs) /\ ToSet(todo) = {ref} \cup ToSet(Tail(todo))
    BY <1>0, <1>1, <1>2, TailOf DEF Lists
  <1>4. Linked' /\ Kahn' /\ Loads' /\ Lists'
    BY <1>1, <1>2, <1>3, KahnStays, NothingLoaded DEF Lists
  <1>5. Rounds'
    <2>1. Regular' => Regular
      BY <1>1, RegularStays
    <2> QED
      BY <1>1, <1>2, <2>1 DEF Rounds
  <1>6. \A other \in refs : other \in ToSet(todo) \/ Whole(other)
    BY <1>1, <1>2 DEF Repaired
  <1>7. CASE Registry(ref) = {} \/ files[t] = NoFile
    <2>1. UNCHANGED files
      BY <1>1, <1>7
    <2>2. Typed' /\ Kept' /\ Sound' /\ \A other : Whole(other)' = Whole(other)
      BY <1>1, <1>2, <2>1, QuietInv DEF Typed
    <2>3. Whole(ref)
      BY <1>7 DEF Whole
    <2>4. Repaired'
      BY <1>1, <1>3, <1>6, <2>2, <2>3 DEF Repaired
    <2> QED
      BY <1>4, <1>5, <2>2, <2>4 DEF GenInv
  <1>8. CASE ~(Registry(ref) = {} \/ files[t] = NoFile)
    <2> DEFINE old == files[t][col]
    <2>1. PICK cells \in Mended(old, Registry(ref)) :
            files' = [files EXCEPT ![t] = [@ EXCEPT ![col] = cells]]
      BY <1>1, <1>8
    <2>2. /\ files' = [u \in Tables |-> files'[u]]
          /\ \A u \in Tables : files'[u] \in File(u) \cup {NoFile}
          /\ \A u \in Tables : files'[u] = NoFile <=> files[u] = NoFile
          /\ files'[t][col] = cells
          /\ \A x \in Columns(schema) : x # ref[1] => files'[x[1]][x[2]] = files[x[1]][x[2]]
          /\ \A u \in Tables : files[u] # NoFile =>
               DOMAIN files[u] = ColumnsOf(schema[u]) /\ DOMAIN files'[u] = ColumnsOf(schema[u])
          /\ Orphans(cells, Registry(ref)) = {}
          /\ Orphans(old, Registry(ref)) = {} => cells = old
      BY <1>1, <1>2, <1>3, <1>8, <2>1, RepairIs
    <2>3. /\ ref[1] \in Columns(schema) /\ ref[1] = <<t, col>> /\ t \in Tables
      BY <1>2, <1>3, ReferenceOf
    <2> HIDE DEF t, col, old
    <2>4. Typed'
      BY <1>1, <1>2, <2>2 DEF Typed, Tables, File
    <2>5. \A other : Registry(other)' = Registry(other)
      BY <1>1 DEF Registry, KeyOf
    <2>6. ASSUME NEW other \in refs, other # ref
          PROVE  /\ other[1][1] \in Tables
                 /\ files'[other[1][1]] = NoFile <=> files[other[1][1]] = NoFile
                 /\ files'[other[1][1]][other[1][2]] = files[other[1][1]][other[1][2]]
      <3>1. other[1] \in Columns(schema) /\ other[1] # ref[1] /\ other[1][1] \in Tables
        BY <1>2, <1>3, <2>6, ReferenceOf DEF Linked
      <3> QED
        BY <2>2, <3>1
    <2>7. history.forced = {} /\ ref[1][2] \notin Overwritten => cells = old
      <3> SUFFICES ASSUME history.forced = {}, ref[1][2] \notin Overwritten
                   PROVE  Orphans(old, Registry(ref)) = {}
        BY <2>2
      <3>1. \A i \in 1 .. Rows : old[i] \in Registry(ref) \cup {Null}
        BY <1>2, <1>3, <1>8 DEF Sound, t, col, old
      <3> QED
        BY <3>1 DEF Orphans
    <2>8. Sound'
      <3> SUFFICES ASSUME history.forced = {}, NEW other \in refs,
                          other[1][2] \notin Overwritten, files'[other[1][1]] # NoFile,
                          NEW i \in 1 .. Rows
                   PROVE  files'[other[1][1]][other[1][2]][i] \in Registry(other) \cup {Null}
        BY <1>1, <2>5 DEF Sound
      <3>1. /\ files[other[1][1]] # NoFile
            /\ files'[other[1][1]][other[1][2]] = files[other[1][1]][other[1][2]]
        <4>1. CASE other = ref
          BY <1>8, <2>2, <2>7, <4>1 DEF t, col, old
        <4>2. CASE other # ref
          BY <2>6, <4>2
        <4> QED
          BY <4>1, <4>2
      <3> QED
        BY <1>2, <3>1 DEF Sound
    <2>9. Kept'
      <3> SUFFICES ASSUME NEW x \in Columns(schema), Firm(x)
                   PROVE  pool[x] \subseteq Written(x)'
        BY <1>1 DEF Kept, Firm
      <3>1. pool[x] \subseteq Written(x)
        BY <1>2 DEF Kept
      <3>2. files'[x[1]][x[2]] = files[x[1]][x[2]]
        <4>1. CASE x = ref[1]
          BY <1>3, <2>2, <2>3, <2>7, <4>1 DEF old, Firm
        <4>2. CASE x # ref[1]
          BY <2>2, <4>2
        <4> QED
          BY <4>1, <4>2
      <3>3. x[1] \in Tables
        BY ColumnOut
      <3>4. Written(x)' = Written(x)
        BY <2>2, <3>2, <3>3 DEF Written
      <3> QED
        BY <3>1, <3>4
    <2>10. Whole(ref)'
      BY <2>2, <2>5 DEF Whole, t, col, Orphans
    <2>11. ASSUME NEW other \in refs, other # ref, Whole(other) PROVE Whole(other)'
      BY <2>5, <2>6, <2>11 DEF Whole, Orphans
    <2>12. Repaired'
      BY <1>1, <1>3, <1>6, <2>10, <2>11 DEF Repaired
    <2> QED
      BY <1>4, <1>5, <2>4, <2>8, <2>9, <2>12 DEF GenInv
  <1> QED
    BY <1>7, <1>8

\* An order of all the tables, parents first, is all there is to load.
LEMMA AuditInv ==
  ASSUME GenInv, Audit
  PROVE  GenInv'
  <1>1. /\ phase = "repair" /\ todo = <<>> /\ phase' = "load" /\ todo' = order
        /\ report' = {ref \in refs :
                        /\ Registry(ref) # {} /\ files[ref[1][1]] # NoFile
                        /\ Orphans(files[ref[1][1]][ref[1][2]], Registry(ref)) # {}}
        /\ UNCHANGED <<schema, refs, order, deferred, pool, files, stored, loaded, history>>
    BY DEF Audit, plan, database, LoadOrder
  <1>2. /\ Typed' /\ Linked' /\ Kahn' /\ Kept' /\ Sound'
        /\ \A ref : Whole(ref)' = Whole(ref)
    BY <1>1, QuietInv, KahnStays DEF GenInv, Typed
  <1>3. \A ref \in refs : Whole(ref)
    BY <1>1, EmptyOf DEF GenInv, Repaired
  <1>4. report' = {}
    BY <1>1, <1>3 DEF Whole
  <1>5. Repaired'
    BY <1>1, <1>2, <1>3, <1>4 DEF Repaired
  <1>6. Ordered
    BY <1>1 DEF GenInv, Kahn
  <1>7. Tables' = Tables /\ Acyclic' = Acyclic /\ ConstraintsFound' = ConstraintsFound
        /\ Suffix(todo)' = Suffix(order)
    BY <1>1, PlanStays, PlanPrimed
  <1>8. Lists'
    BY <1>1, <1>6, <1>7 DEF Lists, Ordered
  <1>9. Acyclic => Suffix(order)
    BY <1>6, OrderSuffix DEF Ordered
  <1>10. Loads'
    BY <1>1, <1>7, <1>9 DEF GenInv, Loads
  <1>11. Rounds'
    <2>1. Regular' => Regular
      BY <1>1, RegularStays
    <2> QED
      BY <1>1, <2>1 DEF GenInv, Rounds
  <1> QED
    BY <1>2, <1>5, <1>8, <1>10, <1>11 DEF GenInv

-----------------------------------------------------------------------------
(* The load *)

\* The tables that refer to what is still to be loaded are still to be loaded.
LEMMA CascadeIs ==
  ASSUME ConstraintsFound, NEW s, Suffix(s), NEW t \in ToSet(s)
  PROVE  Cascade(t) \subseteq ToSet(s)
  <1> DEFINE closed == {S \in SUBSET Tables : \A u \in Tables : Parents(u) \cap S # {} => u \in S}
  <1>1. Descendants(t) = {u \in Tables : \A S \in closed : t \in S => u \in S}
    BY DEF Descendants
  <1>2. ToSet(s) \in SUBSET Tables
    BY ElementsOf DEF Suffix
  <1>3. ToSet(s) \in closed
    BY <1>2 DEF Suffix
  <1> HIDE DEF closed
  <1>4. Descendants(t) \subseteq ToSet(s)
    BY <1>1, <1>3
  <1> QED
    BY <1>2, <1>4 DEF ConstraintsFound

LEMMA LoadTableInv ==
  ASSUME GenInv, LoadTable
  PROVE  GenInv'
  <1> DEFINE t == Head(todo)
             cleared == stored \ Cascade(t)
  <1>1. /\ phase = "load" /\ todo # <<>> /\ todo' = Tail(todo)
        /\ UNCHANGED <<schema, refs, order, phase, deferred, pool, files, report>>
    BY DEF LoadTable, plan
  <1>2. \/ UNCHANGED <<stored, loaded, history>>
        \/ stored' = cleared \cup {t} /\ loaded' = loaded \cup {t} /\ UNCHANGED history
        \/ /\ history' = [history EXCEPT !.unloaded = @ \cup {t}]
           /\ stored' \in {stored, cleared, cleared \cup {t}} /\ UNCHANGED loaded
    BY DEF LoadTable, database
  <1>3. /\ Typed /\ Linked /\ Kahn /\ Lists /\ Repaired /\ Rounds /\ Loads
    BY DEF GenInv
  <1>4. /\ t \in Tables /\ Tail(todo) \in Seq(Tables) /\ ToSet(todo) = {t} \cup ToSet(Tail(todo))
    BY <1>1, <1>3, TailOf DEF Lists
  <1>5. /\ history' \in [forced : SUBSET Tables, failed : SUBSET Tables, unloaded : SUBSET Tables]
        /\ history'.forced = history.forced /\ history'.failed = history.failed
    BY <1>2, <1>3, <1>4 DEF Typed
  <1>6. Typed' /\ Linked' /\ Kahn' /\ Kept' /\ Sound' /\ \A ref : Whole(ref)' = Whole(ref)
    BY <1>1, <1>5, QuietInv, KahnStays
  <1>7. Repaired'
    BY <1>1, <1>3, <1>6 DEF Repaired
  <1>8. Rounds'
    <2>1. Regular' => Regular
      BY <1>1, <1>5, RegularStays
    <2> QED
      BY <1>1, <1>3, <1>5, <2>1 DEF Rounds
  <1>9. Tables' = Tables /\ Acyclic' = Acyclic /\ ConstraintsFound' = ConstraintsFound
        /\ Suffix(todo)' = Suffix(Tail(todo))
    BY <1>1, PlanStays, PlanPrimed
  <1>10. Lists'
    BY <1>1, <1>4, <1>9 DEF Lists
  <1>11. ASSUME Acyclic, ConstraintsFound
         PROVE  loaded' \subseteq stored' /\ Suffix(Tail(todo)) /\ loaded' \cap ToSet(Tail(todo)) = {}
    <2>1. loaded \subseteq stored /\ Suffix(todo) /\ loaded \cap ToSet(todo) = {}
      BY <1>1, <1>3, <1>11 DEF Loads
    <2>2. Suffix(Tail(todo))
      BY <1>1, <1>3, <2>1, SuffixTail
    <2>3. t \notin ToSet(Tail(todo))
      BY <1>1, <2>1, TailOnce DEF Suffix
    <2>4. Cascade(t) \subseteq ToSet(todo)
      BY <1>4, <1>11, <2>1, CascadeIs
    <2>5. loaded \subseteq cleared
      BY <2>1, <2>4
    <2> HIDE DEF t, cleared
    <2> QED
      BY <1>2, <1>4, <2>1, <2>2, <2>3, <2>5
  <1>12. Loads'
    BY <1>1, <1>9, <1>11 DEF Loads
  <1> QED
    BY <1>6, <1>7, <1>8, <1>10, <1>12 DEF GenInv

LEMMA FinishInv ==
  ASSUME GenInv, Finish
  PROVE  GenInv'
  <1>1. /\ phase = "load" /\ phase' = "done"
        /\ UNCHANGED <<schema, refs, order, todo, deferred, pool, files, report, stored, loaded,
                       history>>
    BY DEF Finish, plan, database
  <1>2. /\ Typed' /\ Linked' /\ Kahn' /\ Kept' /\ Sound' /\ \A ref : Whole(ref)' = Whole(ref)
    BY <1>1, QuietInv, KahnStays DEF GenInv, Typed
  <1>3. Tables' = Tables /\ Acyclic' = Acyclic /\ ConstraintsFound' = ConstraintsFound
    BY <1>1, PlanStays
  <1>4. Lists' /\ Repaired' /\ Loads'
    BY <1>1, <1>2, <1>3 DEF GenInv, Lists, Repaired, Loads
  <1>5. Rounds'
    <2>1. Regular' => Regular
      BY <1>1, RegularStays
    <2> QED
      BY <1>1, <2>1 DEF GenInv, Rounds
  <1> QED
    BY <1>2, <1>4, <1>5 DEF GenInv

LEMMA StutterInv ==
  ASSUME GenInv, UNCHANGED vars
  PROVE  GenInv'
  <1>1. UNCHANGED <<schema, refs, deps, queue, order, phase, todo, deferred, pool, files, report,
                    stored, loaded, history>>
    BY DEF vars
  <1>2. /\ Typed' /\ Linked' /\ Kept' /\ Sound' /\ \A ref : Whole(ref)' = Whole(ref)
    BY <1>1, QuietInv DEF GenInv, Typed
  <1>3. /\ Tables' = Tables /\ Acyclic' = Acyclic /\ ConstraintsFound' = ConstraintsFound
        /\ (\A t : Parents(t)' = Parents(t))
        /\ ParentsBefore(order)' = ParentsBefore(order) /\ NoRepeats(order)' = NoRepeats(order)
        /\ Suffix(todo)' = Suffix(todo) /\ NoRepeats(todo)' = NoRepeats(todo)
        /\ NoRepeats(deferred)' = NoRepeats(deferred)
    BY <1>1, PlanStays, PlanPrimed
  <1>4. NoRepeats(queue)' = NoRepeats(queue)
    BY <1>1 DEF NoRepeats
  <1>5. Kahn'
    <2>1. CASE phase = "order"
      <3>1. Placing
        BY <2>1 DEF GenInv, Kahn
      <3>2. Placing'
        BY <1>1, <1>3, <1>4, <3>1 DEF Placing
      <3> QED
        BY <1>1, <2>1, <3>2 DEF Kahn
    <2>2. CASE phase # "order"
      BY <1>1, <2>2, KahnStays
    <2> QED
      BY <2>1, <2>2
  <1>6. Lists' /\ Repaired' /\ Loads'
    BY <1>1, <1>2, <1>3 DEF GenInv, Lists, Repaired, Loads
  <1>7. Rounds'
    <2>1. Regular' => Regular
      BY <1>1, RegularStays
    <2>2. \A t : Supplied(t)' = Supplied(t)
      BY <1>1, RegularStays DEF Supplied
    <2> QED
      BY <1>1, <1>3, <2>1, <2>2 DEF GenInv, Rounds
  <1> QED
    BY <1>2, <1>5, <1>6, <1>7 DEF GenInv

LEMMA StepInv == GenInv /\ [Next]_vars => GenInv'
  <1> SUFFICES ASSUME GenInv, [Next]_vars PROVE GenInv'
    OBVIOUS
  <1>1. CASE PlaceTable
    BY <1>1, PlaceTableInv
  <1>2. CASE FinishOrder
    BY <1>2, FinishOrderInv
  <1>3. CASE GenerateReady
    BY <1>3, GenerateReadyInv
  <1>4. CASE Defer
    BY <1>4, DeferInv
  <1>5. CASE EndRound
    BY <1>5, EndRoundInv
  <1>6. CASE ForceTable
    BY <1>6, ForceTableInv
  <1>7. CASE StartRepair
    BY <1>7, StartRepairInv
  <1>8. CASE RepairReference
    BY <1>8, RepairReferenceInv
  <1>9. CASE Audit
    BY <1>9, AuditInv
  <1>10. CASE LoadTable
    BY <1>10, LoadTableInv
  <1>11. CASE Finish
    BY <1>11, FinishInv
  <1>12. CASE UNCHANGED vars
    BY <1>12, StutterInv
  <1> QED
    BY <1>1, <1>2, <1>3, <1>4, <1>5, <1>6, <1>7, <1>8, <1>9, <1>10, <1>11, <1>12 DEF Next, Done

\* Every state of a generation and its load satisfies the invariant.
THEOREM GenerationInvariant == Spec => []GenInv
  BY InitInv, StepInv, PTL DEF Spec

-----------------------------------------------------------------------------
(* What the invariant says *)

\* One round of generate_all() generates every table, and nothing is deferred or
\* forced, when the references form no cycle, every key is registered, and no
\* table fails.
THEOREM OneRound == Spec => []OneRoundEnough
  <1>1. GenInv => OneRoundEnough
    BY DEF GenInv, Rounds, Regular, OneRoundEnough
  <1> QED
    BY <1>1, GenerationInvariant, PTL

\* validate_fk_integrity() finds no reference broken after _fix_orphan_fks(),
\* whatever was forced and whichever tables failed.
THEOREM AuditAlwaysPasses == Spec => []AuditPasses
  <1>1. GenInv => AuditPasses
    BY DEF GenInv, Repaired, AuditPasses
  <1> QED
    BY <1>1, GenerationInvariant, PTL

\* The files themselves have no orphan of a key that no repair of _fix_orphan_fks()
\* moves: one that refers to no other, or, when no table was forced, one that
\* _apply_row_constraints() does not write over.
THEOREM FilesHaveNoOrphans == Spec => []NoOrphans
  <1>1. ASSUME GenInv, phase = "done", NEW ref \in refs, Firm(KeyOf(ref)),
               Registry(ref) # {}, files[ref[1][1]] # NoFile
        PROVE  Orphans(files[ref[1][1]][ref[1][2]], Written(KeyOf(ref))) = {}
    <2>1. Orphans(files[ref[1][1]][ref[1][2]], Registry(ref)) = {}
      BY <1>1 DEF GenInv, Repaired, Whole
    <2>2. KeyOf(ref) \in Columns(schema) /\ Registry(ref) = pool[KeyOf(ref)]
      BY <1>1 DEF GenInv, Typed, Registry
    <2>3. pool[KeyOf(ref)] \subseteq Written(KeyOf(ref))
      BY <1>1, <2>2 DEF GenInv, Kept
    <2> QED
      BY <2>1, <2>2, <2>3 DEF Orphans
  <1>2. GenInv => NoOrphans
    BY <1>1 DEF NoOrphans, TrueOrphans
  <1> QED
    BY <1>2, GenerationInvariant, PTL

\* A table whose LoadResult reports rows keeps rows through the TRUNCATE ... CASCADE
\* of every table that is loaded after it, when the references form no cycle and
\* account for the database's foreign keys, which need not be those of the map.
THEOREM NoLoadIsUndone == Spec => []LoadedStays
  <1>1. GenInv => LoadedStays
    BY DEF GenInv, Loads, LoadedStays
  <1> QED
    BY <1>1, GenerationInvariant, PTL
=============================================================================
