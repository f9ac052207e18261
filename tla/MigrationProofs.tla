----------------------------- MODULE MigrationProofs -----------------------------
(***************************************************************************)
(* Theorems about Migration, for any files, samples, faults and runs: a    *)
(* run that ends without a fault leaves the schema and the samples that    *)
(* the files declare, whatever the runs before it left behind.             *)
(***************************************************************************)
EXTENDS Migration, FiniteSetTheorems, SequenceTheorems, TLAPS

-----------------------------------------------------------------------------
(* The inductive invariant *)

\* Where a file has its table, and the table's name.
At(f) == CHOOSE k \in DOMAIN Source[f] : Source[f][k].kind = "table"

Name(f) == Source[f][At(f)].table

\* The table that a file's text mentions first.
First(f) == FirstTable(Mentions[f])

Names == {stmt.table : stmt \in TablesDeclared}

IndexesOf(f) == {index \in IndexesKept : index.table = Name(f)}

ReferencesIn(stmt) == {key \in ConstraintsOf(stmt) : key.kind = "foreign"}

\* The foreign keys of the first k statements of a file.
ReferencesUpTo(f, k) == UNION {ReferencesIn(Source[f][l]) : l \in 1 .. k}

ReferencesOf(f) == ReferencesUpTo(f, Len(Source[f]))

\* What a file is converted to: its table is dropped and created; the rest is plain.
Creation(f) == Convert(Source[f][At(f)]).statements[2]

Plain(f) == {CreateIndex(index) : index \in IndexesOf(f)} \cup {CommentOn(Name(f))}

Target(f) == {Drop(Name(f)), Creation(f)} \cup Plain(f)

\* The list that the first k statements of a file make.
Program(list, f, k) ==
  /\ list \in Seq(Target(f))
  /\ k < At(f) => list = <<>>
  /\ k >= At(f) =>
       /\ Len(list) >= 2 /\ list[1] = Drop(Name(f)) /\ list[2] = Creation(f)
       /\ \A i \in 3 .. Len(list) : list[i] \in Plain(f)
       /\ \A l \in 1 .. k : Source[f][l].kind = "index" =>
            \E i \in 3 .. Len(list) : list[i] = CreateIndex(Source[f][l].index)

\* The list that is executed for a file.
Complete(list, f) == Program(list, f, Len(Source[f]))

\* Statements of the file that were converted.
Read == Len(Source[file]) - Len(todo)

Converting ==
  /\ todo \in Seq(Statements) /\ Read \in Nat
  /\ \A i \in 1 .. Len(todo) : todo[i] = Source[file][Read + i]
  /\ Program(converted.statements, file, Read)
  /\ converted.foreignKeys \in Seq(References)
  /\ ToSet(converted.foreignKeys) = ReferencesUpTo(file, Read)

Phases == {"none", "file", "convert", "execute", "load", "keys", "summary"}

Report == [file : Nat, converted : BOOLEAN, executed : BOOLEAN]

\* Nothing is in the database but what was declared.
Schema ==
  /\ tables = [t \in DOMAIN tables |-> tables[t]] /\ DOMAIN tables \subseteq Names
  /\ indexes \subseteq IndexesKept /\ \A index \in indexes : index.table \in DOMAIN tables
  /\ keys \subseteq References
  /\ \A key \in keys : {key.child, key.parent} \subseteq DOMAIN tables

\* What a run works on.
Control ==
  /\ phase \in Phases /\ file \in Nat \ {0} /\ faults \in Nat
  /\ connected \in BOOLEAN /\ (phase = "none" => ~connected)
  /\ phase \in {"convert", "execute", "load"} => file \in Files
  /\ IF phase = "convert" THEN Converting ELSE converted = NothingConverted
  /\ phase = "execute" => todo \in Seq(Target(file))
  /\ phase = "keys" => todo \in Seq(References)
  /\ phase = "load" => rows \in Seq(ToSet(SampleRows(First(file))))
  /\ collected \in Seq(References)
  /\ summaries \in Seq(Report)

Untouched(table) == \A key \in keys : table \notin {key.child, key.parent}

\* The rows that a prefix of a sample leaves in an empty table, and their keys.
FirstsOf(t, n) ==
  LET s == SampleRows(t)
  IN {s[i] : i \in {i \in 1 .. n :
        /\ s[i].key # Null
        /\ Unique(t, IndexesKept) => \A j \in 1 .. i - 1 : s[j].key # s[i].key}}

KeysUpTo(t, n) == {SampleRows(t)[i].key : i \in 1 .. n} \ {Null}

Limit(t) == IF Len(SampleRows(t)) < MaxRows THEN Len(SampleRows(t)) ELSE MaxRows

\* The first n files load the sample of a table, which one of them creates before.
LoadedBy(t, n) == \E g \in 1 .. n : First(g) = t /\ \E f \in 1 .. g : Name(f) = t

\* Rows of the sample of a file's table that the first n files load.
Count(f, n) == IF LoadedBy(Name(f), n) THEN Limit(Name(f)) ELSE 0

\* A file that is done, and n rows of whose sample were tried.
Migrated(f, n) ==
  /\ Name(f) \in DOMAIN tables
  /\ tables[Name(f)] = FirstsOf(Name(f), n) /\ KeysOf(Name(f)) = KeysUpTo(Name(f), n)
  /\ IndexesOf(f) \subseteq indexes

\* Where the execution of a file is: before the DROP, before the CREATE, after it.
Executing ==
  \/ Complete(todo, file)
  \/ /\ \E list : Complete(list, file) /\ todo = Tail(list)
     /\ Name(file) \notin DOMAIN tables
  \/ /\ Name(file) \in DOMAIN tables /\ tables[Name(file)] = {} /\ Untouched(Name(file))
     /\ todo \in Seq(Plain(file))
     /\ \A index \in IndexesOf(file) :
          index \in indexes \/ CreateIndex(index) \in ToSet(todo)

\* Rows of the sample that were tried.
Tried == Limit(First(file)) - Len(rows)

\* Rows of the sample of a file's table that were tried in this run, while a file loads:
\* a table whose sample an earlier file loaded does not change.
CountNow(f) == IF Name(f) = First(file) /\ ~LoadedBy(Name(f), file - 1) THEN Tried ELSE Count(f, file - 1)

Loading ==
  /\ Tried \in Nat /\ Tried + Len(rows) = Limit(First(file))
  /\ \A i \in 1 .. Len(rows) : rows[i] = SampleRows(First(file))[Tried + i]
  /\ \A f \in 1 .. file : Migrated(f, CountNow(f)) /\ Untouched(Name(f))

\* The last file whose foreign keys were collected.
Collected == IF phase \in {"execute", "load"} THEN file ELSE file - 1

Clean == connected /\ faults = 0

\* The files before this one are done; no foreign key is added before the last one is.
Past ==
  /\ file - 1 \in 0 .. Len(Source)
  /\ phase # "load" => \A f \in 1 .. file - 1 : Migrated(f, Count(f, file - 1))
  /\ phase \in {"file", "convert", "execute", "load"} =>
       \A f \in 1 .. file - 1 : Untouched(Name(f))
  /\ ToSet(collected) = UNION {ReferencesOf(f) : f \in 1 .. Collected}
  /\ \A k \in DOMAIN summaries : summaries[k].converted /\ summaries[k].executed

\* The foreign keys, after the last file.
Adding ==
  /\ phase \in {"keys", "summary"} => file = Len(Source) + 1 /\ keys \subseteq KeysExpected
  /\ phase = "keys" => KeysExpected \subseteq keys \cup ToSet(todo)
  /\ phase = "summary" => KeysExpected \subseteq keys

\* What a run without a fault has done so far.
Faultless ==
  Clean =>
    /\ Past
    /\ phase = "execute" => Executing
    /\ phase = "load" => Loading
    /\ Adding

MigrationInv == Schema /\ Control /\ Faultless

-----------------------------------------------------------------------------
(* Lists *)

LEMMA ElementsOf ==
  ASSUME NEW S, NEW s \in Seq(S)
  PROVE  /\ Len(s) \in Nat /\ DOMAIN s = 1 .. Len(s)
         /\ \A i \in 1 .. Len(s) : s[i] \in S
         /\ ToSet(s) = {s[i] : i \in 1 .. Len(s)}
         /\ ToSet(s) \subseteq S
  BY LenProperties, ElementOfSeq DEF ToSet

LEMMA EmptyOf == ToSet(<<>>) = {} /\ \A S : <<>> \in Seq(S) /\ Len(<<>>) = 0
  <1>1. DOMAIN <<>> = {} /\ Len(<<>>) = 0
    OBVIOUS
  <1> QED
    BY <1>1, EmptySeq DEF ToSet

LEMMA TailOf ==
  ASSUME NEW S, NEW s \in Seq(S), s # <<>>
  PROVE  /\ Len(s) \in Nat \ {0} /\ Head(s) = s[1] /\ Head(s) \in S
         /\ Tail(s) \in Seq(S) /\ Len(Tail(s)) = Len(s) - 1
         /\ \A i \in 1 .. Len(s) - 1 : Tail(s)[i] = s[i + 1]
         /\ ToSet(s) = {Head(s)} \cup ToSet(Tail(s))
  <1>1. /\ Len(s) \in Nat \ {0} /\ Head(s) = s[1] /\ Head(s) \in S
        /\ Tail(s) \in Seq(S) /\ Len(Tail(s)) = Len(s) - 1
        /\ \A i \in 1 .. Len(s) - 1 : Tail(s)[i] = s[i + 1]
    BY EmptySeq, HeadTailProperties
  <1>2. /\ ToSet(s) = {s[i] : i \in 1 .. Len(s)}
        /\ ToSet(Tail(s)) = {Tail(s)[i] : i \in 1 .. Len(s) - 1}
    <2>1. ToSet(Tail(s)) = {Tail(s)[i] : i \in 1 .. Len(Tail(s))}
      <3> DEFINE t == Tail(s)
      <3>1. t \in Seq(S)
        BY <1>1
      <3> HIDE DEF t
      <3>2. ToSet(t) = {t[i] : i \in 1 .. Len(t)}
        BY <3>1, ElementsOf
      <3> QED
        BY <3>2 DEF t
    <2> QED
      BY <1>1, <2>1, ElementsOf
  <1>3. ASSUME NEW i \in 1 .. Len(s) PROVE s[i] \in {Head(s)} \cup ToSet(Tail(s))
    <2>1. CASE i = 1
      BY <1>1, <2>1
    <2>2. CASE i # 1
      <3>1. i - 1 \in 1 .. Len(s) - 1 /\ s[i] = Tail(s)[i - 1]
        BY <1>1, <2>2
      <3> QED
        BY <1>2, <3>1
    <2> QED
      BY <2>1, <2>2
  <1>4. ASSUME NEW i \in 1 .. Len(s) - 1 PROVE Tail(s)[i] \in ToSet(s)
    <2>1. i + 1 \in 1 .. Len(s) /\ Tail(s)[i] = s[i + 1]
      BY <1>1
    <2> QED
      BY <1>2, <2>1
  <1>5. Head(s) \in ToSet(s)
    BY <1>1, <1>2
  <1> QED
    BY <1>1, <1>2, <1>3, <1>4, <1>5

LEMMA ConcatOf ==
  ASSUME NEW S, NEW s \in Seq(S), NEW t \in Seq(S)
  PROVE  /\ s \o t \in Seq(S) /\ Len(s \o t) = Len(s) + Len(t)
         /\ \A i \in 1 .. Len(s) : (s \o t)[i] = s[i]
         /\ \A i \in 1 .. Len(t) : (s \o t)[Len(s) + i] = t[i]
         /\ ToSet(s \o t) = ToSet(s) \cup ToSet(t)
  <1> DEFINE u == s \o t
  <1>1. /\ u \in Seq(S) /\ Len(u) = Len(s) + Len(t)
        /\ \A i \in 1 .. Len(s) + Len(t) : u[i] = IF i <= Len(s) THEN s[i] ELSE t[i - Len(s)]
    BY ConcatProperties
  <1>2. Len(s) \in Nat /\ Len(t) \in Nat
    BY ElementsOf
  <1> HIDE DEF u
  <1>3. ASSUME NEW i \in 1 .. Len(s) PROVE u[i] = s[i] /\ i \in 1 .. Len(u)
    BY <1>1, <1>2
  <1>4. ASSUME NEW i \in 1 .. Len(t) PROVE u[Len(s) + i] = t[i] /\ Len(s) + i \in 1 .. Len(u)
    <2>1. Len(s) + i \in 1 .. Len(s) + Len(t) /\ ~(Len(s) + i <= Len(s)) /\ (Len(s) + i) - Len(s) = i
      BY <1>2
    <2> QED
      BY <1>1, <2>1
  <1>5. /\ ToSet(u) = {u[i] : i \in 1 .. Len(u)}
        /\ ToSet(s) = {s[i] : i \in 1 .. Len(s)} /\ ToSet(t) = {t[i] : i \in 1 .. Len(t)}
    BY <1>1, ElementsOf
  <1>6. ASSUME NEW k \in 1 .. Len(u) PROVE u[k] \in ToSet(s) \cup ToSet(t)
    <2>1. CASE k <= Len(s)
      BY <1>1, <1>2, <1>5, <2>1
    <2>2. CASE k > Len(s)
      <3>1. k - Len(s) \in 1 .. Len(t) /\ u[k] = t[k - Len(s)]
        BY <1>1, <1>2, <2>2
      <3> QED
        BY <1>5, <3>1
    <2> QED
      BY <1>1, <1>2, <2>1, <2>2
  <1>7. ToSet(u) = ToSet(s) \cup ToSet(t)
    <2>1. \A i \in 1 .. Len(s) : s[i] \in ToSet(u)
      BY <1>3, <1>5
    <2>2. \A i \in 1 .. Len(t) : t[i] \in ToSet(u)
      BY <1>4, <1>5
    <2> QED
      BY <1>5, <1>6, <2>1, <2>2
  <1> QED
    BY <1>1, <1>3, <1>4, <1>7 DEF u

\* The definitions of a kind are all of that kind that the list has.
LEMMA OfKindIs ==
  ASSUME NEW S, NEW definitions \in Seq(S), NEW kind
  PROVE  /\ OfKind(definitions, kind) \in Seq({d \in ToSet(definitions) : d.kind = kind})
         /\ ToSet(OfKind(definitions, kind)) = {d \in ToSet(definitions) : d.kind = kind}
  <1> DEFINE at == {k \in DOMAIN definitions : definitions[k].kind = kind}
             n == Cardinality(at)
             upTo(k) == {l \in at : l <= k}
             place == [k \in at |-> Cardinality(upTo(k))]
             position == [i \in 1 .. n |-> CHOOSE k \in at : Cardinality(upTo(k)) = i]
             kept == {d \in ToSet(definitions) : d.kind = kind}
             s == OfKind(definitions, kind)
  <1>1. /\ Len(definitions) \in Nat /\ DOMAIN definitions = 1 .. Len(definitions)
        /\ ToSet(definitions) = {definitions[k] : k \in DOMAIN definitions}
    BY ElementsOf
  <1>2. at \in SUBSET Nat /\ IsFiniteSet(at) /\ n \in Nat
    <2>1. IsFiniteSet(1 .. Len(definitions))
      BY <1>1, FS_Interval
    <2>2. at \subseteq 1 .. Len(definitions)
      BY <1>1
    <2>3. IsFiniteSet(at)
      BY <2>1, <2>2, FS_Subset
    <2> HIDE DEF at
    <2> QED
      BY <1>1, <2>2, <2>3, FS_CardinalityType
  <1>3. kept = {definitions[k] : k \in at}
    BY <1>1
  <1>4. s = [i \in 1 .. n |-> definitions[position[i]]]
    BY DEF OfKind
  <1> HIDE DEF at
  <1>5. ASSUME NEW k \in at PROVE IsFiniteSet(upTo(k)) /\ place[k] \in 1 .. n
    <2>1. IsFiniteSet(upTo(k)) /\ Cardinality(upTo(k)) <= n
      BY <1>2, FS_Subset
    <2>2. k \in upTo(k)
      BY <1>2
    <2> HIDE DEF upTo
    <2>3. Cardinality(upTo(k)) \in Nat /\ Cardinality(upTo(k)) # 0
      BY <2>1, <2>2, FS_CardinalityType, FS_EmptySet
    <2> QED
      BY <1>2, <2>1, <2>3
  <1>6. ASSUME NEW k \in at, NEW l \in at, k < l PROVE place[k] # place[l]
    <2>1. upTo(k) \in SUBSET upTo(l) /\ l \in upTo(l) /\ l \notin upTo(k)
      <3>1. k \in Nat /\ l \in Nat /\ \A m \in at : m \in Nat
        BY <1>2
      <3>2. \A m \in at : m <= k => m <= l
        BY <1>6, <3>1
      <3>3. l <= l /\ ~(l <= k)
        BY <1>6, <3>1
      <3> QED
        BY <3>2, <3>3
    <2> HIDE DEF upTo
    <2>2. upTo(k) # upTo(l)
      BY <2>1
    <2> QED
      BY <1>5, <2>1, <2>2, FS_Subset
  <1>7. place \in Injection(at, 1 .. n)
    <2>1. place \in [at -> 1 .. n]
      BY <1>5
    <2>2. \A k, l \in at : place[k] = place[l] => k = l
      <3> HIDE DEF place
      <3> SUFFICES ASSUME NEW k \in at, NEW l \in at, place[k] = place[l] PROVE k = l
        OBVIOUS
      <3>1. ~(k < l) /\ ~(l < k) /\ k \in Nat /\ l \in Nat
        BY <1>2, <1>6
      <3> QED
        BY <3>1
    <2> HIDE DEF place
    <2> QED
      BY <2>1, <2>2 DEF Injection, IsInjective
  <1>8. place \in Surjection(at, 1 .. n)
    <2>1. IsFiniteSet(1 .. n) /\ Cardinality(1 .. n) = n
      BY <1>2, FS_Interval
    <2> HIDE DEF place
    <2> QED
      BY <1>2, <1>7, <2>1, FS_Injection
  <1>9. ASSUME NEW i \in 1 .. n PROVE position[i] \in at /\ place[position[i]] = i
    <2>1. \E k \in at : place[k] = i
      <3> HIDE DEF place
      <3> QED
        BY <1>8 DEF Surjection
    <2>2. \E k \in at : Cardinality(upTo(k)) = i
      BY <2>1
    <2>3. position[i] \in at /\ Cardinality(upTo(position[i])) = i
      <3> HIDE DEF upTo, n
      <3> QED
        BY <2>2
    <2> HIDE DEF position
    <2> QED
      BY <2>3
  <1>10. ASSUME NEW k \in at PROVE place[k] \in 1 .. n /\ position[place[k]] = k
    <2>1. place[k] \in 1 .. n
      BY <1>5
    <2>2. place[position[place[k]]] = place[k] /\ position[place[k]] \in at
      BY <1>9, <2>1
    <2> HIDE DEF place, position
    <2> QED
      BY <1>7, <2>1, <2>2 DEF Injection, IsInjective
  <1> HIDE DEF place, position, n, s, kept
  <1>11. DOMAIN s = 1 .. n /\ \A i \in 1 .. n : s[i] = definitions[position[i]]
    BY <1>4
  <1>12. \A i \in 1 .. n : s[i] \in kept
    BY <1>3, <1>9, <1>11
  <1>13. s \in Seq(kept) /\ Len(s) = n
    BY <1>2, <1>4, <1>11, <1>12
  <1>14. \A k \in at : \E i \in 1 .. n : s[i] = definitions[k]
    BY <1>10, <1>11
  <1>15. ToSet(s) = {s[i] : i \in 1 .. n}
    BY <1>11 DEF ToSet
  <1> QED
    BY <1>3, <1>12, <1>13, <1>14, <1>15 DEF s, kept

-----------------------------------------------------------------------------
(* The files *)

LEMMA FilesAre == Files = 1 .. Len(Source) /\ Len(Source) \in Nat
  BY SourceAssumption, ElementsOf DEF Files

LEMMA FileIs ==
  ASSUME NEW f \in Files
  PROVE  /\ Source[f] \in Seq(Statements)
         /\ Len(Source[f]) \in Nat /\ DOMAIN Source[f] = 1 .. Len(Source[f])
         /\ At(f) \in 1 .. Len(Source[f]) /\ Source[f][At(f)].kind = "table"
         /\ \A l \in 1 .. Len(Source[f]) :
              /\ Source[f][l] \in Statements
              /\ Source[f][l].kind = "table" => l = At(f)
              /\ Source[f][l].kind = "index" => l > At(f) /\ Source[f][l].index.table = Name(f)
              /\ Source[f][l].kind = "comment" => l > At(f) /\ Source[f][l].table = Name(f)
         /\ Source[f][At(f)] \in TablesDeclared /\ Name(f) \in Names
  <1> DEFINE content == Source[f]
  <1>1. content \in Seq(Statements)
    <2>1. f \in 1 .. Len(Source)
      BY FilesAre
    <2> QED
      BY <2>1, SourceAssumption, ElementsOf
  <1>2. \E k \in DOMAIN content :
          /\ content[k].kind = "table"
          /\ \A l \in DOMAIN content :
               /\ content[l].kind = "table" => l = k
               /\ content[l].kind = "index" => l > k /\ content[l].index.table = content[k].table
               /\ content[l].kind = "comment" => l > k /\ content[l].table = content[k].table
    BY SourceAssumption
  <1>3. At(f) = CHOOSE k \in DOMAIN content : content[k].kind = "table"
    BY DEF At
  <1>5. Name(f) = content[At(f)].table
    BY DEF Name
  <1>6. \A k \in DOMAIN content : content[k] \in Statements
    BY <1>1, ElementsOf
  <1>7. Len(content) \in Nat /\ DOMAIN content = 1 .. Len(content)
    BY <1>1, ElementsOf
  <1> HIDE DEF content
  <1>8. PICK k \in DOMAIN content :
          /\ content[k].kind = "table"
          /\ \A l \in DOMAIN content :
               /\ content[l].kind = "table" => l = k
               /\ content[l].kind = "index" => l > k /\ content[l].index.table = content[k].table
               /\ content[l].kind = "comment" => l > k /\ content[l].table = content[k].table
    BY <1>2
  <1>9. At(f) = k
    BY <1>3, <1>8
  <1>11. content[k] \in TablesDeclared
    BY <1>6, <1>8 DEF TablesDeclared
  <1>12. content[k].table \in Names
    BY <1>11 DEF Names
  <1>13. \A l \in 1 .. Len(content) :
           /\ content[l] \in Statements
           /\ content[l].kind = "table" => l = k
           /\ content[l].kind = "index" => l > k /\ content[l].index.table = Name(f)
           /\ content[l].kind = "comment" => l > k /\ content[l].table = Name(f)
    BY <1>5, <1>6, <1>7, <1>8, <1>9
  <1>14. /\ content \in Seq(Statements) /\ Len(content) \in Nat /\ DOMAIN content = 1 .. Len(content)
         /\ At(f) \in 1 .. Len(content) /\ content[At(f)].kind = "table"
         /\ \A l \in 1 .. Len(content) :
              /\ content[l] \in Statements
              /\ content[l].kind = "table" => l = At(f)
              /\ content[l].kind = "index" => l > At(f) /\ content[l].index.table = Name(f)
              /\ content[l].kind = "comment" => l > At(f) /\ content[l].table = Name(f)
         /\ content[At(f)] \in TablesDeclared /\ Name(f) \in Names
    BY <1>1, <1>5, <1>7, <1>8, <1>9, <1>11, <1>12, <1>13
  <1> QED
    BY <1>14 DEF content

LEMMA NamesApart ==
  ASSUME NEW f \in Files, NEW g \in Files, Name(f) = Name(g) PROVE f = g
  <1>1. Source[f][At(f)] \in TablesDeclared /\ Source[g][At(g)] \in TablesDeclared
    BY FileIs
  <1>2. Source[f][At(f)] \in ToSet(Source[f]) /\ Source[g][At(g)] \in ToSet(Source[g])
    BY FileIs DEF ToSet
  <1>3. Source[f][At(f)].table = Source[g][At(g)].table
    BY DEF Name
  <1> QED
    BY <1>1, <1>2, <1>3, SourceAssumption

\* A statement stands somewhere in a file.
LEMMA Somewhere ==
  ASSUME NEW stmt \in Statements
  PROVE  \E f \in Files : \E l \in 1 .. Len(Source[f]) : stmt = Source[f][l]
  <1>1. PICK f \in Files : stmt \in ToSet(Source[f])
    BY DEF Statements
  <1>2. ToSet(Source[f]) = {Source[f][l] : l \in 1 .. Len(Source[f])}
    BY FileIs, ElementsOf
  <1> QED
    BY <1>1, <1>2

LEMMA TableIsOf ==
  ASSUME NEW stmt \in TablesDeclared
  PROVE  \E f \in Files : stmt = Source[f][At(f)] /\ stmt.table = Name(f)
  <1>1. stmt \in Statements /\ stmt.kind = "table"
    BY DEF TablesDeclared
  <1>2. PICK f \in Files : \E l \in 1 .. Len(Source[f]) : stmt = Source[f][l]
    BY <1>1, Somewhere
  <1>3. PICK l \in 1 .. Len(Source[f]) : stmt = Source[f][l]
    BY <1>2
  <1>4. l = At(f)
    BY <1>1, <1>3, FileIs
  <1> QED
    BY <1>3, <1>4 DEF Name

LEMMA NameIsOf ==
  ASSUME NEW t \in Names PROVE \E f \in Files : t = Name(f)
  BY TableIsOf DEF Names

-----------------------------------------------------------------------------
(* What is made of a statement *)

LEMMA ConvertTableIs ==
  ASSUME NEW stmt \in TablesDeclared
  PROVE  /\ Convert(stmt).statements[1] = Drop(stmt.table)
         /\ Convert(stmt).statements = <<Drop(stmt.table), Convert(stmt).statements[2]>>
         /\ Convert(stmt).statements[2].do = "create"
         /\ Convert(stmt).statements[2].table = stmt.table
         /\ KeyIndexes(Convert(stmt).statements[2]) = IndexesIn(stmt)
         /\ Convert(stmt).foreignKeys \in Seq(ReferencesIn(stmt))
         /\ ToSet(Convert(stmt).foreignKeys) = ReferencesIn(stmt)
  <1> DEFINE defs == stmt.definitions
             of(kind) == OfKind(defs, kind)
             list == of("primary") \o of("unique") \o of("check")
             create == Create(stmt.table, of("column"), list)
  <1>1. stmt.kind = "table" /\ defs \in Seq(ToSet(defs))
    BY SourceAssumption DEF TablesDeclared
  <1>2. ConvertTable(stmt) = [statements |-> <<Drop(stmt.table), create>>, foreignKeys |-> of("foreign")]
    BY DEF ConvertTable
  <1>3. Convert(stmt) = ConvertTable(stmt)
    BY <1>1 DEF Convert
  <1>4. \A kind : /\ of(kind) \in Seq({d \in ToSet(defs) : d.kind = kind})
                  /\ ToSet(of(kind)) = {d \in ToSet(defs) : d.kind = kind}
    BY <1>1, OfKindIs
  <1>5. ReferencesIn(stmt) = {d \in ToSet(defs) : d.kind = "foreign"}
    BY <1>1 DEF ReferencesIn, ConstraintsOf
  <1>6. ToSet(list) = {d \in ToSet(defs) : d.kind \in {"primary", "unique", "check"}} /\ list \in Seq(ToSet(defs))
    <2>1. \A kind : of(kind) \in Seq(ToSet(defs))
      <3> SUFFICES ASSUME NEW kind PROVE of(kind) \in Seq(ToSet(defs))
        OBVIOUS
      <3>1. {d \in ToSet(defs) : d.kind = kind} \subseteq ToSet(defs)
        OBVIOUS
      <3> HIDE DEF of, defs
      <3> QED
        BY <1>4, <3>1, SeqMonotonic
    <2> DEFINE S == ToSet(defs)
               p == of("primary")
               u == of("unique")
               c == of("check")
               q == p \o u
    <2>2. p \in Seq(S) /\ u \in Seq(S) /\ c \in Seq(S)
      BY <2>1
    <2>3. /\ ToSet(p) = {d \in S : d.kind = "primary"}
          /\ ToSet(u) = {d \in S : d.kind = "unique"}
          /\ ToSet(c) = {d \in S : d.kind = "check"}
      BY <1>4
    <2>4. list = q \o c
      OBVIOUS
    <2> HIDE DEF p, u, c, S, list
    <2>5. q \in Seq(S) /\ ToSet(q) = ToSet(p) \cup ToSet(u)
      BY <2>2, ConcatOf DEF q
    <2> HIDE DEF q
    <2>6. q \o c \in Seq(S) /\ ToSet(q \o c) = ToSet(q) \cup ToSet(c)
      BY <2>2, <2>5, ConcatOf
    <2>7. ToSet(list) = {d \in S : d.kind \in {"primary", "unique", "check"}}
      BY <2>3, <2>4, <2>5, <2>6
    <2> QED
      BY <2>4, <2>6, <2>7 DEF S
  <1> HIDE DEF list
  <1>7. create.do = "create" /\ create.table = stmt.table /\ create.constraints = list
    BY DEF Create
  <1>9. KeyIndexes(create) = IndexesIn(stmt)
    <2>1. IndexesIn(stmt) = KeyIndexesOf(stmt.table, ToSet(defs))
      BY <1>1 DEF IndexesIn, ConstraintsOf
    <2> HIDE DEF create, defs
    <2>2. KeyIndexes(create) = KeyIndexesOf(stmt.table, ToSet(list))
      BY <1>7 DEF KeyIndexes
    <2>3. {c \in ToSet(list) : c.kind \in {"primary", "unique"}} =
            {c \in ToSet(defs) : c.kind \in {"primary", "unique"}}
      BY <1>6
    <2> QED
      BY <2>1, <2>2, <2>3 DEF KeyIndexesOf
  <1> HIDE DEF create, of, defs
  <1>10. Convert(stmt).statements = <<Drop(stmt.table), create>> /\ Convert(stmt).foreignKeys = of("foreign")
    BY <1>2, <1>3
  <1> QED
    BY <1>4, <1>5, <1>7, <1>9, <1>10 DEF defs

LEMMA ConvertKeys ==
  ASSUME NEW stmt \in Statements
  PROVE  /\ Convert(stmt).foreignKeys \in Seq(ReferencesIn(stmt))
         /\ ToSet(Convert(stmt).foreignKeys) = ReferencesIn(stmt)
         /\ ReferencesIn(stmt) \subseteq References
  <1>1. ReferencesIn(stmt) \subseteq References
    BY DEF ReferencesIn, References
  <1>2. CASE stmt.kind = "table"
    BY <1>1, <1>2, ConvertTableIs DEF TablesDeclared
  <1>3. CASE stmt.kind = "alter"
    <2>1. Convert(stmt).foreignKeys =
            IF stmt.definition.kind = "foreign" THEN <<stmt.definition>> ELSE <<>>
      BY <1>3 DEF Convert, ConvertAlter
    <2>2. ReferencesIn(stmt) = IF stmt.definition.kind = "foreign" THEN {stmt.definition} ELSE {}
      BY <1>3 DEF ReferencesIn, ConstraintsOf
    <2>3. ToSet(<<stmt.definition>>) = {stmt.definition} /\ <<stmt.definition>> \in Seq({stmt.definition})
      BY DEF ToSet
    <2> QED
      BY <1>1, <2>1, <2>2, <2>3, EmptyOf
  <1>4. CASE stmt.kind \notin {"table", "alter"}
    <2>1. ReferencesIn(stmt) = {}
      BY <1>4 DEF ReferencesIn, ConstraintsOf
    <2>2. Convert(stmt).foreignKeys = <<>>
      BY <1>4 DEF Convert
    <2> QED
      BY <2>1, <2>2, EmptyOf
  <1> QED
    BY <1>2, <1>3, <1>4

\* The indexes that are kept are those of tables and of index statements.
LEMMA KeptIs ==
  /\ \A index \in IndexesKept : \E stmt \in Statements :
       stmt.kind \in {"table", "index"} /\ index \in IndexesIn(stmt)
  /\ \A stmt \in Statements : stmt.kind \in {"table", "index"} => IndexesIn(stmt) \subseteq IndexesKept
  <1>1. ASSUME NEW index \in IndexesKept
        PROVE  \E stmt \in Statements : stmt.kind \in {"table", "index"} /\ index \in IndexesIn(stmt)
    <2>1. index \in IndexesDeclared /\ index \notin IndexesLost
      BY DEF IndexesKept
    <2>2. PICK stmt \in Statements : index \in IndexesIn(stmt) /\ stmt.kind # "alter"
      BY <2>1 DEF IndexesLost
    <2>3. stmt.kind \in {"table", "index"}
      BY <2>2 DEF IndexesIn
    <2> QED
      BY <2>2, <2>3
  <1>2. ASSUME NEW stmt \in Statements, stmt.kind \in {"table", "index"}, NEW index \in IndexesIn(stmt)
        PROVE  index \in IndexesKept
    <2>1. index \in IndexesDeclared
      BY DEF IndexesDeclared
    <2>2. index \notin IndexesLost
      BY <1>2 DEF IndexesLost
    <2> QED
      BY <2>1, <2>2 DEF IndexesKept
  <1> QED
    BY <1>1, <1>2

\* Each is on the table of the file that it stands in.
LEMMA IndexesInIs ==
  ASSUME NEW f \in Files, NEW l \in 1 .. Len(Source[f]), Source[f][l].kind \in {"table", "index"}
  PROVE  \A index \in IndexesIn(Source[f][l]) : index.table = Name(f)
  <1>1. CASE Source[f][l].kind = "index"
    BY <1>1, FileIs DEF IndexesIn
  <1>2. CASE Source[f][l].kind = "table"
    <2>1. Source[f][l].table = Name(f)
      BY <1>2, FileIs DEF Name
    <2>2. IndexesIn(Source[f][l]) = KeyIndexesOf(Source[f][l].table, ConstraintsOf(Source[f][l]))
      BY <1>2 DEF IndexesIn
    <2> QED
      BY <2>1, <2>2 DEF KeyIndexesOf, IndexOn
  <1> QED
    BY <1>1, <1>2

LEMMA IndexTables == \A index \in IndexesKept : \E f \in Files : index \in IndexesOf(f)
  <1> SUFFICES ASSUME NEW index \in IndexesKept PROVE \E f \in Files : index.table = Name(f)
    BY DEF IndexesOf
  <1>1. PICK stmt \in Statements : stmt.kind \in {"table", "index"} /\ index \in IndexesIn(stmt)
    BY KeptIs
  <1>2. PICK f \in Files : \E l \in 1 .. Len(Source[f]) : stmt = Source[f][l]
    BY Somewhere
  <1> QED
    BY <1>1, <1>2, IndexesInIs

\* The indexes of a file are those of its keys and its index statements.
LEMMA IndexesAre ==
  ASSUME NEW f \in Files
  PROVE  /\ Creation(f).do = "create" /\ Creation(f).table = Name(f)
         /\ KeyIndexes(Creation(f)) \subseteq IndexesOf(f)
         /\ \A l \in 1 .. Len(Source[f]) :
              Source[f][l].kind = "index" => Source[f][l].index \in IndexesOf(f)
         /\ \A index \in IndexesOf(f) :
              \/ index \in KeyIndexes(Creation(f))
              \/ \E l \in 1 .. Len(Source[f]) : Source[f][l].kind = "index" /\ index = Source[f][l].index
  <1> DEFINE table == Source[f][At(f)]
  <1>1. table \in TablesDeclared /\ table \in Statements /\ table.kind = "table" /\ At(f) \in 1 .. Len(Source[f])
    BY FileIs
  <1>2. Creation(f).do = "create" /\ Creation(f).table = Name(f) /\ KeyIndexes(Creation(f)) = IndexesIn(table)
    BY <1>1, ConvertTableIs DEF Creation, Name
  <1>3. IndexesIn(table) \subseteq IndexesOf(f)
    BY <1>1, KeptIs, IndexesInIs DEF IndexesOf
  <1>4. ASSUME NEW l \in 1 .. Len(Source[f]), Source[f][l].kind = "index"
        PROVE  Source[f][l].index \in IndexesOf(f)
    <2>1. Source[f][l] \in Statements /\ Source[f][l].index.table = Name(f)
      BY <1>4, FileIs
    <2>2. Source[f][l].index \in IndexesKept
      BY <1>4, <2>1, KeptIs DEF IndexesIn
    <2> QED
      BY <2>1, <2>2 DEF IndexesOf
  <1>5. ASSUME NEW index \in IndexesOf(f)
        PROVE  \/ index \in IndexesIn(table)
               \/ \E l \in 1 .. Len(Source[f]) : Source[f][l].kind = "index" /\ index = Source[f][l].index
    <2>1. index \in IndexesKept /\ index.table = Name(f)
      BY DEF IndexesOf
    <2>2. PICK stmt \in Statements : stmt.kind \in {"table", "index"} /\ index \in IndexesIn(stmt)
      BY <2>1, KeptIs
    <2>3. PICK g \in Files : \E l \in 1 .. Len(Source[g]) : stmt = Source[g][l]
      BY Somewhere
    <2>4. PICK l \in 1 .. Len(Source[g]) : stmt = Source[g][l]
      BY <2>3
    <2>5. index.table = Name(g)
      BY <2>2, <2>4, IndexesInIs
    <2>6. g = f
      BY <2>1, <2>5, NamesApart
    <2>7. CASE stmt.kind = "table"
      <3>1. l = At(f)
        BY <2>4, <2>6, <2>7, FileIs
      <3> QED
        BY <2>2, <2>4, <2>6, <3>1
    <2>8. CASE stmt.kind = "index"
      BY <2>2, <2>4, <2>6, <2>8 DEF IndexesIn
    <2> QED
      BY <2>2, <2>7, <2>8
  <1> HIDE DEF table
  <1> QED
    BY <1>2, <1>3, <1>4, <1>5

LEMMA ReferencesStep ==
  ASSUME NEW f \in Files, NEW k \in 0 .. Len(Source[f]) - 1
  PROVE  /\ ReferencesUpTo(f, k + 1) = ReferencesUpTo(f, k) \cup ReferencesIn(Source[f][k + 1])
         /\ ReferencesUpTo(f, 0) = {}
  <1>1. 1 .. k + 1 = (1 .. k) \cup {k + 1} /\ 1 .. 0 = {}
    BY FileIs
  <1> QED
    BY <1>1 DEF ReferencesUpTo

LEMMA ReferencesAre ==
  /\ References = UNION {ReferencesOf(f) : f \in 1 .. Len(Source)}
  /\ \A f \in Files, k \in Nat : k <= Len(Source[f]) => ReferencesUpTo(f, k) \subseteq References
  <1>1. ASSUME NEW f \in Files, NEW k \in Nat, k <= Len(Source[f])
        PROVE  ReferencesUpTo(f, k) \subseteq References
    <2>1. \A l \in 1 .. k : Source[f][l] \in Statements
      BY <1>1, FileIs
    <2>2. \A l \in 1 .. k : ReferencesIn(Source[f][l]) \subseteq References
      BY <2>1, ConvertKeys
    <2> QED
      BY <2>2 DEF ReferencesUpTo
  <1>2. \A f \in Files : ReferencesOf(f) \subseteq References
    BY <1>1, FileIs DEF ReferencesOf
  <1>3. ASSUME NEW key \in References PROVE \E f \in Files : key \in ReferencesOf(f)
    <2>1. PICK stmt \in Statements : key \in ReferencesIn(stmt)
      BY DEF References, ReferencesIn
    <2>2. PICK f \in Files : \E l \in 1 .. Len(Source[f]) : stmt = Source[f][l]
      BY Somewhere
    <2>3. PICK l \in 1 .. Len(Source[f]) : stmt = Source[f][l]
      BY <2>2
    <2> QED
      BY <2>1, <2>3 DEF ReferencesOf, ReferencesUpTo
  <1> QED
    BY <1>1, <1>2, <1>3, FilesAre

\* What the statements of a file become.
LEMMA StatementIs ==
  ASSUME NEW f \in Files, NEW l \in 1 .. Len(Source[f])
  PROVE  /\ l = At(f) => Convert(Source[f][l]).statements = <<Drop(Name(f)), Creation(f)>>
         /\ l # At(f) => \/ /\ Convert(Source[f][l]).statements = <<>>
                            /\ Source[f][l].kind # "index"
                         \/ \E x \in Plain(f) :
                              /\ l > At(f) /\ Convert(Source[f][l]).statements = <<x>>
                              /\ Source[f][l].kind = "index" => x = CreateIndex(Source[f][l].index)
  <1> DEFINE stmt == Source[f][l]
  <1>1. /\ stmt.kind = "table" <=> l = At(f)
        /\ stmt.kind = "index" => l > At(f)
        /\ stmt.kind = "comment" => l > At(f) /\ stmt.table = Name(f)
    BY FileIs
  <1>2. CASE l = At(f)
    <2>1. stmt \in TablesDeclared /\ stmt.table = Name(f)
      BY <1>2, FileIs DEF Name
    <2> QED
      BY <1>2, <2>1, ConvertTableIs DEF Creation
  <1>3. CASE stmt.kind = "index"
    <2>1. stmt.index \in IndexesOf(f)
      BY <1>3, IndexesAre
    <2> DEFINE x == CreateIndex(stmt.index)
    <2>2. Convert(stmt).statements = <<x>>
      BY <1>1, <1>3 DEF Convert
    <2>4. x \in Plain(f)
      BY <2>1 DEF Plain
    <2> HIDE DEF stmt, x
    <2>5. l > At(f) /\ l # At(f)
      BY <1>1, <1>3
    <2> QED
      BY <2>2, <2>4, <2>5 DEF stmt, x
  <1>4. CASE stmt.kind = "comment"
    <2>1. Convert(stmt).statements = <<CommentOn(Name(f))>>
      BY <1>1, <1>4 DEF Convert
    <2>2. CommentOn(Name(f)) \in Plain(f)
      BY DEF Plain
    <2> QED
      BY <1>1, <1>4, <2>1, <2>2
  <1>5. CASE stmt.kind \notin {"table", "index", "comment"}
    <2>1. Convert(stmt).statements = <<>>
      BY <1>5 DEF Convert, ConvertAlter
    <2> QED
      BY <1>1, <1>5, <2>1
  <1> QED
    BY <1>1, <1>2, <1>3, <1>4, <1>5

LEMMA PlainIs ==
  ASSUME NEW f, NEW x \in Plain(f)
  PROVE  /\ x \in Target(f) /\ x.table = Name(f) /\ x.do \in {"index", "comment"}
         /\ x.do = "index" => x.index \in IndexesOf(f) /\ x = CreateIndex(x.index)
  <1>1. CASE x = CommentOn(Name(f))
    BY <1>1 DEF CommentOn, Target
  <1>2. CASE \E index \in IndexesOf(f) : x = CreateIndex(index)
    <2>1. PICK index \in IndexesOf(f) : x = CreateIndex(index)
      BY <1>2
    <2>2. x.do = "index" /\ x.table = Name(f) /\ x.index = index
      BY <2>1 DEF CreateIndex, IndexesOf
    <2> QED
      BY <2>1, <2>2 DEF Target
  <1> QED
    BY <1>1, <1>2 DEF Plain

\* One more statement.
LEMMA ProgramStep ==
  ASSUME NEW f \in Files, NEW k \in 0 .. Len(Source[f]) - 1, NEW list, Program(list, f, k)
  PROVE  Program(list \o Convert(Source[f][k + 1]).statements, f, k + 1)
  <1> DEFINE more == Convert(Source[f][k + 1]).statements
             T == Target(f)
  <1>1. /\ list \in Seq(T)
        /\ k < At(f) => list = <<>>
        /\ k >= At(f) =>
             /\ Len(list) >= 2 /\ list[1] = Drop(Name(f)) /\ list[2] = Creation(f)
             /\ \A i \in 3 .. Len(list) : list[i] \in Plain(f)
             /\ \A l \in 1 .. k : Source[f][l].kind = "index" =>
                  \E i \in 3 .. Len(list) : list[i] = CreateIndex(Source[f][l].index)
    BY DEF Program
  <1>2. /\ k + 1 \in 1 .. Len(Source[f]) /\ At(f) \in 1 .. Len(Source[f]) /\ Len(Source[f]) \in Nat
        /\ \A l \in 1 .. Len(Source[f]) : Source[f][l].kind = "index" => l > At(f)
    BY FileIs
  <1>3. 1 .. k + 1 = (1 .. k) \cup {k + 1} /\ Len(list) \in Nat
    BY <1>1, <1>2, ElementsOf
  <1>4. CASE k + 1 = At(f)
    <2>1. more = <<Drop(Name(f)), Creation(f)>> /\ list = <<>>
      <3>1. list = <<>>
        BY <1>1, <1>2, <1>4
      <3>2. more = <<Drop(Name(f)), Creation(f)>>
        BY <1>2, <1>4, StatementIs
      <3> QED
        BY <3>1, <3>2
    <2>2. more \in Seq(T)
      BY <2>1 DEF Target
    <2> HIDE DEF T, more
    <2>3. <<>> \o more = more
      BY <2>2, ConcatEmptySeq
    <2>4. Len(more) = 2 /\ more[1] = Drop(Name(f)) /\ more[2] = Creation(f)
      BY <2>1
    <2>5. \A l \in 1 .. k + 1 : Source[f][l].kind # "index"
      BY <1>2, <1>4
    <2>6. list \o more = more
      BY <2>1, <2>3
    <2>7. Program(more, f, k + 1)
      <3>1. ~(k + 1 < At(f))
        BY <1>2, <1>4
      <3>2. \A i \in 3 .. Len(more) : more[i] \in Plain(f)
        BY <2>4
      <3> QED
        BY <2>2, <2>4, <2>5, <3>1, <3>2 DEF Program, T
    <2> QED
      BY <2>6, <2>7 DEF more
  <1>5. CASE k + 1 # At(f) /\ more = <<>> /\ Source[f][k + 1].kind # "index"
    <2> HIDE DEF more, T
    <2>1. list \o more = list
      BY <1>1, <1>5, ConcatEmptySeq
    <2>2. k + 1 >= At(f) => k >= At(f)
      BY <1>2, <1>5
    <2>3. k + 1 < At(f) => k < At(f)
      BY <1>2
    <2>4. \A l \in 1 .. k + 1 : Source[f][l].kind = "index" => l \in 1 .. k
      BY <1>3, <1>5
    <2>5. Program(list, f, k + 1)
      BY <1>1, <2>2, <2>3, <2>4 DEF Program, T
    <2> QED
      BY <2>1, <2>5 DEF more
  <1>6. CASE \E x \in Plain(f) :
               /\ k + 1 > At(f) /\ more = <<x>>
               /\ Source[f][k + 1].kind = "index" => x = CreateIndex(Source[f][k + 1].index)
    <2>1. PICK x \in Plain(f) :
               /\ k + 1 > At(f) /\ more = <<x>>
               /\ Source[f][k + 1].kind = "index" => x = CreateIndex(Source[f][k + 1].index)
      BY <1>6
    <2>2. x \in T
      BY PlainIs
    <2> HIDE DEF T
    <2>3. more \in Seq(T) /\ Len(more) = 1 /\ more[1] = x
      BY <2>1, <2>2
    <2> HIDE DEF more
    <2> DEFINE u == list \o more
    <2>4. /\ u \in Seq(T) /\ Len(u) = Len(list) + Len(more)
          /\ \A i \in 1 .. Len(list) : u[i] = list[i]
          /\ \A i \in 1 .. Len(more) : u[Len(list) + i] = more[i]
      <3>1. list \in Seq(T)
        BY <1>1
      <3>2. more \in Seq(T)
        BY <2>3
      <3> QED
        BY ONLY <3>1, <3>2, ConcatOf
    <2> HIDE DEF u
    <2>5. Len(u) = Len(list) + 1 /\ u[Len(list) + 1] = x
      BY <2>3, <2>4
    <2>6. k >= At(f) /\ ~(k + 1 < At(f)) /\ Len(list) >= 2
      BY <1>1, <1>2, <2>1
    <2>7. u[1] = Drop(Name(f)) /\ u[2] = Creation(f) /\ Len(u) >= 2
      BY <1>1, <1>3, <2>4, <2>5, <2>6
    <2>8. \A i \in 3 .. Len(u) : u[i] \in Plain(f)
      <3> SUFFICES ASSUME NEW i \in 3 .. Len(u) PROVE u[i] \in Plain(f)
        OBVIOUS
      <3>1. i \in 3 .. Len(list) \/ i = Len(list) + 1
        BY <1>3, <2>5
      <3>2. CASE i \in 3 .. Len(list)
        BY <1>1, <1>3, <2>4, <2>6, <3>2
      <3>3. CASE i = Len(list) + 1
        BY <2>5, <3>3
      <3> QED
        BY <3>1, <3>2, <3>3
    <2>9. ASSUME NEW l \in 1 .. k + 1, Source[f][l].kind = "index"
          PROVE  \E i \in 3 .. Len(u) : u[i] = CreateIndex(Source[f][l].index)
      <3>1. CASE l = k + 1
        <4>1. u[Len(list) + 1] = CreateIndex(Source[f][l].index)
          BY <2>1, <2>5, <2>9, <3>1
        <4>2. Len(list) + 1 \in 3 .. Len(u)
          BY <1>3, <2>5, <2>6
        <4> QED
          BY <4>1, <4>2
      <3>2. CASE l \in 1 .. k
        <4>1. PICK i \in 3 .. Len(list) : list[i] = CreateIndex(Source[f][l].index)
          BY <1>1, <2>6, <2>9, <3>2
        <4>2. i \in 3 .. Len(u) /\ u[i] = list[i]
          BY <1>3, <2>4, <2>5
        <4> QED
          BY <4>1, <4>2
      <3> QED
        BY <1>3, <3>1, <3>2
    <2>10. Program(u, f, k + 1)
      BY <2>4, <2>6, <2>7, <2>8, <2>9 DEF Program, T
    <2> QED
      BY <2>10 DEF u, more
  <1> QED
    BY <1>2, <1>4, <1>5, <1>6, StatementIs

\* The list for a whole file, statement by statement.
LEMMA CompleteIs ==
  ASSUME NEW f \in Files, NEW list, Complete(list, f)
  PROVE  /\ list # <<>> /\ Head(list) = Drop(Name(f))
         /\ Tail(list) # <<>> /\ Head(Tail(list)) = Creation(f)
         /\ Tail(Tail(list)) \in Seq(Plain(f))
         /\ \A index \in IndexesOf(f) :
              \/ index \in KeyIndexes(Creation(f))
              \/ CreateIndex(index) \in ToSet(Tail(Tail(list)))
  <1> DEFINE n == Len(Source[f])
             tail == Tail(list)
             rest == Tail(tail)
  <1>1. n \in Nat /\ At(f) \in 1 .. n /\ ~(n < At(f)) /\ n >= At(f)
    BY FileIs
  <1>2. /\ list \in Seq(Target(f)) /\ Len(list) >= 2
        /\ list[1] = Drop(Name(f)) /\ list[2] = Creation(f)
        /\ \A i \in 3 .. Len(list) : list[i] \in Plain(f)
        /\ \A l \in 1 .. n : Source[f][l].kind = "index" =>
             \E i \in 3 .. Len(list) : list[i] = CreateIndex(Source[f][l].index)
    BY <1>1 DEF Complete, Program
  <1>3. /\ Len(list) \in Nat /\ list # <<>>
    BY <1>2, ElementsOf, EmptyOf
  <1>4. /\ Head(list) = list[1] /\ tail \in Seq(Target(f)) /\ Len(tail) = Len(list) - 1
        /\ \A i \in 1 .. Len(list) - 1 : tail[i] = list[i + 1]
    BY <1>2, <1>3, TailOf
  <1> HIDE DEF tail
  <1>5. tail # <<>>
    BY <1>2, <1>3, <1>4, EmptyOf
  <1>6. /\ Head(tail) = tail[1] /\ rest \in Seq(Target(f)) /\ Len(rest) = Len(tail) - 1
        /\ \A i \in 1 .. Len(tail) - 1 : rest[i] = tail[i + 1]
    BY <1>4, <1>5, TailOf
  <1> HIDE DEF rest
  <1>7. Head(tail) = Creation(f)
    BY <1>2, <1>3, <1>4, <1>6
  <1>8. Len(rest) = Len(list) - 2 /\ \A i \in 1 .. Len(list) - 2 : rest[i] = list[i + 2]
    BY <1>3, <1>4, <1>6
  <1>9. rest \in Seq(Plain(f))
    <2>1. \A i \in 1 .. Len(rest) : rest[i] \in Plain(f)
      BY <1>2, <1>3, <1>8
    <2> QED
      BY <1>6, <2>1, SeqDef, ElementsOf
  <1>10. ASSUME NEW index \in IndexesOf(f), index \notin KeyIndexes(Creation(f))
         PROVE  CreateIndex(index) \in ToSet(rest)
    <2>1. PICK l \in 1 .. n : Source[f][l].kind = "index" /\ index = Source[f][l].index
      BY <1>10, IndexesAre
    <2>2. PICK i \in 3 .. Len(list) : list[i] = CreateIndex(Source[f][l].index)
      BY <1>2, <2>1
    <2>4. i - 2 \in 1 .. Len(rest) /\ rest[i - 2] = list[i]
      <3>1. i - 2 \in 1 .. Len(list) - 2 /\ (i - 2) + 2 = i
        BY <1>3
      <3> QED
        BY <1>8, <3>1
    <2>5. ToSet(rest) = {rest[j] : j \in 1 .. Len(rest)}
      BY <1>6, ElementsOf
    <2> QED
      BY <2>1, <2>2, <2>4, <2>5
  <1> QED
    BY <1>2, <1>3, <1>4, <1>5, <1>7, <1>9, <1>10 DEF rest, tail

-----------------------------------------------------------------------------
(* The invariant: steps that leave the database alone *)

LEMMA InvInit == MigrationInit => MigrationInv
  <1> SUFFICES ASSUME MigrationInit PROVE MigrationInv
    OBVIOUS
  <1>1. Schema
    BY DEF MigrationInit, Schema
  <1>2. Control
    <2>1. /\ phase = "none" /\ file = 1 /\ faults = 0 /\ connected = FALSE
          /\ converted = NothingConverted /\ collected = <<>> /\ summaries = <<>>
      BY DEF MigrationInit
    <2>2. collected \in Seq(References) /\ summaries \in Seq(Report)
      BY <2>1, EmptyOf
    <2>3. file \in Nat \ {0} /\ faults \in Nat
      BY <2>1
    <2>4. connected \in BOOLEAN /\ ~connected
      BY <2>1, Zenon
    <2>5. phase \in Phases
      BY <2>1 DEF Phases
    <2> QED
      BY <2>1, <2>2, <2>3, <2>4, <2>5 DEF Control
  <1>3. Faultless
    BY DEF MigrationInit, Faultless, Clean
  <1> QED
    BY <1>1, <1>2, <1>3 DEF MigrationInv

LEMMA SameDatabase ==
  ASSUME UNCHANGED database
  PROVE  /\ Schema => Schema'
         /\ \A f, n : Migrated(f, n) => Migrated(f, n)'
         /\ \A f : Untouched(Name(f)) <=> Untouched(Name(f))'
  BY DEF database, Schema, Migrated, Untouched, KeysOf

\* Between files a run works on nothing.
LEMMA OutsideFile ==
  ASSUME phase' \in {"file", "summary"}, file' \in Nat \ {0}, faults' \in Nat, connected' \in BOOLEAN,
         converted' = NothingConverted, collected' \in Seq(References), summaries' \in Seq(Report)
  PROVE  Control'
  <1>1. phase' \in Phases
    BY DEF Phases
  <1>2. /\ phase' # "none" /\ phase' # "convert" /\ phase' # "execute"
        /\ phase' # "load" /\ phase' # "keys"
    OBVIOUS
  <1> QED
    BY <1>1, <1>2 DEF Control

LEMMA FaultMakes ==
  ASSUME Control, Fault PROVE faults' \in Nat /\ ~Clean'
  BY DEF Control, Fault, Clean

LEMMA StartRunInv ==
  ASSUME MigrationInv, StartRun PROVE MigrationInv'
  <1>1. /\ UNCHANGED database /\ phase' = "file" /\ file' = 1
        /\ collected' = <<>> /\ summaries' = <<>> /\ connected' \in BOOLEAN
        /\ converted' = converted /\ faults' \in {0, 1}
    BY DEF StartRun
  <1>2. Schema'
    BY <1>1, SameDatabase DEF MigrationInv
  <1>3. converted = NothingConverted
    BY DEF StartRun, MigrationInv, Control
  <1>4. Control'
    BY <1>1, <1>3, EmptyOf DEF Control, Phases
  <1>5. Past' /\ Adding'
    <2>1. 1 .. file' - 1 = {} /\ file' - 1 \in 0 .. Len(Source)
      BY <1>1, FilesAre
    <2>2. Collected' = 0 /\ 1 .. Collected' = {}
      BY <1>1 DEF Collected
    <2>3. ToSet(collected') = {} /\ DOMAIN summaries' = {}
      BY <1>1, EmptyOf
    <2>4. UNION {ReferencesOf(f) : f \in 1 .. Collected'} = {}
      BY <2>2
    <2>5. Past'
      BY <2>1, <2>3, <2>4 DEF Past
    <2> QED
      BY <1>1, <2>5 DEF Adding
  <1>6. Faultless'
    BY <1>1, <1>5 DEF Faultless
  <1> QED
    BY <1>2, <1>4, <1>6 DEF MigrationInv

LEMMA ReadFileInv ==
  ASSUME MigrationInv, ReadFile PROVE MigrationInv'
  <1>1. /\ UNCHANGED database /\ phase = "file" /\ phase' = "convert" /\ file \in Files
        /\ todo' = Source[file] /\ faults' = faults
        /\ UNCHANGED <<connected, file, converted, collected, summaries>>
    BY DEF ReadFile, NoFault
  <1>2. Schema'
    BY <1>1, SameDatabase DEF MigrationInv
  <1>3. converted = NothingConverted /\ Control
    BY <1>1 DEF MigrationInv, Control
  <1>4. Converting'
    <2>1. /\ todo' \in Seq(Statements) /\ Len(todo') \in Nat /\ At(file) \in 1 .. Len(todo')
      BY <1>1, FileIs
    <2>2. Read' = 0
      BY <1>1, <2>1 DEF Read
    <2>3. \A i \in 1 .. Len(todo') : todo'[i] = Source[file'][Read' + i]
      BY <1>1, <2>2
    <2>4. converted'.statements = <<>> /\ converted'.foreignKeys = <<>>
      BY <1>1, <1>3 DEF NothingConverted
    <2>5. Program(<<>>, file, 0)
      BY <2>1, EmptyOf DEF Program
    <2>6. ReferencesUpTo(file, 0) = {}
      BY DEF ReferencesUpTo
    <2> QED
      BY <1>1, <2>1, <2>2, <2>3, <2>4, <2>5, <2>6, EmptyOf DEF Converting
  <1>5. Control'
    BY <1>1, <1>3, <1>4 DEF Control, Phases
  <1>6. Faultless'
    <2>1. SUFFICES ASSUME Clean' PROVE Past' /\ Adding'
      BY <1>1 DEF Faultless
    <2>2. Past
      BY <1>1, <2>1 DEF MigrationInv, Faultless, Clean
    <2>3. Collected' = Collected
      BY <1>1 DEF Collected
    <2>4. Past'
      BY <1>1, <2>2, <2>3, SameDatabase DEF Past
    <2> QED
      BY <1>1, <2>4 DEF Adding
  <1> QED
    BY <1>2, <1>5, <1>6 DEF MigrationInv

LEMMA ConvertNextInv ==
  ASSUME MigrationInv, ConvertNext PROVE MigrationInv'
  <1>1. /\ UNCHANGED database /\ phase = "convert" /\ phase' = "convert" /\ todo # <<>>
        /\ converted' = Extended(converted, Head(todo)) /\ todo' = Tail(todo) /\ faults' = faults
        /\ UNCHANGED <<connected, file, collected, summaries>>
    BY DEF ConvertNext, NoFault
  <1>2. Schema'
    BY <1>1, SameDatabase DEF MigrationInv
  <1>3. Control /\ Converting /\ file \in Files
    BY <1>1 DEF MigrationInv, Control
  <1>4. Converting'
    <2> DEFINE stmt == Head(todo)
               n == Len(Source[file])
               more == Convert(stmt)
    <2>1. /\ todo \in Seq(Statements) /\ Read \in Nat
          /\ \A i \in 1 .. Len(todo) : todo[i] = Source[file][Read + i]
          /\ Program(converted.statements, file, Read)
          /\ converted.foreignKeys \in Seq(References)
          /\ ToSet(converted.foreignKeys) = ReferencesUpTo(file, Read)
      BY <1>3 DEF Converting
    <2>2. /\ Len(todo) \in Nat \ {0} /\ stmt = todo[1] /\ stmt \in Statements
          /\ todo' \in Seq(Statements) /\ Len(todo') = Len(todo) - 1
          /\ \A i \in 1 .. Len(todo) - 1 : todo'[i] = todo[i + 1]
      BY <1>1, <2>1, TailOf
    <2>3. n \in Nat /\ Read = n - Len(todo) /\ Read' = n - Len(todo')
      BY <1>1, <1>3, FileIs DEF Read
    <2> HIDE DEF stmt, n
    <2>4. Read' = Read + 1 /\ Read \in 0 .. n - 1
      BY <2>1, <2>2, <2>3
    <2>5. stmt = Source[file][Read + 1]
      BY <2>1, <2>2
    <2>6. \A i \in 1 .. Len(todo') : todo'[i] = Source[file][Read' + i]
      <3> SUFFICES ASSUME NEW i \in 1 .. Len(todo') PROVE todo'[i] = Source[file][Read' + i]
        OBVIOUS
      <3>1. i + 1 \in 1 .. Len(todo) /\ todo'[i] = todo[i + 1]
        BY <2>2
      <3>2. Read + (i + 1) = Read' + i
        BY <2>1, <2>4
      <3> QED
        BY <2>1, <3>1, <3>2
    <2>7. /\ converted'.statements = converted.statements \o more.statements
          /\ converted'.foreignKeys = converted.foreignKeys \o more.foreignKeys
      BY <1>1 DEF Extended, stmt
    <2>8. Program(converted'.statements, file, Read')
      BY <1>3, <2>1, <2>4, <2>5, <2>7, ProgramStep DEF n
    <2>9. more.foreignKeys \in Seq(References) /\ ToSet(more.foreignKeys) = ReferencesIn(stmt)
      BY <2>2, ConvertKeys, SeqMonotonic
    <2> HIDE DEF more
    <2>10. /\ converted'.foreignKeys \in Seq(References)
           /\ ToSet(converted'.foreignKeys) = ToSet(converted.foreignKeys) \cup ToSet(more.foreignKeys)
      BY <2>1, <2>7, <2>9, ConcatOf
    <2>11. ReferencesUpTo(file, Read') = ReferencesUpTo(file, Read) \cup ReferencesIn(stmt)
      BY <1>3, <2>4, <2>5, ReferencesStep DEF n
    <2>12. Read' \in Nat
      BY <2>1, <2>4
    <2> QED
      BY <1>1, <2>1, <2>2, <2>6, <2>8, <2>9, <2>10, <2>11, <2>12 DEF Converting
  <1>5. Control'
    BY <1>1, <1>3, <1>4 DEF Control, Phases
  <1>6. Faultless'
    <2>1. SUFFICES ASSUME Clean' PROVE Past' /\ Adding'
      BY <1>1 DEF Faultless
    <2>2. Past
      BY <1>1, <2>1 DEF MigrationInv, Faultless, Clean
    <2>3. Collected' = Collected
      BY <1>1 DEF Collected
    <2>4. Past'
      BY <1>1, <2>2, <2>3, SameDatabase DEF Past
    <2> QED
      BY <1>1, <2>4 DEF Adding
  <1> QED
    BY <1>2, <1>5, <1>6 DEF MigrationInv

LEMMA AppendReport ==
  ASSUME Control, NEW conversion \in BOOLEAN, NEW execution \in BOOLEAN,
         summaries' = Append(summaries, Summary(conversion, execution))
  PROVE  /\ summaries' \in Seq(Report)
         /\ (/\ conversion /\ execution
             /\ \A k \in DOMAIN summaries : summaries[k].converted /\ summaries[k].executed) =>
              \A k \in DOMAIN summaries' : summaries'[k].converted /\ summaries'[k].executed
  <1> DEFINE s == Summary(conversion, execution)
  <1>1. s \in Report /\ s.converted = conversion /\ s.executed = execution
    BY DEF Summary, Report, Control
  <1> HIDE DEF s
  <1>2. summaries \in Seq(Report) /\ summaries' = Append(summaries, s)
    BY DEF Control, s
  <1>3. /\ summaries' \in Seq(Report) /\ Len(summaries') = Len(summaries) + 1
        /\ \A k \in 1 .. Len(summaries) : summaries'[k] = summaries[k]
        /\ summaries'[Len(summaries) + 1] = s
    BY <1>1, <1>2, AppendProperties
  <1>4. /\ Len(summaries) \in Nat /\ DOMAIN summaries = 1 .. Len(summaries)
        /\ DOMAIN summaries' = 1 .. Len(summaries) + 1
    BY <1>2, <1>3, ElementsOf
  <1>5. \A k \in DOMAIN summaries' : k \in DOMAIN summaries \/ k = Len(summaries) + 1
    BY <1>4
  <1> QED
    BY <1>1, <1>3, <1>4, <1>5

LEMMA FailToConvertInv ==
  ASSUME MigrationInv, FailToConvert PROVE MigrationInv'
  <1>1. /\ UNCHANGED database /\ phase = "convert" /\ phase' = "file" /\ Fault
        /\ converted' = NothingConverted /\ file' = file + 1
        /\ summaries' = Append(summaries, Summary(FALSE, FALSE))
        /\ UNCHANGED <<connected, collected>>
    BY DEF FailToConvert, EndFile
  <1>2. Schema'
    BY <1>1, SameDatabase DEF MigrationInv
  <1>3. Control /\ summaries' \in Seq(Report)
    BY <1>1, AppendReport DEF MigrationInv
  <1>4. faults' \in Nat /\ ~Clean'
    BY <1>1, <1>3, FaultMakes
  <1>5. /\ file \in Nat \ {0} /\ connected \in BOOLEAN /\ collected \in Seq(References)
    BY <1>3 DEF Control
  <1>6. Control'
    BY <1>1, <1>3, <1>4, <1>5, OutsideFile
  <1> QED
    BY <1>2, <1>4, <1>6 DEF MigrationInv, Faultless

LEMMA CollectInv ==
  ASSUME MigrationInv, Collect PROVE MigrationInv'
  <1>1. /\ UNCHANGED database /\ phase = "convert" /\ todo = <<>> /\ faults' = faults
        /\ collected' = collected \o converted.foreignKeys /\ converted' = NothingConverted
        /\ connected' = connected
        /\ \/ /\ connected /\ phase' = "execute" /\ todo' = converted.statements
              /\ UNCHANGED <<file, summaries>>
           \/ /\ ~connected /\ phase' = "file" /\ file' = file + 1
              /\ summaries' = Append(summaries, Summary(TRUE, TRUE))
    BY DEF Collect, EndFile, NoFault
  <1>2. Schema'
    BY <1>1, SameDatabase DEF MigrationInv
  <1>3. Control /\ Converting /\ file \in Files
    BY <1>1 DEF MigrationInv, Control
  <1>4. /\ Complete(converted.statements, file) /\ converted.statements \in Seq(Target(file))
        /\ converted.foreignKeys \in Seq(References)
        /\ ToSet(converted.foreignKeys) = ReferencesOf(file)
    <2>1. Len(Source[file]) \in Nat /\ Len(todo) = 0
      BY <1>1, <1>3, FileIs, EmptyOf
    <2>2. Read = Len(Source[file])
      BY <2>1 DEF Read
    <2>3. /\ Program(converted.statements, file, Read)
          /\ converted.foreignKeys \in Seq(References)
          /\ ToSet(converted.foreignKeys) = ReferencesUpTo(file, Read)
      BY <1>3 DEF Converting
    <2>4. Program(converted.statements, file, Read) => converted.statements \in Seq(Target(file))
      BY DEF Program
    <2> QED
      BY <2>2, <2>3, <2>4 DEF Complete, ReferencesOf
  <1>5. collected \in Seq(References) /\ file \in Nat \ {0} /\ faults \in Nat /\ connected \in BOOLEAN
    BY <1>3 DEF Control
  <1>6. /\ collected' \in Seq(References)
        /\ ToSet(collected') = ToSet(collected) \cup ReferencesOf(file)
    BY <1>1, <1>4, <1>5, ConcatOf
  <1>7. CASE connected
    <2>1. /\ phase' = "execute" /\ todo' = converted.statements /\ file' = file
          /\ summaries' = summaries
      BY <1>1, <1>7
    <2>2. Control'
      BY <1>1, <1>3, <1>4, <1>6, <2>1 DEF Control, Phases
    <2>3. Executing'
      BY <1>4, <2>1 DEF Executing
    <2>4. ASSUME Clean' PROVE Past' /\ Adding'
      <3>1. Past
        BY <1>1, <2>4 DEF MigrationInv, Faultless, Clean
      <3>2. Collected = file - 1 /\ Collected' = file
        BY <1>1, <2>1 DEF Collected
      <3>3. 1 .. file = (1 .. file - 1) \cup {file}
        BY <1>5
      <3>4. ToSet(collected') = UNION {ReferencesOf(f) : f \in 1 .. Collected'}
        <4>1. ToSet(collected) = UNION {ReferencesOf(f) : f \in 1 .. file - 1}
          BY <3>1, <3>2 DEF Past
        <4> QED
          BY <1>6, <3>2, <3>3, <4>1
      <3>5. Past'
        BY <1>1, <2>1, <3>1, <3>4, SameDatabase DEF Past
      <3> QED
        BY <2>1, <3>5 DEF Adding
    <2>5. Faultless'
      BY <2>1, <2>3, <2>4 DEF Faultless
    <2> QED
      BY <1>2, <2>2, <2>5 DEF MigrationInv
  <1>8. CASE ~connected
    <2>1. /\ phase' = "file" /\ file' = file + 1
          /\ summaries' = Append(summaries, Summary(TRUE, TRUE))
      BY <1>1, <1>8
    <2>2. summaries' \in Seq(Report)
      BY <1>3, <2>1, AppendReport
    <2>3. Control'
      BY <1>1, <1>5, <1>6, <2>1, <2>2, OutsideFile
    <2>4. ~Clean'
      BY <1>1, <1>8 DEF Clean
    <2> QED
      BY <1>2, <2>3, <2>4 DEF MigrationInv, Faultless
  <1> QED
    BY <1>7, <1>8

-----------------------------------------------------------------------------
(* The execution of a file *)

LEMMA Targets ==
  ASSUME NEW f \in Files, NEW stmt \in Target(f)
  PROVE  /\ stmt.do \in {"drop", "create", "index", "comment"} /\ stmt.table = Name(f)
         /\ stmt.do = "create" => KeyIndexes(stmt) \subseteq IndexesOf(f)
         /\ stmt.do = "index" => stmt.index \in IndexesOf(f)
  <1>1. CASE stmt = Drop(Name(f))
    BY <1>1 DEF Drop
  <1>2. CASE stmt = Creation(f)
    BY <1>2, IndexesAre
  <1>3. CASE stmt \in Plain(f)
    BY <1>3, PlainIs
  <1> QED
    BY <1>1, <1>2, <1>3 DEF Target

\* What an accepted statement of a file does to the database.
LEMMA AcceptedIs ==
  ASSUME Schema, NEW f \in Files, NEW stmt \in Target(f), Accepted(stmt)
  PROVE  /\ Schema' /\ keys' \subseteq keys
         /\ \A g : Name(g) # Name(f) =>
              /\ \A n : Migrated(g, n) => Migrated(g, n)'
              /\ Untouched(Name(g)) => Untouched(Name(g))'
  <1> DEFINE t == Name(f)
  <1>1. /\ stmt.do \in {"drop", "create", "index", "comment"} /\ stmt.table = t
        /\ stmt.do = "create" => KeyIndexes(stmt) \subseteq IndexesOf(f)
        /\ stmt.do = "index" => stmt.index \in IndexesOf(f)
    BY Targets
  <1>2. t \in Names
    BY FileIs
  <1>3. \A g : \A index \in IndexesOf(g) : index \in IndexesKept /\ index.table = Name(g)
    BY DEF IndexesOf
  <1>4. ASSUME keys' \subseteq keys PROVE \A g : Untouched(Name(g)) => Untouched(Name(g))'
    BY <1>4 DEF Untouched
  <1>5. ASSUME \A g : Name(g) # t /\ Name(g) \in DOMAIN tables =>
                 Name(g) \in DOMAIN tables' /\ tables'[Name(g)] = tables[Name(g)],
               \A index \in indexes : index.table # t => index \in indexes'
        PROVE  \A g, n : Name(g) # t => (Migrated(g, n) => Migrated(g, n)')
    <2> SUFFICES ASSUME NEW g, NEW n, Name(g) # t, Migrated(g, n) PROVE Migrated(g, n)'
      OBVIOUS
    <2>1. /\ Name(g) \in DOMAIN tables /\ tables[Name(g)] = FirstsOf(Name(g), n)
          /\ KeysOf(Name(g)) = KeysUpTo(Name(g), n) /\ IndexesOf(g) \subseteq indexes
      BY DEF Migrated
    <2>2. /\ Name(g) \in DOMAIN tables' /\ tables'[Name(g)] = FirstsOf(Name(g), n)
          /\ KeysOf(Name(g))' = KeysUpTo(Name(g), n)
      BY <1>5, <2>1 DEF KeysOf
    <2>3. IndexesOf(g) \subseteq indexes'
      BY <1>3, <1>5, <2>1
    <2> QED
      BY <2>2, <2>3 DEF Migrated
  <1> HIDE DEF t
  <1>6. CASE stmt.do = "drop"
    <2>1. /\ tables' = [u \in (DOMAIN tables) \ {t} |-> tables[u]]
          /\ indexes' = {index \in indexes : index.table # t}
          /\ keys' = {key \in keys : t \notin {key.child, key.parent}}
      BY <1>1, <1>6 DEF Accepted, Dropped
    <2>2. DOMAIN tables' = (DOMAIN tables) \ {t} /\ \A u \in DOMAIN tables' : tables'[u] = tables[u]
      BY <2>1
    <2>3. tables' = [u \in DOMAIN tables' |-> tables'[u]]
      BY <2>1
    <2>4. /\ \A index \in indexes' : index \in indexes /\ index.table # t
          /\ \A key \in keys' : key \in keys /\ t \notin {key.child, key.parent}
          /\ \A index \in indexes : index.table # t => index \in indexes'
      BY <2>1
    <2>5. Schema'
      BY <2>2, <2>3, <2>4 DEF Schema
    <2>6. keys' \subseteq keys
      BY <2>4
    <2> HIDE DEF Schema
    <2> QED
      BY <1>4, <1>5, <2>2, <2>4, <2>5, <2>6 DEF t
  <1>7. CASE stmt.do = "create"
    <2>1. /\ tables' = [u \in (DOMAIN tables) \cup {t} |-> IF u = t THEN {} ELSE tables[u]]
          /\ indexes' = indexes \cup KeyIndexes(stmt)
          /\ keys' = keys
      BY <1>1, <1>7 DEF Accepted
    <2>2. /\ DOMAIN tables' = (DOMAIN tables) \cup {t}
          /\ \A u \in DOMAIN tables : u # t => tables'[u] = tables[u]
      BY <2>1
    <2>3. tables' = [u \in DOMAIN tables' |-> tables'[u]]
      BY <2>1
    <2>4. \A index \in KeyIndexes(stmt) : index \in IndexesKept /\ index.table = t
      BY <1>1, <1>3, <1>7 DEF t
    <2>5. Schema'
      BY <1>2, <2>1, <2>2, <2>3, <2>4 DEF Schema, t
    <2> QED
      BY <1>4, <1>5, <2>1, <2>2, <2>5 DEF t
  <1>8. CASE stmt.do = "index"
    <2>1. /\ t \in DOMAIN tables /\ tables' = tables /\ keys' = keys
          /\ indexes' \in {indexes, indexes \cup {stmt.index}}
      BY <1>1, <1>8 DEF Accepted
    <2>2. stmt.index \in IndexesKept /\ stmt.index.table = t
      BY <1>1, <1>3, <1>8 DEF t
    <2>4. \A index \in indexes' : index \in IndexesKept /\ index.table \in DOMAIN tables
      BY <2>1, <2>2 DEF Schema
    <2>5. Schema'
      BY <2>1, <2>4 DEF Schema
    <2>6. indexes \subseteq indexes'
      BY <2>1
    <2> QED
      BY <1>4, <1>5, <2>1, <2>5, <2>6 DEF t
  <1>9. CASE stmt.do = "comment"
    <2>1. tables' = tables /\ keys' = keys /\ indexes' = indexes
      BY <1>1, <1>9 DEF Accepted, database
    <2>2. Schema'
      BY <2>1 DEF Schema
    <2> QED
      BY <1>4, <1>5, <2>1, <2>2 DEF t
  <1> QED
    BY <1>1, <1>6, <1>7, <1>8, <1>9

\* Executing a statement brings the file one step further.
LEMMA ExecutingStep ==
  ASSUME Schema, Executing, file \in Files, todo \in Seq(Target(file)), todo # <<>>,
         Accepted(Head(todo)), todo' = Tail(todo), file' = file
  PROVE  Executing'
  <1> DEFINE stmt == Head(todo)
             t == Name(file)
  <1>1. stmt \in Target(file) /\ stmt.table = t
    BY TailOf, Targets
  <1>2. CASE Complete(todo, file)
    <2>1. stmt = Drop(t)
      BY <1>2, CompleteIs
    <2>2. stmt.do = "drop"
      BY <2>1 DEF Drop
    <2>3. DOMAIN tables' = (DOMAIN tables) \ {t}
      BY <1>1, <2>2 DEF Accepted, Dropped
    <2>4. t \notin DOMAIN tables'
      BY <2>3
    <2> QED
      BY <1>2, <2>4 DEF Executing
  <1>3. CASE (\E list : Complete(list, file) /\ todo = Tail(list)) /\ t \notin DOMAIN tables
    <2>1. PICK list : Complete(list, file) /\ todo = Tail(list)
      BY <1>3
    <2>2. /\ stmt = Creation(file) /\ todo' \in Seq(Plain(file))
          /\ \A index \in IndexesOf(file) :
               \/ index \in KeyIndexes(Creation(file))
               \/ CreateIndex(index) \in ToSet(todo')
      BY <2>1, CompleteIs
    <2>3. stmt.do = "create"
      BY <2>2, IndexesAre
    <2>4. /\ tables' = [u \in (DOMAIN tables) \cup {t} |-> IF u = t THEN {} ELSE tables[u]]
          /\ indexes' = indexes \cup KeyIndexes(stmt)
          /\ keys' = keys
      BY <1>1, <2>3 DEF Accepted
    <2>5. t \in DOMAIN tables' /\ tables'[t] = {}
      BY <2>4
    <2>6. Untouched(t)'
      BY <1>3, <2>4 DEF Untouched, Schema
    <2>7. \A index \in IndexesOf(file) :
            index \in indexes' \/ CreateIndex(index) \in ToSet(todo')
      BY <2>2, <2>4
    <2> QED
      BY <2>2, <2>5, <2>6, <2>7 DEF Executing
  <1>4. CASE /\ t \in DOMAIN tables /\ tables[t] = {} /\ Untouched(t)
             /\ todo \in Seq(Plain(file))
             /\ \A index \in IndexesOf(file) :
                  index \in indexes \/ CreateIndex(index) \in ToSet(todo)
    <2>1. /\ stmt \in Plain(file) /\ todo' \in Seq(Plain(file))
          /\ ToSet(todo) = {stmt} \cup ToSet(todo')
      BY <1>4, TailOf
    <2>2. stmt.do \in {"index", "comment"}
      BY <2>1, PlainIs
    <2>3. tables' = tables /\ keys' = keys /\ indexes \subseteq indexes'
      BY <1>1, <2>2 DEF Accepted, database
    <2>4. ASSUME NEW index \in IndexesOf(file), stmt = CreateIndex(index)
          PROVE  index \in indexes'
      <3>1. stmt.do = "index" /\ stmt.index = index
        BY <2>4 DEF CreateIndex
      <3>2. index \in IndexesKept /\ index.name \notin DOMAIN tables
        <4>1. index \in IndexesKept
          BY DEF IndexesOf
        <4>2. index.name \notin Names
          BY <4>1, NameAssumption DEF Names
        <4> QED
          BY <4>1, <4>2 DEF Schema
      <3>3. indexes' = IF index.name \in NamesOf(indexes) THEN indexes ELSE indexes \cup {index}
        BY <1>1, <3>1, <3>2 DEF Accepted, Taken
      <3>5. CASE index.name \in NamesOf(indexes)
        <4>1. PICK other \in indexes : other.name = index.name
          BY <3>5 DEF NamesOf
        <4>2. other = index
          BY <3>2, <4>1, NameAssumption DEF Schema
        <4> QED
          BY <2>3, <4>2
      <3>6. CASE index.name \notin NamesOf(indexes)
        BY <3>3, <3>6
      <3> QED
        BY <3>5, <3>6
    <2>5. \A index \in IndexesOf(file) :
            index \in indexes' \/ CreateIndex(index) \in ToSet(todo')
      BY <1>4, <2>1, <2>3, <2>4
    <2>6. Untouched(t)'
      BY <1>4, <2>3 DEF Untouched
    <2> QED
      BY <1>4, <2>1, <2>3, <2>5, <2>6 DEF Executing
  <1> QED
    BY <1>2, <1>3, <1>4 DEF Executing

LEMMA ExecuteInv ==
  ASSUME MigrationInv, ExecuteStatement PROVE MigrationInv'
  <1>1. /\ phase = "execute" /\ todo # <<>> /\ Accepted(Head(todo))
        /\ todo' = Tail(todo) /\ faults' = faults
        /\ UNCHANGED <<phase, connected, file, converted, collected, summaries>>
    BY DEF ExecuteStatement, NoFault
  <1>2. Schema /\ Control /\ file \in Files /\ todo \in Seq(Target(file)) /\ file \in Nat \ {0}
    BY <1>1 DEF MigrationInv, Control
  <1>3. Head(todo) \in Target(file) /\ todo' \in Seq(Target(file))
    BY <1>1, <1>2, TailOf
  <1>4. /\ Schema' /\ keys' \subseteq keys
        /\ \A g : Name(g) # Name(file) =>
             /\ \A n : Migrated(g, n) => Migrated(g, n)'
             /\ Untouched(Name(g)) => Untouched(Name(g))'
    BY <1>1, <1>2, <1>3, AcceptedIs
  <1>5. Control'
    BY <1>1, <1>2, <1>3 DEF Control
  <1>6. ASSUME Clean' PROVE Past' /\ Executing' /\ Adding'
    <2>1. Past /\ Executing
      BY <1>1, <1>6 DEF MigrationInv, Faultless, Clean
    <2>2. \A g \in 1 .. file - 1 : Name(g) # Name(file)
      <3> SUFFICES ASSUME NEW g \in 1 .. file - 1 PROVE Name(g) # Name(file)
        OBVIOUS
      <3>1. g \in Files /\ g # file
        BY <1>2, FilesAre
      <3> QED
        BY <1>2, <3>1, NamesApart
    <2>3. Collected' = Collected
      BY <1>1 DEF Collected
    <2>4. \A g \in 1 .. file - 1 : Migrated(g, Count(g, file - 1))' /\ Untouched(Name(g))'
      <3> SUFFICES ASSUME NEW g \in 1 .. file - 1
                   PROVE  Migrated(g, Count(g, file - 1))' /\ Untouched(Name(g))'
        OBVIOUS
      <3>1. Migrated(g, Count(g, file - 1)) /\ Untouched(Name(g))
        BY <1>1, <2>1 DEF Past
      <3>2. Count(g, file - 1)' = Count(g, file - 1)
        BY <1>1
      <3> QED
        BY <1>4, <2>2, <3>1, <3>2
    <2>5. Past'
      BY <1>1, <2>1, <2>3, <2>4 DEF Past
    <2>6. Executing'
      BY <1>1, <1>2, <2>1, ExecutingStep
    <2> QED
      BY <1>1, <2>5, <2>6 DEF Adding
  <1>7. Faultless'
    BY <1>1, <1>6 DEF Faultless
  <1> QED
    BY <1>4, <1>5, <1>7 DEF MigrationInv

\* What the file executes next is not rejected.
LEMMA NotRejected ==
  ASSUME Schema, Executing, file \in Files, todo \in Seq(Target(file)), todo # <<>>
  PROVE  ~Rejected(Head(todo))
  <1> DEFINE stmt == Head(todo)
             t == Name(file)
  <1>1. stmt \in Target(file) /\ stmt.table = t
    BY TailOf, Targets
  <1>2. CASE Complete(todo, file)
    <2>1. stmt = Drop(t)
      BY <1>2, CompleteIs
    <2>2. stmt.do = "drop"
      BY <2>1 DEF Drop
    <2> QED
      BY <2>2 DEF Rejected
  <1>3. CASE (\E list : Complete(list, file) /\ todo = Tail(list)) /\ t \notin DOMAIN tables
    <2>1. PICK list : Complete(list, file) /\ todo = Tail(list)
      BY <1>3
    <2>2. stmt = Creation(file)
      BY <2>1, CompleteIs
    <2>3. stmt.do = "create" /\ KeyIndexes(stmt) \subseteq IndexesOf(file)
      BY <2>2, IndexesAre
    <2>4. ASSUME NEW x \in KeyIndexes(stmt), NEW y \in indexes, x.name = y.name PROVE FALSE
      <3>1. x \in IndexesKept /\ x.table = t /\ y \in IndexesKept /\ y.table \in DOMAIN tables
        BY <2>3 DEF IndexesOf, Schema
      <3>2. x = y
        BY <2>4, <3>1, NameAssumption
      <3> QED
        BY <1>3, <3>1, <3>2
    <2>5. NamesOf(KeyIndexes(stmt)) \cap NamesOf(indexes) = {}
      BY <2>4 DEF NamesOf
    <2>6. t \in Names /\ DOMAIN tables \subseteq Names /\ indexes \subseteq IndexesKept
      BY FileIs DEF Schema
    <2>7. KeyIndexes(stmt) \subseteq IndexesKept
      BY <2>3 DEF IndexesOf
    <2>8. \A x \in IndexesKept, u \in Names : x.name # u
      BY NameAssumption DEF Names
    <2>9. NamesOf(KeyIndexes(stmt)) \cap ((DOMAIN tables) \cup {t}) = {} /\ t \notin NamesOf(indexes)
      BY <2>6, <2>7, <2>8 DEF NamesOf
    <2>10. Creatable(stmt)
      BY <1>1, <1>3, <2>5, <2>9 DEF Creatable, Taken
    <2> QED
      BY <2>3, <2>10 DEF Rejected
  <1>4. CASE t \in DOMAIN tables /\ todo \in Seq(Plain(file))
    <2>1. stmt \in Plain(file)
      BY <1>4, TailOf
    <2>2. stmt.do \in {"index", "comment"}
      BY <2>1, PlainIs
    <2> QED
      BY <1>1, <1>4, <2>2 DEF Rejected
  <1> QED
    BY <1>2, <1>3, <1>4 DEF Executing

LEMMA StopAtErrorInv ==
  ASSUME MigrationInv, StopAtError PROVE MigrationInv'
  <1>1. /\ UNCHANGED database /\ phase = "execute" /\ todo # <<>> /\ phase' = "file"
        /\ file' = file + 1 /\ summaries' = Append(summaries, Summary(TRUE, FALSE))
        /\ UNCHANGED <<connected, converted, collected>>
        /\ (Rejected(Head(todo)) /\ faults' = faults) \/ Fault
    BY DEF StopAtError, EndFile, NoFault
  <1>2. Schema /\ Control /\ file \in Files /\ todo \in Seq(Target(file))
    BY <1>1 DEF MigrationInv, Control
  <1>3. Schema'
    BY <1>1, <1>2, SameDatabase
  <1>4. /\ file \in Nat \ {0} /\ connected \in BOOLEAN /\ collected \in Seq(References)
        /\ converted = NothingConverted /\ faults \in Nat
    BY <1>1, <1>2 DEF Control
  <1>5. faults' \in Nat /\ ~Clean'
    <2>1. CASE Fault
      BY <1>2, <2>1, FaultMakes
    <2>2. CASE Rejected(Head(todo)) /\ faults' = faults
      <3>1. ~Executing
        BY <1>1, <1>2, <2>2, NotRejected
      <3>2. ~Clean
        BY <1>1, <3>1 DEF MigrationInv, Faultless
      <3> QED
        BY <1>1, <1>4, <2>2, <3>2 DEF Clean
    <2> QED
      BY <1>1, <2>1, <2>2
  <1>6. summaries' \in Seq(Report)
    BY <1>1, <1>2, AppendReport
  <1>7. Control'
    BY <1>1, <1>4, <1>5, <1>6, OutsideFile
  <1> QED
    BY <1>3, <1>5, <1>7 DEF MigrationInv, Faultless

-----------------------------------------------------------------------------
(* The load of a sample *)

LEMMA SampleIs ==
  ASSUME NEW t
  PROVE  LET s == SampleRows(t)
         IN /\ s \in Seq(ToSet(s)) /\ Len(s) \in Nat /\ Limit(t) \in 0 .. Len(s) /\ Limit(t) \in Nat
            /\ SampleOf(t) = FirstsOf(t, Limit(t))
  <1> DEFINE s == SampleRows(t)
             once(i) == Unique(t, IndexesKept) => \A j \in 1 .. i - 1 : s[j].key # s[i].key
  <1>1. s \in Seq(ToSet(s))
    <2>1. <<>> \in Seq(ToSet(<<>>))
      BY EmptyOf
    <2> QED
      BY <2>1, SampleAssumption DEF SampleRows
  <1>2. SampleOf(t) = {s[i] : i \in {i \in DOMAIN s : i <= MaxRows /\ s[i].key # Null /\ once(i)}}
    BY DEF SampleOf
  <1>3. FirstsOf(t, Limit(t)) = {s[i] : i \in {i \in 1 .. Limit(t) : s[i].key # Null /\ once(i)}}
    BY DEF FirstsOf
  <1>4. Limit(t) = IF Len(s) < MaxRows THEN Len(s) ELSE MaxRows
    BY DEF Limit
  <1> HIDE DEF s, once
  <1>5. Len(s) \in Nat /\ DOMAIN s = 1 .. Len(s) /\ MaxRows \in Nat
    BY <1>1, ElementsOf, SampleAssumption
  <1>6. Limit(t) \in 0 .. Len(s) /\ Limit(t) \in Nat
    BY <1>4, <1>5
  <1>7. \A i : i \in 1 .. Limit(t) <=> i \in DOMAIN s /\ i <= MaxRows
    BY <1>4, <1>5
  <1>8. SampleOf(t) = FirstsOf(t, Limit(t))
    BY <1>2, <1>3, <1>7
  <1> QED
    BY <1>1, <1>5, <1>6, <1>8 DEF s

\* One more row of the sample.
LEMMA FirstsStep ==
  ASSUME NEW t, NEW n \in Nat
  PROVE  LET s == SampleRows(t)
             again == s[n + 1].key = Null \/ (Unique(t, IndexesKept) /\ s[n + 1].key \in KeysUpTo(t, n))
         IN /\ FirstsOf(t, n + 1) = IF again THEN FirstsOf(t, n) ELSE FirstsOf(t, n) \cup {s[n + 1]}
            /\ KeysUpTo(t, n + 1) = KeysUpTo(t, n) \cup ({s[n + 1].key} \ {Null})
            /\ FirstsOf(t, 0) = {} /\ KeysUpTo(t, 0) = {}
  <1> DEFINE s == SampleRows(t)
             u == Unique(t, IndexesKept)
             first(i) == s[i].key # Null /\ (u => \A j \in 1 .. i - 1 : s[j].key # s[i].key)
             again == s[n + 1].key = Null \/ (u /\ s[n + 1].key \in KeysUpTo(t, n))
  <1>1. \A m : /\ FirstsOf(t, m) = {s[i] : i \in {i \in 1 .. m : first(i)}}
               /\ KeysUpTo(t, m) = {s[i].key : i \in 1 .. m} \ {Null}
    BY DEF FirstsOf, KeysUpTo
  <1>2. first(n + 1) <=> ~again
    <2>1. (n + 1) - 1 = n
      OBVIOUS
    <2>2. s[n + 1].key # Null =>
            (s[n + 1].key \in KeysUpTo(t, n) <=> \E j \in 1 .. n : s[j].key = s[n + 1].key)
      BY <1>1
    <2> HIDE DEF u
    <2> QED
      BY <2>1, <2>2
  <1> HIDE DEF first, again, s
  <1>3. 1 .. 0 = {} /\ 1 .. n + 1 = (1 .. n) \cup {n + 1}
    OBVIOUS
  <1>4. FirstsOf(t, 0) = {} /\ KeysUpTo(t, 0) = {}
    BY <1>1, <1>3
  <1>5. KeysUpTo(t, n + 1) = KeysUpTo(t, n) \cup ({s[n + 1].key} \ {Null})
    BY <1>1, <1>3
  <1>6. FirstsOf(t, n + 1) = IF again THEN FirstsOf(t, n) ELSE FirstsOf(t, n) \cup {s[n + 1]}
    <2>1. CASE again
      <3>1. {i \in 1 .. n + 1 : first(i)} = {i \in 1 .. n : first(i)}
        BY <1>2, <1>3, <2>1
      <3>2. FirstsOf(t, n + 1) = FirstsOf(t, n)
        BY <1>1, <3>1
      <3> QED
        BY <2>1, <3>2
    <2>2. CASE ~again
      <3>1. {i \in 1 .. n + 1 : first(i)} = {i \in 1 .. n : first(i)} \cup {n + 1}
        BY <1>2, <1>3, <2>2
      <3>2. FirstsOf(t, n + 1) = FirstsOf(t, n) \cup {s[n + 1]}
        BY <1>1, <3>1
      <3> QED
        BY <2>2, <3>2
    <2> QED
      BY <2>1, <2>2
  <1> QED
    BY <1>4, <1>5, <1>6 DEF s, again, u

\* A row that was tried before.
LEMMA FirstsHas ==
  ASSUME NEW t, NEW n \in Nat, NEW i \in 1 .. n, SampleRows(t)[i].key # Null
  PROVE  /\ SampleRows(t)[i].key \in KeysUpTo(t, n)
         /\ ~Unique(t, IndexesKept) => SampleRows(t)[i] \in FirstsOf(t, n)
  BY DEF KeysUpTo, FirstsOf

\* The table of a file that is done has a unique index exactly if one is kept.
LEMMA UniqueIs ==
  ASSUME Schema, NEW f, IndexesOf(f) \subseteq indexes
  PROVE  Unique(Name(f), indexes) <=> Unique(Name(f), IndexesKept)
  BY DEF Schema, IndexesOf, Unique

\* A file that is done and no foreign key is added to: a row of its sample is tried.
LEMMA RowIs ==
  ASSUME Schema, NEW f, NEW n \in Nat, Migrated(f, n), Untouched(Name(f)), NEW row, NEW m \in Nat,
         row = SampleRows(Name(f))[m + 1],
         \/ CanInsert(row, Name(f)) /\ Inserted(row, Name(f))
         \/ ~CanInsert(row, Name(f)) /\ UNCHANGED tables,
         UNCHANGED <<indexes, keys>>
  PROVE  /\ m = n => Migrated(f, n + 1)'
         /\ m < n => Migrated(f, n)'
  <1> DEFINE t == Name(f)
             u == Unique(t, IndexesKept)
  <1>1. /\ t \in DOMAIN tables /\ tables[t] = FirstsOf(t, n) /\ KeysOf(t) = KeysUpTo(t, n)
        /\ IndexesOf(f) \subseteq indexes
    BY DEF Migrated
  <1>2. Unique(t, indexes) <=> u
    BY <1>1, UniqueIs
  <1>3. CanInsert(row, t) <=> row.key # Null
    BY <1>1 DEF CanInsert, Untouched
  <1>4. IndexesOf(f) \subseteq indexes'
    BY <1>1
  <1> DEFINE skipped == row.key = Null \/ (u /\ row.key \in KeysOf(t))
  <1>5. CASE skipped
    <2>1. tables' = tables
      BY <1>2, <1>3, <1>5 DEF Inserted
    <2>2. Migrated(f, n)'
      BY <1>1, <1>4, <2>1 DEF Migrated, KeysOf
    <2>3. ASSUME m = n PROVE FirstsOf(t, n + 1) = FirstsOf(t, n) /\ KeysUpTo(t, n + 1) = KeysUpTo(t, n)
      <3> DEFINE again == row.key = Null \/ (u /\ row.key \in KeysUpTo(t, n))
      <3>1. /\ FirstsOf(t, n + 1) = IF again THEN FirstsOf(t, n) ELSE FirstsOf(t, n) \cup {row}
            /\ KeysUpTo(t, n + 1) = KeysUpTo(t, n) \cup ({row.key} \ {Null})
        BY <2>3, FirstsStep
      <3>2. again
        BY <1>1, <1>5
      <3> HIDE DEF u, t
      <3> QED
        BY <3>1, <3>2
    <2>4. m = n => Migrated(f, n + 1)'
      BY <1>1, <1>4, <2>1, <2>3 DEF Migrated, KeysOf
    <2> QED
      BY <2>2, <2>4
  <1>6. CASE ~skipped
    <2>1. tables' = [tables EXCEPT ![t] = @ \cup {row}]
      BY <1>2, <1>3, <1>6 DEF Inserted
    <2> HIDE DEF u
    <2>2. t \in DOMAIN tables' /\ tables'[t] = tables[t] \cup {row}
      BY <1>1, <2>1
    <2>3. KeysOf(t)' = KeysOf(t) \cup {row.key}
      BY <2>2 DEF KeysOf
    <2>4. ASSUME m = n PROVE Migrated(f, n + 1)'
      <3> DEFINE again == row.key = Null \/ (u /\ row.key \in KeysUpTo(t, n))
      <3>1. /\ FirstsOf(t, n + 1) = IF again THEN FirstsOf(t, n) ELSE FirstsOf(t, n) \cup {row}
            /\ KeysUpTo(t, n + 1) = KeysUpTo(t, n) \cup ({row.key} \ {Null})
        BY <2>4, FirstsStep DEF u
      <3>2. ~again /\ row.key # Null
        BY <1>1, <1>6
      <3>3. tables'[t] = FirstsOf(t, n + 1) /\ KeysOf(t)' = KeysUpTo(t, n + 1)
        <4> HIDE DEF t, again
        <4> QED
          BY <1>1, <2>2, <2>3, <3>1, <3>2
      <3> QED
        BY <1>4, <2>2, <3>3 DEF Migrated
    <2>5. ASSUME m < n PROVE Migrated(f, n)'
      <3>1. m + 1 \in 1 .. n /\ row.key # Null
        BY <1>6, <2>5
      <3>2. row.key \in KeysUpTo(t, n) /\ (~u => row \in FirstsOf(t, n))
        BY <3>1, FirstsHas DEF u
      <3>3. tables'[t] = FirstsOf(t, n) /\ KeysOf(t)' = KeysUpTo(t, n)
        <4>1. ~u
          BY <1>1, <1>6, <3>2
        <4> HIDE DEF t
        <4> QED
          BY <1>1, <2>2, <2>3, <3>2, <4>1
      <3> QED
        BY <1>4, <2>2, <3>3 DEF Migrated
    <2> QED
      BY <2>4, <2>5
  <1> QED
    BY <1>5, <1>6

\* A clean run has executed the file.
LEMMA Executed ==
  ASSUME Executing, todo = <<>>, file \in Files
  PROVE  /\ Name(file) \in DOMAIN tables /\ tables[Name(file)] = {} /\ Untouched(Name(file))
         /\ IndexesOf(file) \subseteq indexes
  <1>1. ~Complete(todo, file)
    BY CompleteIs
  <1>2. \A list : Complete(list, file) => todo # Tail(list)
    BY CompleteIs
  <1>3. ToSet(todo) = {}
    BY EmptyOf
  <1> QED
    BY <1>1, <1>2, <1>3 DEF Executing

\* The sample of a table is not loaded before the table is created.
LEMMA CountIs ==
  ASSUME NEW f \in Files, NEW k \in Nat
  PROVE  /\ k < f => ~LoadedBy(Name(f), k) /\ Count(f, k) = 0
         /\ LoadedBy(Name(f), k) => LoadedBy(Name(f), k + 1)
         /\ LoadedBy(Name(f), k + 1) =>
              LoadedBy(Name(f), k) \/ (First(k + 1) = Name(f) /\ (k + 1 \in Files => f <= k + 1))
         /\ k + 1 \in Files /\ f <= k + 1 /\ First(k + 1) = Name(f) => LoadedBy(Name(f), k + 1)
         /\ Count(f, k) \in Nat
  <1>1. f \in Nat \ {0} /\ Files = 1 .. Len(Source) /\ Len(Source) \in Nat
    BY FilesAre
  <1>2. \A g \in Files : Name(g) = Name(f) => g = f
    BY NamesApart
  <1>3. ASSUME k < f PROVE ~LoadedBy(Name(f), k)
    <2> SUFFICES ASSUME NEW g \in 1 .. k, NEW h \in 1 .. g, Name(h) = Name(f) PROVE FALSE
      BY DEF LoadedBy
    <2>1. h \in Files /\ h < f
      BY <1>1, <1>3
    <2> QED
      BY <1>1, <1>2, <2>1
  <1>4. 1 .. k + 1 = (1 .. k) \cup {k + 1}
    OBVIOUS
  <1>5. LoadedBy(Name(f), k) => LoadedBy(Name(f), k + 1)
    BY <1>4 DEF LoadedBy
  <1>6. ASSUME LoadedBy(Name(f), k + 1), ~LoadedBy(Name(f), k)
        PROVE  First(k + 1) = Name(f) /\ (k + 1 \in Files => f <= k + 1)
    <2>1. First(k + 1) = Name(f) /\ \E h \in 1 .. k + 1 : Name(h) = Name(f)
      BY <1>4, <1>6 DEF LoadedBy
    <2>2. ASSUME k + 1 \in Files PROVE f <= k + 1
      <3>1. PICK h \in 1 .. k + 1 : Name(h) = Name(f)
        BY <2>1
      <3>2. h \in Files
        BY <1>1, <2>2
      <3> QED
        BY <1>2, <3>1, <3>2
    <2> QED
      BY <2>1, <2>2
  <1>7. ASSUME f <= k + 1, First(k + 1) = Name(f) PROVE LoadedBy(Name(f), k + 1)
    <2>1. f \in 1 .. k + 1 /\ k + 1 \in 1 .. k + 1
      BY <1>1, <1>7
    <2> QED
      BY <1>7, <2>1 DEF LoadedBy
  <1>8. Count(f, k) \in Nat
    BY SampleIs DEF Count
  <1> QED
    BY <1>3, <1>5, <1>6, <1>7, <1>8 DEF Count

LEMMA StartLoadInv ==
  ASSUME MigrationInv, StartLoad PROVE MigrationInv'
  <1> DEFINE t == First(file)
             s == SampleRows(t)
             n == Limit(t)
  <1>1. /\ UNCHANGED database /\ phase = "execute" /\ todo = <<>> /\ phase' = "load" /\ faults' = faults
        /\ rows' = SubSeq(s, 1, n)
        /\ UNCHANGED <<connected, file, converted, collected, summaries>>
    BY DEF StartLoad, NoFault, Limit, Loaded, First
  <1>2. Schema /\ Control /\ file \in Files /\ file \in Nat \ {0}
    BY <1>1 DEF MigrationInv, Control
  <1>3. Schema'
    BY <1>1, <1>2, SameDatabase
  <1>4. s \in Seq(ToSet(s)) /\ n \in 0 .. Len(s) /\ n \in Nat
    BY SampleIs
  <1> HIDE DEF s, n
  <1>5. /\ rows' \in Seq(ToSet(s)) /\ Len(rows') = n
        /\ \A i \in 1 .. n : rows'[i] = s[i]
    <2>1. Len(s) \in Nat /\ \A i \in 1 .. Len(s) : s[i] \in ToSet(s)
      BY <1>4, ElementsOf
    <2>2. \A i \in 1 .. n : s[i] \in ToSet(s)
      BY <1>4, <2>1
    <2>3. 1 \in Int /\ n \in Int
      BY <1>4
    <2>4. /\ SubSeq(s, 1, n) \in Seq(ToSet(s))
          /\ Len(SubSeq(s, 1, n)) = IF 1 <= n THEN n - 1 + 1 ELSE 0
          /\ \A i \in 1 .. n - 1 + 1 : SubSeq(s, 1, n)[i] = s[1 + i - 1]
      BY <2>2, <2>3, SubSeqProperties
    <2> QED
      BY <1>1, <1>4, <2>4
  <1>6. Control'
    BY <1>1, <1>2, <1>5 DEF Control, Phases, s
  <1>7. ASSUME Clean' PROVE Past' /\ Loading' /\ Adding'
    <2>1. Past /\ Executing
      BY <1>1, <1>7 DEF MigrationInv, Faultless, Clean
    <2>2. Collected' = Collected
      BY <1>1 DEF Collected
    <2>3. Past'
      BY <1>1, <2>1, <2>2, SameDatabase DEF Past
    <2>4. Migrated(file, 0) /\ Untouched(Name(file))
      <3>1. /\ Name(file) \in DOMAIN tables /\ tables[Name(file)] = {} /\ Untouched(Name(file))
            /\ IndexesOf(file) \subseteq indexes
        BY <1>1, <1>2, <2>1, Executed
      <3>2. FirstsOf(Name(file), 0) = {} /\ KeysUpTo(Name(file), 0) = {}
        BY FirstsStep
      <3>3. KeysOf(Name(file)) = {}
        BY <3>1 DEF KeysOf
      <3> QED
        BY <3>1, <3>2, <3>3 DEF Migrated
    <2>5. Tried' = 0 /\ Tried' + Len(rows') = n
      BY <1>1, <1>4, <1>5 DEF Tried, n
    <2>6. \A i \in 1 .. Len(rows') : rows'[i] = s[Tried' + i]
      BY <1>5, <2>5
    <2>7. ASSUME NEW f \in 1 .. file PROVE Migrated(f, CountNow(f))' /\ Untouched(Name(f))'
      <3>1. f \in Files /\ file - 1 \in Nat
        BY <1>2, FilesAre
      <3>2. Migrated(f, Count(f, file - 1)) /\ Untouched(Name(f))
        <4>1. CASE f = file
          <5>1. Count(f, file - 1) = 0
            BY <1>2, <3>1, <4>1, CountIs
          <5> QED
            BY <2>4, <4>1, <5>1
        <4>2. CASE f # file
          <5>1. f \in 1 .. file - 1
            BY <1>2, <4>2
          <5> QED
            BY <1>1, <2>1, <5>1 DEF Past
        <4> QED
          BY <4>1, <4>2
      <3>3. PICK m : m = Count(f, file - 1)
        OBVIOUS
      <3>4. CountNow(f)' = m
        BY <1>1, <2>5, <3>3 DEF CountNow, Count
      <3>5. Migrated(f, m)' /\ Untouched(Name(f))'
        BY <1>1, <3>2, <3>3, SameDatabase
      <3> QED
        BY <3>4, <3>5
    <2>8. Loading'
      BY <1>1, <2>5, <2>6, <2>7 DEF Loading, s, n
    <2> QED
      BY <1>1, <2>3, <2>8 DEF Adding
  <1>8. Faultless'
    BY <1>1, <1>7 DEF Faultless
  <1> QED
    BY <1>3, <1>6, <1>8 DEF MigrationInv

\* A row of the sample is tried in a clean run.
LEMMA LoadingStep ==
  ASSUME Schema, Loading, rows # <<>>, rows \in Seq(ToSet(SampleRows(First(file)))), file \in Files,
         rows' = Tail(rows), UNCHANGED <<indexes, keys, file>>,
         \/ CanInsert(Head(rows), First(file)) /\ Inserted(Head(rows), First(file))
         \/ ~CanInsert(Head(rows), First(file)) /\ UNCHANGED tables
  PROVE  Loading'
  <1> DEFINE t == First(file)
             s == SampleRows(t)
             row == Head(rows)
  <1>1. /\ Tried \in Nat /\ Tried + Len(rows) = Limit(t)
        /\ \A i \in 1 .. Len(rows) : rows[i] = s[Tried + i]
        /\ \A f \in 1 .. file : Migrated(f, CountNow(f)) /\ Untouched(Name(f))
    BY DEF Loading
  <1>2. /\ Len(rows) \in Nat \ {0} /\ row = rows[1] /\ Len(rows') = Len(rows) - 1
        /\ \A i \in 1 .. Len(rows) - 1 : rows'[i] = rows[i + 1]
    BY TailOf
  <1>3. Limit(t) \in Nat /\ Tried' = Limit(t) - Len(rows')
    BY SampleIs DEF Tried
  <1> HIDE DEF row, s, t
  <1>4. Tried' = Tried + 1 /\ row = s[Tried + 1] /\ Tried' + Len(rows') = Limit(t) /\ Tried < Limit(t)
    BY <1>1, <1>2, <1>3
  <1>5. \A i \in 1 .. Len(rows') : rows'[i] = s[Tried' + i]
    <2> SUFFICES ASSUME NEW i \in 1 .. Len(rows') PROVE rows'[i] = s[Tried' + i]
      OBVIOUS
    <2>1. i + 1 \in 1 .. Len(rows) /\ rows'[i] = rows[i + 1]
      BY <1>2
    <2>2. Tried + (i + 1) = Tried' + i
      BY <1>1, <1>4
    <2> QED
      BY <1>1, <2>1, <2>2
  <1>6. ASSUME NEW f \in 1 .. file PROVE Migrated(f, CountNow(f))' /\ Untouched(Name(f))'
    <2>1. f \in Files /\ Migrated(f, CountNow(f)) /\ Untouched(Name(f)) /\ file - 1 \in Nat
      BY <1>1, FilesAre
    <2>2. Untouched(Name(f))'
      BY <2>1 DEF Untouched
    <2>3. CASE Name(f) # t
      <3>1. CountNow(f)' = CountNow(f)
        BY <2>3 DEF CountNow, t
      <3>2. /\ DOMAIN tables' = DOMAIN tables
            /\ \A u \in DOMAIN tables : u # t => tables'[u] = tables[u]
        BY DEF Inserted, Schema, t
      <3>3. Migrated(f, CountNow(f))'
        BY <2>1, <2>3, <3>1, <3>2 DEF Migrated, KeysOf
      <3> QED
        BY <2>2, <3>3
    <2>4. CASE Name(f) = t /\ ~LoadedBy(t, file - 1)
      <3>1. PICK n \in Nat : n = Tried
        BY <1>1
      <3>2. CountNow(f) = n /\ CountNow(f)' = n + 1
        BY <1>4, <2>4, <3>1 DEF CountNow, t
      <3>3. Migrated(f, n) /\ row = SampleRows(Name(f))[n + 1]
        BY <1>4, <2>1, <2>4, <3>1, <3>2 DEF s
      <3>4. Migrated(f, n + 1)'
        BY <2>1, <2>4, <3>3, RowIs DEF row, t
      <3> QED
        BY <2>2, <3>2, <3>4
    <2>5. CASE Name(f) = t /\ LoadedBy(t, file - 1)
      <3>1. PICK n \in Nat : n = Limit(t)
        BY <1>3
      <3>2. PICK m \in Nat : m = Tried
        BY <1>1
      <3>3. CountNow(f) = n /\ CountNow(f)' = n
        BY <2>5, <3>1 DEF CountNow, Count, t
      <3>4. Migrated(f, n) /\ row = SampleRows(Name(f))[m + 1] /\ m < n
        BY <1>4, <2>1, <2>5, <3>1, <3>2, <3>3 DEF s
      <3>5. Migrated(f, n)'
        BY <2>1, <2>5, <3>4, RowIs DEF row, t
      <3> QED
        BY <2>2, <3>3, <3>5
    <2> QED
      BY <2>3, <2>4, <2>5
  <1>7. Tried' \in Nat
    BY <1>1, <1>4
  <1> QED
    BY <1>4, <1>5, <1>6, <1>7 DEF Loading, s, t

LEMMA LoadRowInv ==
  ASSUME MigrationInv, LoadRow PROVE MigrationInv'
  <1> DEFINE t == First(file)
             row == Head(rows)
  <1>1. phase = "load" /\ Schema /\ Control /\ file \in Files /\ rows \in Seq(ToSet(SampleRows(t)))
    BY DEF LoadRow, MigrationInv, Control
  <1>2. /\ rows # <<>> /\ rows' = Tail(rows)
        /\ UNCHANGED <<indexes, keys, phase, connected, file, converted, collected, summaries>>
        /\ \/ CanInsert(row, t) /\ Inserted(row, t) /\ NoFault
           \/ ~CanInsert(row, t) /\ UNCHANGED tables /\ NoFault
           \/ Fault /\ UNCHANGED tables
    BY DEF LoadRow, Loaded, First
  <1>3. rows' \in Seq(ToSet(SampleRows(t)))
    BY <1>1, <1>2, TailOf
  <1>4. Inserted(row, t) \/ UNCHANGED tables
    BY <1>2
  <1>5. DOMAIN tables' = DOMAIN tables /\ tables' = [u \in DOMAIN tables' |-> tables'[u]]
    <2>1. tables = [u \in DOMAIN tables |-> tables[u]]
      BY <1>1 DEF Schema
    <2> HIDE DEF row, t
    <2>2. CASE tables' = tables
      BY <2>1, <2>2
    <2>3. CASE tables' = [tables EXCEPT ![t] = @ \cup {row}]
      BY <2>3
    <2> QED
      BY <1>4, <2>2, <2>3 DEF Inserted
  <1>6. Schema'
    BY <1>1, <1>2, <1>5 DEF Schema
  <1>7. faults' \in Nat /\ (Clean' => Clean /\ faults' = faults /\ ~Fault)
    <2>1. CASE Fault
      BY <1>1, <2>1, FaultMakes
    <2>2. CASE ~Fault
      <3>1. faults' = faults
        BY <1>2, <2>2 DEF NoFault
      <3> QED
        BY <1>1, <1>2, <2>2, <3>1 DEF Clean, Control
    <2> QED
      BY <2>1, <2>2
  <1>8. Control'
    BY <1>1, <1>2, <1>3, <1>7 DEF Control
  <1>9. ASSUME Clean' PROVE Past' /\ Loading' /\ Adding'
    <2>1. Past /\ Loading
      BY <1>1, <1>7, <1>9 DEF MigrationInv, Faultless
    <2>2. \/ CanInsert(row, t) /\ Inserted(row, t)
          \/ ~CanInsert(row, t) /\ UNCHANGED tables
      BY <1>2, <1>7, <1>9
    <2>3. Loading'
      BY <1>1, <1>2, <2>1, <2>2, LoadingStep
    <2>4. Collected' = Collected
      BY <1>2 DEF Collected
    <2>5. \A g \in 1 .. file - 1 : Untouched(Name(g))'
      BY <1>1, <1>2, <2>1 DEF Past, Untouched
    <2>6. Past'
      BY <1>1, <1>2, <2>1, <2>4, <2>5 DEF Past
    <2> QED
      BY <1>1, <1>2, <2>3, <2>6 DEF Adding
  <1>10. Faultless'
    BY <1>1, <1>2, <1>9 DEF Faultless
  <1> QED
    BY <1>6, <1>8, <1>10 DEF MigrationInv

LEMMA FinishFileInv ==
  ASSUME MigrationInv, FinishFile PROVE MigrationInv'
  <1>1. /\ UNCHANGED database /\ phase = "load" /\ rows = <<>> /\ phase' = "file" /\ faults' = faults
        /\ file' = file + 1 /\ summaries' = Append(summaries, Summary(TRUE, TRUE))
        /\ UNCHANGED <<connected, converted, collected>>
    BY DEF FinishFile, EndFile, NoFault
  <1>2. Schema /\ Control /\ file \in Files
    BY <1>1 DEF MigrationInv, Control
  <1>3. Schema'
    BY <1>1, <1>2, SameDatabase
  <1>4. /\ file \in Nat \ {0} /\ connected \in BOOLEAN /\ collected \in Seq(References)
        /\ converted = NothingConverted /\ faults \in Nat
    BY <1>1, <1>2 DEF Control
  <1>5. summaries' \in Seq(Report)
    BY <1>1, <1>2, AppendReport
  <1>6. Control'
    BY <1>1, <1>4, <1>5, OutsideFile
  <1>7. ASSUME Clean' PROVE Past'
    <2>1. Past /\ Loading
      BY <1>1, <1>7 DEF MigrationInv, Faultless, Clean
    <2>2. Collected' = Collected /\ Collected = file
      BY <1>1, <1>4 DEF Collected
    <2>3. Tried = Limit(First(file))
      <3>1. Len(rows) = 0 /\ Tried \in Nat /\ Tried + Len(rows) = Limit(First(file))
        BY <1>1, <2>1, EmptyOf DEF Loading
      <3> QED
        BY <3>1
    <2>4. /\ file' - 1 \in 0 .. Len(Source) /\ file' - 1 = file
      BY <1>1, <1>2, <1>4, FilesAre
    <2>5. ASSUME NEW g \in 1 .. file PROVE Migrated(g, Count(g, file))
      <3>1. g \in Files /\ file - 1 \in Nat /\ (file - 1) + 1 = file /\ g <= file
        BY <1>2, <1>4, FilesAre
      <3>2. Migrated(g, CountNow(g))
        BY <2>1 DEF Loading
      <3>3. /\ LoadedBy(Name(g), file - 1) => LoadedBy(Name(g), file)
            /\ LoadedBy(Name(g), file) => LoadedBy(Name(g), file - 1) \/ First(file) = Name(g)
            /\ First(file) = Name(g) => LoadedBy(Name(g), file)
        <4> DEFINE k == file - 1
        <4>1. k \in Nat /\ k + 1 = file
          BY <3>1
        <4> HIDE DEF k
        <4>2. /\ LoadedBy(Name(g), k) => LoadedBy(Name(g), k + 1)
              /\ LoadedBy(Name(g), k + 1) => LoadedBy(Name(g), k) \/ First(k + 1) = Name(g)
              /\ k + 1 \in Files /\ g <= k + 1 /\ First(k + 1) = Name(g) => LoadedBy(Name(g), k + 1)
          BY <3>1, <4>1, CountIs
        <4> QED
          BY <1>2, <3>1, <4>1, <4>2 DEF k
      <3>4. CountNow(g) = Count(g, file)
        BY <2>3, <3>3 DEF CountNow, Count
      <3> QED
        BY <3>2, <3>4
    <2>6. \A g \in 1 .. file' - 1 : Migrated(g, Count(g, file - 1))'
      <3> SUFFICES ASSUME NEW g \in 1 .. file PROVE Migrated(g, Count(g, file - 1))'
        BY <2>4
      <3>1. PICK n : n = Count(g, file)
        OBVIOUS
      <3>2. Migrated(g, n)'
        BY <1>1, <2>5, <3>1, SameDatabase
      <3>3. Count(g, file - 1)' = n
        BY <2>4, <3>1
      <3> QED
        BY <3>2, <3>3
    <2>7. \A g \in 1 .. file' - 1 : Untouched(Name(g))'
      BY <1>1, <2>1, <2>4, SameDatabase DEF Loading
    <2>8. \A k \in DOMAIN summaries' : summaries'[k].converted /\ summaries'[k].executed
      BY <1>1, <1>2, <2>1, AppendReport DEF Past
    <2>9. ToSet(collected') = UNION {ReferencesOf(g) : g \in 1 .. Collected'}
      BY <1>1, <2>1, <2>2 DEF Past
    <2> QED
      BY <2>4, <2>6, <2>7, <2>8, <2>9 DEF Past
  <1>8. Faultless'
    BY <1>1, <1>7 DEF Faultless, Adding
  <1> QED
    BY <1>3, <1>6, <1>8 DEF MigrationInv

-----------------------------------------------------------------------------
(* The foreign keys *)

LEMMA SampledIs ==
  ASSUME NEW f \in Files
  PROVE  Sampled(Name(f)) <=> LoadedBy(Name(f), Len(Source))
  <1>1. Files = 1 .. Len(Source) /\ Len(Source) \in Nat
    BY FilesAre
  <1>2. ASSUME NEW g \in Files, NEW t
        PROVE  (\E stmt \in ToSet(Source[g]) : stmt.kind = "table" /\ stmt.table = t) <=> Name(g) = t
    <2>1. /\ ToSet(Source[g]) = {Source[g][l] : l \in 1 .. Len(Source[g])}
          /\ At(g) \in 1 .. Len(Source[g]) /\ Source[g][At(g)].kind = "table"
          /\ \A l \in 1 .. Len(Source[g]) : Source[g][l].kind = "table" => l = At(g)
      BY FileIs, ElementsOf
    <2> QED
      BY <2>1 DEF Name
  <1>3. Sampled(Name(f)) <=>
          \E g, h \in Files : g <= h /\ First(h) = Name(f) /\ Name(g) = Name(f)
    BY <1>2 DEF Sampled, First
  <1>4. \A h \in Files : 1 .. h = {g \in Files : g <= h}
    BY <1>1
  <1> QED
    BY <1>1, <1>3, <1>4 DEF LoadedBy

\* When every file is done the tables are those of the files, with their samples.
LEMMA AllMigrated ==
  ASSUME Schema, Past, file = Len(Source) + 1, phase # "load"
  PROVE  /\ DOMAIN tables = Names
         /\ \A t \in DOMAIN tables : tables[t] = RowsExpected(t)
         /\ indexes = IndexesKept
  <1>1. \A f \in Files : Migrated(f, Count(f, Len(Source)))
    <2>1. file - 1 = Len(Source)
      BY FilesAre
    <2> QED
      BY <2>1, FilesAre DEF Past
  <1>2. ASSUME NEW f \in Files PROVE tables[Name(f)] = RowsExpected(Name(f))
    <2>1. tables[Name(f)] = FirstsOf(Name(f), Count(f, Len(Source)))
      BY <1>1 DEF Migrated
    <2>2. CASE Sampled(Name(f))
      <3>1. Count(f, Len(Source)) = Limit(Name(f))
        BY <2>2, SampledIs DEF Count
      <3> QED
        BY <2>1, <2>2, <3>1, SampleIs DEF RowsExpected
    <2>3. CASE ~Sampled(Name(f))
      <3>1. Count(f, Len(Source)) = 0
        BY <2>3, SampledIs DEF Count
      <3> QED
        BY <2>1, <2>3, <3>1, FirstsStep DEF RowsExpected
    <2> QED
      BY <2>2, <2>3
  <1>3. \A t \in Names : t \in DOMAIN tables /\ tables[t] = RowsExpected(t)
    BY <1>1, <1>2, NameIsOf DEF Migrated
  <1>4. IndexesKept \subseteq indexes
    BY <1>1, IndexTables DEF Migrated
  <1> QED
    BY <1>3, <1>4 DEF Schema

LEMMA WriteForeignKeysInv ==
  ASSUME MigrationInv, WriteForeignKeys PROVE MigrationInv'
  <1>1. /\ UNCHANGED database /\ phase = "file" /\ file \notin Files /\ phase' = "keys" /\ faults' = faults
        /\ todo' = IF connected THEN collected ELSE <<>>
        /\ UNCHANGED <<connected, file, converted, collected, summaries>>
    BY DEF WriteForeignKeys, NoFault, ToAdd
  <1>2. Schema /\ Control
    BY DEF MigrationInv
  <1>3. Schema'
    BY <1>1, <1>2, SameDatabase
  <1>4. todo' \in Seq(References)
    BY <1>1, <1>2, EmptyOf DEF Control
  <1>5. Control'
    BY <1>1, <1>2, <1>4 DEF Control, Phases
  <1>6. ASSUME Clean' PROVE Past' /\ Adding'
    <2>1. Past /\ connected
      BY <1>1, <1>6 DEF MigrationInv, Faultless, Clean
    <2>2. Collected = file - 1 /\ Collected' = file - 1
      BY <1>1 DEF Collected
    <2>3. Past'
      BY <1>1, <2>1, <2>2, SameDatabase DEF Past
    <2>4. file = Len(Source) + 1 /\ file - 1 = Len(Source)
      <3>1. file \in Nat \ {0} /\ file - 1 \in 0 .. Len(Source)
        BY <1>2, <2>1 DEF Control, Past
      <3> QED
        BY <1>1, <3>1, FilesAre
    <2>5. keys = {}
      <3> SUFFICES ASSUME NEW key \in keys PROVE FALSE
        OBVIOUS
      <3>1. key.child \in Names
        BY <1>2 DEF Schema
      <3>2. PICK f \in Files : key.child = Name(f)
        BY <3>1, NameIsOf
      <3>3. Untouched(Name(f))
        BY <1>1, <2>1, <2>4, FilesAre DEF Past
      <3> QED
        BY <3>2, <3>3 DEF Untouched
    <2>6. ToSet(collected) = References
      BY <2>1, <2>2, <2>4, ReferencesAre DEF Past
    <2>7. KeysExpected \subseteq References
      BY DEF KeysExpected
    <2>8. todo' = collected /\ keys' = {}
      BY <1>1, <2>1, <2>5 DEF database
    <2> QED
      BY <1>1, <2>3, <2>4, <2>6, <2>7, <2>8 DEF Adding
  <1>7. Faultless'
    BY <1>1, <1>6 DEF Faultless
  <1> QED
    BY <1>3, <1>5, <1>7 DEF MigrationInv

LEMMA AddForeignKeyInv ==
  ASSUME MigrationInv, AddForeignKey PROVE MigrationInv'
  <1> DEFINE key == Head(todo)
             valid == /\ {key.child, key.parent} \subseteq DOMAIN tables
                      /\ \E index \in indexes : Serves(index, key)
                      /\ \A other \in keys : other.child # key.child \/ other.name # key.name
                      /\ Respected(key)
  <1>1. /\ phase = "keys" /\ todo # <<>> /\ todo' = Tail(todo)
        /\ UNCHANGED <<tables, indexes, phase, connected, file, converted, collected, summaries>>
        /\ \/ keys' = (IF valid THEN keys \cup {key} ELSE keys) /\ faults' = faults
           \/ UNCHANGED keys /\ Fault
    BY DEF AddForeignKey, NoFault
  <1>2. Schema /\ Control /\ todo \in Seq(References)
    BY <1>1 DEF MigrationInv, Control
  <1>3. /\ key \in References /\ todo' \in Seq(References)
        /\ ToSet(todo) = {key} \cup ToSet(todo')
    BY <1>1, <1>2, TailOf
  <1> HIDE DEF key
  <1>4. \A k \in keys' : k \in keys \/ (k = key /\ valid)
    BY <1>1
  <1>5. Schema'
    BY <1>1, <1>2, <1>3, <1>4 DEF Schema
  <1>6. faults' \in Nat /\ (Clean' => Clean /\ ~Fault)
    <2>1. CASE Fault
      BY <1>2, <2>1, FaultMakes
    <2>2. CASE ~Fault
      <3>1. faults' = faults
        BY <1>1, <2>2
      <3> QED
        BY <1>1, <1>2, <2>2, <3>1 DEF Clean, Control
    <2> QED
      BY <2>1, <2>2
  <1>7. Control'
    BY <1>1, <1>2, <1>3, <1>6 DEF Control
  <1>8. ASSUME Clean' PROVE Past' /\ Adding'
    <2>1. Past /\ Adding
      BY <1>6, <1>8 DEF MigrationInv, Faultless
    <2>2. /\ file = Len(Source) + 1 /\ keys \subseteq KeysExpected
          /\ KeysExpected \subseteq keys \cup ToSet(todo)
      BY <1>1, <2>1 DEF Adding
    <2>3. /\ DOMAIN tables = Names
          /\ \A t \in DOMAIN tables : tables[t] = RowsExpected(t)
          /\ indexes = IndexesKept
      BY <1>1, <1>2, <2>1, <2>2, AllMigrated
    <2>4. keys' = IF valid THEN keys \cup {key} ELSE keys
      BY <1>1, <1>6, <1>8
    <2>5. {key.child, key.parent} \subseteq Names
      BY <1>3, NameAssumption DEF Names
    <2>6. Respected(key) /\ (\E index \in indexes : Serves(index, key)) <=> key \in KeysExpected
      <3>1. /\ tables[key.child] = RowsExpected(key.child)
            /\ KeysOf(key.parent) = {r.key : r \in RowsExpected(key.parent)}
        BY <2>3, <2>5 DEF KeysOf
      <3> QED
        BY <1>3, <2>3, <3>1 DEF Respected, KeysExpected
    <2>7. keys' \subseteq KeysExpected
      BY <2>2, <2>4, <2>6
    <2>8. key \in KeysExpected => key \in keys'
      <3> SUFFICES ASSUME key \in KeysExpected, ~valid PROVE key \in keys
        BY <2>4
      <3>1. PICK other \in keys : other.child = key.child /\ other.name = key.name
        BY <2>3, <2>5, <2>6
      <3>2. other = key
        BY <1>2, <1>3, <3>1, NameAssumption DEF Schema
      <3> QED
        BY <3>1, <3>2
    <2>9. keys \subseteq keys'
      BY <2>4
    <2>10. KeysExpected \subseteq keys' \cup ToSet(todo')
      BY <1>3, <2>2, <2>8, <2>9
    <2>11. Adding'
      BY <1>1, <2>2, <2>7, <2>10 DEF Adding
    <2>12. Past'
      <3>1. Collected' = Collected
        BY <1>1 DEF Collected
      <3>2. \A f, n : Migrated(f, n) => Migrated(f, n)'
        BY <1>1 DEF Migrated, KeysOf
      <3> QED
        BY <1>1, <2>1, <3>1, <3>2 DEF Past
    <2> QED
      BY <2>11, <2>12
  <1>9. Faultless'
    BY <1>1, <1>8 DEF Faultless
  <1> QED
    BY <1>5, <1>7, <1>9 DEF MigrationInv

LEMMA FinishRunInv ==
  ASSUME MigrationInv, FinishRun PROVE MigrationInv'
  <1>1. /\ UNCHANGED database /\ phase = "keys" /\ todo = <<>> /\ phase' = "summary" /\ faults' = faults
        /\ UNCHANGED <<connected, file, converted, collected, summaries>>
    BY DEF FinishRun, NoFault
  <1>2. Schema /\ Control
    BY DEF MigrationInv
  <1>3. Schema'
    BY <1>1, <1>2, SameDatabase
  <1>4. /\ file \in Nat \ {0} /\ connected \in BOOLEAN /\ collected \in Seq(References)
        /\ converted = NothingConverted /\ faults \in Nat /\ summaries \in Seq(Report)
    BY <1>1, <1>2 DEF Control
  <1>5. Control'
    BY <1>1, <1>4, OutsideFile
  <1>6. ASSUME Clean' PROVE Past' /\ Adding'
    <2>1. Past /\ Adding
      BY <1>1, <1>6 DEF MigrationInv, Faultless, Clean
    <2>2. Collected' = Collected
      BY <1>1 DEF Collected
    <2>3. Past'
      BY <1>1, <2>1, <2>2, SameDatabase DEF Past
    <2>4. keys' = keys /\ ToSet(todo) = {}
      BY <1>1, EmptyOf DEF database
    <2>5. Adding'
      BY <1>1, <2>1, <2>4 DEF Adding
    <2> QED
      BY <2>3, <2>5
  <1>7. Faultless'
    BY <1>1, <1>6 DEF Faultless
  <1> QED
    BY <1>3, <1>5, <1>7 DEF MigrationInv

LEMMA EndProcessInv ==
  ASSUME MigrationInv, EndProcess PROVE MigrationInv'
  <1>1. /\ UNCHANGED database /\ phase' = "none" /\ converted' = NothingConverted
        /\ file' = 1 /\ collected' = <<>> /\ summaries' = <<>> /\ faults' = 0
    BY DEF EndProcess
  <1>2. connected' = FALSE
    BY DEF EndProcess
  <1>3. Schema'
    BY <1>1, SameDatabase DEF MigrationInv
  <1>4. Control'
    <2>1. connected' \in BOOLEAN /\ ~connected'
      BY <1>2, Zenon
    <2>2. collected' \in Seq(References) /\ summaries' \in Seq(Report)
      BY <1>1, EmptyOf
    <2>3. file' \in Nat \ {0} /\ faults' \in Nat
      BY <1>1
    <2>4. phase' \in Phases
      BY <1>1 DEF Phases
    <2> QED
      BY <1>1, <2>1, <2>2, <2>3, <2>4 DEF Control
  <1>5. ~Clean'
    BY <1>2, Zenon DEF Clean
  <1> QED
    BY <1>3, <1>4, <1>5 DEF MigrationInv, Faultless

-----------------------------------------------------------------------------
(* Theorems *)

LEMMA InvNext == MigrationInv /\ [MigrationNext]_migrationVars => MigrationInv'
  <1> SUFFICES ASSUME MigrationInv, [MigrationNext]_migrationVars PROVE MigrationInv'
    OBVIOUS
  <1>1. CASE StartRun
    BY <1>1, StartRunInv
  <1>2. CASE ReadFile
    BY <1>2, ReadFileInv
  <1>3. CASE ConvertNext
    BY <1>3, ConvertNextInv
  <1>4. CASE FailToConvert
    BY <1>4, FailToConvertInv
  <1>5. CASE Collect
    BY <1>5, CollectInv
  <1>6. CASE ExecuteStatement
    BY <1>6, ExecuteInv
  <1>7. CASE StopAtError
    BY <1>7, StopAtErrorInv
  <1>8. CASE StartLoad
    BY <1>8, StartLoadInv
  <1>9. CASE LoadRow
    BY <1>9, LoadRowInv
  <1>10. CASE FinishFile
    BY <1>10, FinishFileInv
  <1>11. CASE WriteForeignKeys
    BY <1>11, WriteForeignKeysInv
  <1>12. CASE AddForeignKey
    BY <1>12, AddForeignKeyInv
  <1>13. CASE FinishRun
    BY <1>13, FinishRunInv
  <1>14. CASE EndProcess
    BY <1>14, EndProcessInv
  <1>15. CASE UNCHANGED migrationVars
    <2>1. /\ UNCHANGED database
          /\ UNCHANGED <<phase, connected, file, todo, converted, rows, collected, summaries, faults>>
      BY <1>15 DEF migrationVars
    <2>2. UNCHANGED <<tables, indexes, keys>>
      BY <2>1 DEF database
    <2>3. Schema'
      BY <2>1, SameDatabase DEF MigrationInv
    <2>4. Read' = Read /\ Collected' = Collected /\ Tried' = Tried /\ (Clean' <=> Clean)
      BY <2>1 DEF Read, Collected, Tried, Clean
    <2>5. Converting => Converting'
      BY <2>1, <2>4 DEF Converting
    <2>6. Control'
      BY <2>1, <2>5 DEF MigrationInv, Control
    <2>7. (Past => Past') /\ (Adding => Adding')
      BY <2>1, <2>2, <2>4, SameDatabase DEF Past, Adding
    <2>8. Executing => Executing'
      BY <2>1, <2>2 DEF Executing, Untouched
    <2>9. Loading => Loading'
      <3>1. \A f : CountNow(f)' = CountNow(f)
        BY <2>1, <2>4 DEF CountNow, Count
      <3> QED
        BY <2>1, <2>4, <3>1, SameDatabase DEF Loading
    <2>10. Faultless'
      BY <2>1, <2>4, <2>7, <2>8, <2>9 DEF MigrationInv, Faultless
    <2> QED
      BY <2>3, <2>6, <2>10 DEF MigrationInv
  <1> QED
    BY <1>1, <1>2, <1>3, <1>4, <1>5, <1>6, <1>7, <1>8, <1>9, <1>10, <1>11, <1>12, <1>13, <1>14,
       <1>15 DEF MigrationNext

\* In every run the database holds only tables, indexes and foreign keys that the files
\* declare, and a run that has met no fault has left behind it files that are done: the
\* table with the indexes that the converter keeps, with its sample once a file whose
\* text mentions it first was loaded, no foreign key on it yet, and its foreign keys
\* collected.
THEOREM RunsLeaveDeclared == MigrationSpec => []MigrationInv
  BY InvInit, InvNext, PTL DEF MigrationSpec

\* A run of run() that ends without a fault leaves the same schema and samples, whatever
\* the runs before it left: all tables, all indexes but those of keys that only ALTER
\* TABLE adds, the samples of the tables that their file or a later one mentions first,
\* and the foreign keys that a unique index serves and that these rows respect.
THEOREM RunsConverge == MigrationSpec => []RerunConverges
  <1>1. MigrationInv => RerunConverges
    <2> SUFFICES ASSUME MigrationInv, phase = "summary", Clean PROVE RerunConverges
      BY DEF RerunConverges, Clean
    <2>1. Schema /\ Past /\ Adding
      BY DEF MigrationInv, Faultless
    <2>2. file = Len(Source) + 1 /\ keys \subseteq KeysExpected /\ KeysExpected \subseteq keys
      BY <2>1 DEF Adding
    <2>3. /\ DOMAIN tables = Names
          /\ \A t \in DOMAIN tables : tables[t] = RowsExpected(t)
          /\ indexes = IndexesKept
      BY <2>1, <2>2, AllMigrated
    <2>4. \A k \in DOMAIN summaries : summaries[k].converted /\ summaries[k].executed
      BY <2>1 DEF Past
    <2>5. keys = KeysExpected
      BY <2>2
    <2> QED
      BY <2>3, <2>4, <2>5 DEF RerunConverges, Names, RowsExpected, IndexesKept
  <1> QED
    BY <1>1, RunsLeaveDeclared, PTL
=============================================================================
