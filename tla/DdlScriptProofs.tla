---------------------------- MODULE DdlScriptProofs ----------------------------
(***************************************************************************)
(* Theorems about DdlScript, for every script and every table: each        *)
(* statement of a script is found, whole and alone, and each definition of *)
(* a table.                                                                *)
(*                                                                         *)
(* The parser goes over a text token by token, and what it has made of the *)
(* tokens so far is a recursive function of the position.  Induction over  *)
(* positions is the principle of the least counterexample (WFMin); that a  *)
(* recursive function exists is a lemma here too (Recursion).              *)
(***************************************************************************)
EXTENDS DdlScript, SequenceTheorems, WellFoundedInduction, TLAPS

-----------------------------------------------------------------------------
(* Induction and recursion over an interval *)

\* A set of numbers with 0 that is closed under successor has every number.
LEMMA Induction ==
  ASSUME NEW S, 0 \in S, \A n \in Nat : n \in S => n + 1 \in S
  PROVE  Nat \subseteq S
  <1> DEFINE T == Nat \ S
             R == OpToRel(<, Nat)
  <1> SUFFICES ASSUME T # {} PROVE FALSE
    OBVIOUS
  <1>1. IsWellFoundedOn(R, Nat) /\ T \subseteq Nat
    BY NatLessThanWellFounded
  <1>2. \A x, y \in Nat : y < x => <<y, x>> \in R
    BY DEF OpToRel
  <1> HIDE DEF R
  <1>3. PICK x \in T : \A y \in T : ~(<<y, x>> \in R)
    BY <1>1, WFMin
  <1>4. x # 0 /\ x - 1 \in Nat /\ x - 1 < x /\ x = (x - 1) + 1
    OBVIOUS
  <1>5. x - 1 \in T
    BY <1>4
  <1> QED
    BY <1>2, <1>3, <1>4, <1>5

\* The same from one number to another.
LEMMA IntervalInduction ==
  ASSUME NEW lo \in Nat, NEW hi \in Nat, NEW S, lo \in S,
         \A i \in lo .. hi - 1 : i \in S => i + 1 \in S
  PROVE  lo .. hi \subseteq S
  <1> DEFINE T == {n \in Nat : lo + n <= hi => lo + n \in S}
  <1>1. 0 \in T
    OBVIOUS
  <1>2. ASSUME NEW n \in Nat, n \in T PROVE n + 1 \in T
    <2> SUFFICES ASSUME lo + (n + 1) <= hi PROVE lo + (n + 1) \in S
      OBVIOUS
    <2>1. lo + n \in S /\ lo + n \in lo .. hi - 1
      BY <1>2
    <2>2. lo + n + 1 \in S
      BY <2>1
    <2> QED
      BY <2>2
  <1> HIDE DEF T
  <1>3. Nat \subseteq T
    BY <1>1, <1>2, Induction
  <1> SUFFICES ASSUME NEW i \in lo .. hi PROVE i \in S
    OBVIOUS
  <1>4. i - lo \in T
    BY <1>3
  <1> QED
    BY <1>4 DEF T

\* What holds first, and of a value when it holds of the one before, holds of all.
LEMMA AllIn ==
  ASSUME NEW D, NEW lo \in Nat, NEW hi \in Nat, lo <= hi, NEW f, f[lo] \in D,
         \A i \in lo .. hi - 1 : f[i] \in D => f[i + 1] \in D
  PROVE  \A i \in lo .. hi : f[i] \in D
  <1> DEFINE S == {i \in lo .. hi : f[i] \in D}
  <1>1. lo \in S
    OBVIOUS
  <1>2. ASSUME NEW i \in lo .. hi - 1, i \in S PROVE i + 1 \in S
    <2>1. f[i + 1] \in D
      BY <1>2
    <2> QED
      BY <2>1
  <1> HIDE DEF S
  <1>3. lo .. hi \subseteq S
    BY <1>1, <1>2, IntervalInduction
  <1> QED
    BY <1>3 DEF S

\* f starts with a value, and each of its values is a step from the one before.
Iterates(f, lo, hi, first, step) ==
  f[lo] = first /\ \A i \in lo + 1 .. hi : f[i] = step[<<i, f[i - 1]>>]

\* A function of a position and of its value at the position before it.
LEMMA Recursion ==
  ASSUME NEW D, NEW lo \in Nat, NEW hi \in Nat, lo <= hi, NEW first \in D,
         NEW step \in [(lo + 1 .. hi) \X D -> D]
  PROVE  \E f \in [lo .. hi -> D] : Iterates(f, lo, hi, first, step)
  <1> DEFINE Made(f, n) == f[lo] = first /\ \A i \in lo + 1 .. n : f[i] = step[<<i, f[i - 1]>>]
             S == {n \in lo .. hi : \E f \in [lo .. n -> D] : Made(f, n)}
  <1>1. lo \in S
    <2> DEFINE f == [i \in lo .. lo |-> first]
    <2>1. f \in [lo .. lo -> D] /\ Made(f, lo) /\ lo \in lo .. hi
      OBVIOUS
    <2> HIDE DEF f, Made
    <2> QED
      BY <2>1
  <1>2. ASSUME NEW n \in lo .. hi - 1, n \in S PROVE n + 1 \in S
    <2>1. PICK f \in [lo .. n -> D] : Made(f, n)
      BY <1>2
    <2> DEFINE next == step[<<n + 1, f[n]>>]
               g == [i \in lo .. n + 1 |-> IF i = n + 1 THEN next ELSE f[i]]
    <2>2. next \in D
      <3>1. f[n] \in D /\ n + 1 \in lo + 1 .. hi
        OBVIOUS
      <3> QED
        BY <3>1
    <2> HIDE DEF next
    <2>3. g \in [lo .. n + 1 -> D] /\ g[lo] = first
      BY <2>1, <2>2
    <2>4. ASSUME NEW i \in lo + 1 .. n + 1 PROVE g[i] = step[<<i, g[i - 1]>>]
      <3>1. CASE i = n + 1
        <4>1. g[i - 1] = f[n] /\ g[i] = next
          BY <3>1
        <4> HIDE DEF g
        <4> QED
          BY <3>1, <4>1 DEF next
      <3>2. CASE i # n + 1
        <4>1. g[i - 1] = f[i - 1] /\ g[i] = f[i] /\ i \in lo + 1 .. n
          BY <3>2
        <4> HIDE DEF g
        <4> QED
          BY <4>1, <2>1
      <3> QED
        BY <3>1, <3>2
    <2>5. n + 1 \in lo .. hi
      OBVIOUS
    <2> HIDE DEF g
    <2>6. Made(g, n + 1)
      BY <2>3, <2>4
    <2> QED
      BY <2>3, <2>5, <2>6
  <1> HIDE DEF S
  <1>3. lo .. hi \subseteq S
    BY <1>1, <1>2, IntervalInduction
  <1>4. hi \in lo .. hi
    OBVIOUS
  <1> QED
    BY <1>3, <1>4 DEF S, Iterates

-----------------------------------------------------------------------------
(* The recursive functions of the parser *)

LEMMA DepthsDef ==
  ASSUME NEW text \in Seq(Token)
  PROVE  /\ Depths(text) \in [0 .. Len(text) -> Int] /\ Depths(text)[0] = 0
         /\ \A i \in DOMAIN text :
              Depths(text)[i] = Depths(text)[i - 1]
                + (IF text[i] = "(" THEN 1 ELSE IF text[i] = ")" THEN -1 ELSE 0)
  <1> DEFINE n == Len(text)
             Move(i) == IF text[i] = "(" THEN 1 ELSE IF text[i] = ")" THEN -1 ELSE 0
             step == [a \in (1 .. n) \X Int |-> a[2] + Move(a[1])]
             Body(d) == [i \in 0 .. n |->
                           IF i = 0 THEN 0
                           ELSE CASE text[i] = "(" -> d[i - 1] + 1
                                  [] text[i] = ")" -> d[i - 1] - 1
                                  [] OTHER -> d[i - 1]]
             d == Depths(text)
  <1>1. /\ 0 \in Nat /\ n \in Nat /\ 0 <= n /\ 0 \in Int
        /\ step \in [(0 + 1 .. n) \X Int -> Int] /\ DOMAIN text = 1 .. n
    OBVIOUS
  <1>2. PICK f \in [0 .. n -> Int] : Iterates(f, 0, n, 0, step)
    <2> HIDE DEF step, n
    <2> QED
      BY <1>1, Recursion
  <1>3. f = Body(f)
    <2>1. ASSUME NEW i \in 0 .. n PROVE f[i] = Body(f)[i]
      <3>1. CASE i # 0
        <4>1. f[i - 1] \in Int /\ f[i] = f[i - 1] + Move(i)
          BY <1>2, <3>1 DEF Iterates
        <4> QED
          BY <3>1, <4>1
      <3> QED
        BY <1>2, <3>1 DEF Iterates
    <2>2. DOMAIN f = 0 .. n /\ DOMAIN Body(f) = 0 .. n /\ f = [i \in 0 .. n |-> f[i]]
      OBVIOUS
    <2>3. Body(f) = [i \in 0 .. n |-> Body(f)[i]]
      OBVIOUS
    <2> HIDE DEF Body
    <2> QED
      BY <2>1, <2>2, <2>3
  <1>4. d = Body(d)
    BY <1>3 DEF Depths
  <1> HIDE DEF d
  <1>5. d[0] = 0 /\ \A i \in 1 .. n : d[i - 1] \in Int => d[i] = d[i - 1] + Move(i)
    BY <1>4
  <1>6. \A i \in 0 .. n : d[i] \in Int
    <2>1. d[0] \in Int
      BY <1>5
    <2>2. ASSUME NEW i \in 0 .. n - 1, d[i] \in Int PROVE d[i + 1] \in Int
      <3>1. i + 1 \in 1 .. n /\ (i + 1) - 1 = i /\ Move(i + 1) \in Int
        OBVIOUS
      <3> QED
        BY <1>5, <2>2, <3>1
    <2> HIDE DEF n
    <2> QED
      BY <1>1, <2>1, <2>2, AllIn
  <1>7. d \in [0 .. n -> Int]
    BY <1>4, <1>6
  <1>8. ASSUME NEW i \in 1 .. n PROVE d[i] = d[i - 1] + Move(i)
    BY <1>5, <1>6
  <1> QED
    BY <1>1, <1>5, <1>7, <1>8 DEF d

LEMMA QuotedDef ==
  ASSUME NEW text \in Seq(Token)
  PROVE  /\ Quoted(text) \in [0 .. Len(text) -> BOOLEAN] /\ Quoted(text)[0] = FALSE
         /\ \A i \in DOMAIN text :
              Quoted(text)[i] = IF text[i] = "quote" THEN ~Quoted(text)[i - 1] ELSE Quoted(text)[i - 1]
  <1> DEFINE n == Len(text)
             step == [a \in (0 + 1 .. n) \X BOOLEAN |-> IF text[a[1]] = "quote" THEN ~a[2] ELSE a[2]]
             Body(q) == [i \in 0 .. n |->
                           IF i = 0 THEN FALSE ELSE IF text[i] = "quote" THEN ~q[i - 1] ELSE q[i - 1]]
             q == Quoted(text)
  <1>1. /\ 0 \in Nat /\ n \in Nat /\ 0 <= n /\ FALSE \in BOOLEAN
        /\ step \in [(0 + 1 .. n) \X BOOLEAN -> BOOLEAN] /\ DOMAIN text = 1 .. n
    <2>1. ASSUME NEW a \in (0 + 1 .. n) \X BOOLEAN
          PROVE  (IF text[a[1]] = "quote" THEN ~a[2] ELSE a[2]) \in BOOLEAN
      OBVIOUS
    <2>2. step \in [(0 + 1 .. n) \X BOOLEAN -> BOOLEAN]
      BY <2>1, Zenon
    <2> QED
      BY <2>2
  <1>2. PICK f \in [0 .. n -> BOOLEAN] : Iterates(f, 0, n, FALSE, step)
    <2> HIDE DEF step, n
    <2> QED
      BY <1>1, Recursion
  <1>3. f = Body(f)
    <2>1. ASSUME NEW i \in 0 .. n PROVE f[i] = Body(f)[i]
      <3>1. CASE i # 0
        <4>1. i \in 0 + 1 .. n /\ i - 1 \in 0 .. n
          BY <3>1
        <4>2. f[i - 1] \in BOOLEAN /\ f[i] = step[<<i, f[i - 1]>>]
          BY <1>2, <4>1, Zenon DEF Iterates
        <4>3. step[<<i, f[i - 1]>>] = IF text[i] = "quote" THEN ~f[i - 1] ELSE f[i - 1]
          BY <4>1, <4>2
        <4> QED
          BY <3>1, <4>2, <4>3, Zenon
      <3>2. CASE i = 0
        <4>1. f[0] = FALSE
          BY <1>2 DEF Iterates
        <4> QED
          BY <3>2, <4>1
      <3> QED
        BY <3>1, <3>2
    <2>2. DOMAIN f = 0 .. n /\ DOMAIN Body(f) = 0 .. n /\ f = [i \in 0 .. n |-> f[i]]
      OBVIOUS
    <2>3. Body(f) = [i \in 0 .. n |-> Body(f)[i]]
      OBVIOUS
    <2> HIDE DEF Body
    <2> QED
      BY <2>1, <2>2, <2>3
  <1>4. q = Body(q)
    BY <1>3 DEF Quoted
  <1> HIDE DEF q
  <1>5. q[0] = FALSE
    BY <1>4
  <1>6. ASSUME NEW i \in 1 .. n PROVE q[i] = IF text[i] = "quote" THEN ~q[i - 1] ELSE q[i - 1]
    <2>1. i \in 0 .. n /\ i # 0
      OBVIOUS
    <2> QED
      BY <1>4, <2>1, Zenon
  <1>7. \A i \in 0 .. n : q[i] \in BOOLEAN
    <2>1. q[0] \in BOOLEAN
      BY <1>5
    <2>2. ASSUME NEW i \in 0 .. n - 1, q[i] \in BOOLEAN PROVE q[i + 1] \in BOOLEAN
      <3>1. i + 1 \in 1 .. n /\ (i + 1) - 1 = i
        OBVIOUS
      <3>2. q[i + 1] = IF text[i + 1] = "quote" THEN ~q[i] ELSE q[i]
        BY <1>6, <3>1
      <3> QED
        BY <2>2, <3>2, Zenon
    <2> HIDE DEF n
    <2> DEFINE D == BOOLEAN
    <2>3. q[0] \in D /\ \A i \in 0 .. n - 1 : q[i] \in D => q[i + 1] \in D
      BY <2>1, <2>2, Zenon
    <2> HIDE DEF D
    <2>4. \A i \in 0 .. n : q[i] \in D
      BY <1>1, <2>3, AllIn
    <2> QED
      BY <2>4 DEF D
  <1>8. q \in [0 .. n -> BOOLEAN]
    BY <1>4, <1>7
  <1> QED
    BY <1>1, <1>5, <1>6, <1>8 DEF q

LEMMA LookAheadDef ==
  ASSUME NEW text \in Seq(Token), NEW p \in 0 .. Len(text)
  PROVE  /\ LookAhead(text, p) \in [p .. Len(text) -> {"code", "line", "block"}]
         /\ LookAhead(text, p)[p] = "code"
         /\ \A j \in p + 1 .. Len(text) :
              LookAhead(text, p)[j] = AfterComment(LookAhead(text, p)[j - 1], text[j])
  <1> DEFINE n == Len(text)
             D == {"code", "line", "block"}
             step == [a \in (p + 1 .. n) \X D |-> AfterComment(a[2], text[a[1]])]
             Body(m) == [j \in p .. n |-> IF j = p THEN "code" ELSE AfterComment(m[j - 1], text[j])]
             m == LookAhead(text, p)
  <1>0. ASSUME NEW mode \in D, NEW token PROVE AfterComment(mode, token) \in D
    BY DEF AfterComment
  <1>1. /\ p \in Nat /\ n \in Nat /\ p <= n /\ "code" \in D
        /\ step \in [(p + 1 .. n) \X D -> D]
    BY <1>0
  <1>2. PICK f \in [p .. n -> D] : Iterates(f, p, n, "code", step)
    <2> HIDE DEF step, n, D
    <2> QED
      BY <1>1, Recursion
  <1>3. f = Body(f)
    <2>1. ASSUME NEW i \in p .. n PROVE f[i] = Body(f)[i]
      <3>1. CASE i # p
        <4>1. i \in p + 1 .. n /\ i - 1 \in p .. n
          BY <3>1
        <4>2. f[i - 1] \in D /\ f[i] = step[<<i, f[i - 1]>>]
          BY <1>2, <4>1, Zenon DEF Iterates
        <4> QED
          BY <3>1, <4>1, <4>2
      <3> QED
        BY <1>2, <3>1 DEF Iterates
    <2>2. DOMAIN f = p .. n /\ DOMAIN Body(f) = p .. n /\ f = [i \in p .. n |-> f[i]]
      OBVIOUS
    <2>3. Body(f) = [i \in p .. n |-> Body(f)[i]]
      OBVIOUS
    <2> HIDE DEF Body
    <2> QED
      BY <2>1, <2>2, <2>3
  <1>4. m = Body(m)
    BY <1>3 DEF LookAhead
  <1> HIDE DEF m
  <1>5. m[p] = "code" /\ \A i \in p + 1 .. n : m[i] = AfterComment(m[i - 1], text[i])
    BY <1>4
  <1>6. \A i \in p .. n : m[i] \in D
    <2>1. m[p] \in D
      BY <1>5
    <2>2. ASSUME NEW i \in p .. n - 1, m[i] \in D PROVE m[i + 1] \in D
      <3>1. i + 1 \in p + 1 .. n /\ (i + 1) - 1 = i
        OBVIOUS
      <3> QED
        BY <1>0, <1>5, <2>2, <3>1
    <2> HIDE DEF n, D
    <2> QED
      BY <1>1, <2>1, <2>2, AllIn
  <1>7. m \in [p .. n -> D]
    BY <1>4, <1>6
  <1> QED
    BY <1>5, <1>7 DEF m

-----------------------------------------------------------------------------
(* Least and greatest; strip() *)

LEMMA Least ==
  ASSUME NEW S, S \subseteq Nat, S # {}
  PROVE  \E x \in S : \A y \in S : x <= y
  <1> DEFINE R == OpToRel(<, Nat)
  <1>1. IsWellFoundedOn(R, Nat)
    BY NatLessThanWellFounded
  <1>2. \A x, y \in Nat : y < x => <<y, x>> \in R
    BY DEF OpToRel
  <1> HIDE DEF R
  <1>3. PICK x \in S : \A y \in S : ~(<<y, x>> \in R)
    BY <1>1, WFMin
  <1>4. ASSUME NEW y \in S PROVE x <= y
    <2>1. x \in Nat /\ y \in Nat /\ ~(y < x)
      BY <1>2, <1>3
    <2> QED
      BY <2>1
  <1> QED
    BY <1>4

LEMMA Greatest ==
  ASSUME NEW n \in Nat, NEW S, S \subseteq 1 .. n, S # {}
  PROVE  \E x \in S : \A y \in S : y <= x
  <1> DEFINE T == {n - x : x \in S}
  <1>0. \A x \in S : x \in Nat /\ n - x \in Nat
    OBVIOUS
  <1>1. T \subseteq Nat /\ T # {}
    BY <1>0
  <1>2. \A x \in S : n - x \in T
    OBVIOUS
  <1>3. \A t \in T : \E x \in S : t = n - x
    OBVIOUS
  <1> HIDE DEF T
  <1>4. PICK t \in T : \A y \in T : t <= y
    BY <1>1, Least
  <1>5. PICK x \in S : t = n - x
    BY <1>3
  <1>6. ASSUME NEW y \in S PROVE y <= x
    <2>1. n - x <= n - y /\ x \in Nat /\ y \in Nat
      BY <1>0, <1>2, <1>4, <1>5
    <2> QED
      BY <2>1
  <1> QED
    BY <1>6

\* Nothing but new lines.
Blank(part) == \A i \in DOMAIN part : part[i] = "newline"

\* a and b are where the text without its blank ends begins and ends.
Ends(part, a, b) ==
  /\ a \in DOMAIN part /\ b \in DOMAIN part /\ a <= b
  /\ part[a] # "newline" /\ part[b] # "newline"
  /\ \A i \in DOMAIN part : i < a \/ b < i => part[i] = "newline"

LEMMA StrippedBlank ==
  ASSUME NEW part \in Seq(Token), Blank(part)
  PROVE  Stripped(part) = <<>>
  BY DEF Stripped, Blank

LEMMA EndsExist ==
  ASSUME NEW part \in Seq(Token), ~Blank(part)
  PROVE  \E a, b \in DOMAIN part : Ends(part, a, b)
  <1> DEFINE told == {i \in DOMAIN part : part[i] # "newline"}
  <1>1. told \subseteq 1 .. Len(part) /\ told \subseteq Nat /\ told # {} /\ DOMAIN part = 1 .. Len(part)
        /\ Len(part) \in Nat
    BY DEF Blank
  <1>2. \A i \in DOMAIN part : i \in told <=> part[i] # "newline"
    OBVIOUS
  <1> HIDE DEF told
  <1>3. PICK a \in told : \A y \in told : a <= y
    BY <1>1, Least
  <1>4. PICK b \in told : \A y \in told : y <= b
    BY <1>1, Greatest
  <1>5. a \in 1 .. Len(part) /\ b \in 1 .. Len(part) /\ a <= b /\ part[a] # "newline" /\ part[b] # "newline"
    BY <1>1, <1>2, <1>3, <1>4
  <1>6. ASSUME NEW i \in DOMAIN part, i < a \/ b < i PROVE part[i] = "newline"
    <2>1. i \in told => a <= i /\ i <= b
      BY <1>3, <1>4
    <2>2. i \in Nat
      BY <1>1
    <2> QED
      BY <1>2, <1>5, <1>6, <2>1, <2>2
  <1> QED
    BY <1>1, <1>5, <1>6 DEF Ends

LEMMA StrippedSubSeq ==
  ASSUME NEW part \in Seq(Token), NEW a, NEW b, Ends(part, a, b)
  PROVE  Stripped(part) = SubSeq(part, a, b)
  <1> DEFINE told == {i \in DOMAIN part : part[i] # "newline"}
             x == CHOOSE i \in told : \A j \in told : i <= j
             y == CHOOSE i \in told : \A j \in told : j <= i
  <1>1. DOMAIN part = 1 .. Len(part) /\ a \in told /\ b \in told
        /\ (\A j \in told : a <= j) /\ (\A j \in told : j <= b) /\ told \subseteq Nat
    BY DEF Ends
  <1>2. told # {}
    BY <1>1
  <1>3. Stripped(part) = SubSeq(part, x, y)
    BY <1>2 DEF Stripped
  <1> HIDE DEF told
  <1>4. x = a
    <2>1. x \in told /\ \A j \in told : x <= j
      BY <1>1
    <2>2. x <= a /\ a <= x /\ x \in Nat /\ a \in Nat
      BY <1>1, <2>1
    <2> QED
      BY <2>2
  <1>5. y = b
    <2>1. y \in told /\ \A j \in told : j <= y
      BY <1>1
    <2>2. y <= b /\ b <= y /\ y \in Nat /\ b \in Nat
      BY <1>1, <2>1
    <2> QED
      BY <2>2
  <1>6. Stripped(part) = SubSeq(part, a, b)
    BY <1>3, <1>4, <1>5
  <1> QED
    BY <1>6

LEMMA StrippedEnds ==
  ASSUME NEW part \in Seq(Token), NEW a \in 1 .. Len(part), NEW b \in 1 .. Len(part), Ends(part, a, b)
  PROVE  /\ Stripped(part) \in Seq(Token) /\ Len(Stripped(part)) = b - a + 1
         /\ \A i \in 1 .. b - a + 1 : Stripped(part)[i] = part[a + i - 1]
  <1>1. Stripped(part) = SubSeq(part, a, b)
    BY StrippedSubSeq
  <1>2. a <= b
    BY DEF Ends
  <1> QED
    BY <1>1, <1>2, SubSeqProperties

LEMMA StrippedType ==
  ASSUME NEW part \in Seq(Token)
  PROVE  Stripped(part) \in Seq(Token) /\ (Stripped(part) = <<>> <=> Blank(part))
  <1>1. CASE Blank(part)
    <2>1. Stripped(part) = <<>>
      BY <1>1, StrippedBlank
    <2> QED
      BY <1>1, <2>1
  <1>2. CASE ~Blank(part)
    <2>1. PICK a, b \in DOMAIN part : Ends(part, a, b)
      BY <1>2, EndsExist
    <2>2. Stripped(part) \in Seq(Token) /\ Len(Stripped(part)) = b - a + 1 /\ b - a + 1 > 0
      <3>1. a \in 1 .. Len(part) /\ b \in 1 .. Len(part) /\ a <= b
        BY <2>1 DEF Ends
      <3> QED
        BY <2>1, <3>1, StrippedEnds
    <2>3. Stripped(part) # <<>>
      BY <2>2
    <2> QED
      BY <1>2, <2>2, <2>3
  <1> QED
    BY <1>1, <1>2

\* Blank ends do not count.
LEMMA StrippedPadded ==
  ASSUME NEW u \in Seq(Token), NEW part \in Seq(Token), NEW v \in Seq(Token), Blank(u), Blank(v)
  PROVE  Stripped(u \o part \o v) = Stripped(part)
  <1> DEFINE w == u \o part \o v
  <1>1. /\ w \in Seq(Token) /\ Len(w) = Len(u) + Len(part) + Len(v)
        /\ \A i \in 1 .. Len(u) : w[i] = u[i]
        /\ \A i \in 1 .. Len(part) : w[Len(u) + i] = part[i]
        /\ \A i \in 1 .. Len(v) : w[Len(u) + Len(part) + i] = v[i]
    OBVIOUS
  <1>2. /\ DOMAIN w = 1 .. Len(w) /\ DOMAIN part = 1 .. Len(part)
        /\ DOMAIN u = 1 .. Len(u) /\ DOMAIN v = 1 .. Len(v)
        /\ Len(u) \in Nat /\ Len(v) \in Nat /\ Len(part) \in Nat
    BY <1>1
  <1> HIDE DEF w
  <1>3. ASSUME NEW i \in DOMAIN w, i <= Len(u) \/ Len(u) + Len(part) < i PROVE w[i] = "newline"
    <2>1. CASE i <= Len(u)
      BY <1>1, <1>2, <2>1 DEF Blank
    <2>2. CASE Len(u) + Len(part) < i
      <3> DEFINE j == i - Len(u) - Len(part)
      <3>1. j \in 1 .. Len(v) /\ i = Len(u) + Len(part) + j
        BY <1>1, <1>2, <2>2
      <3> HIDE DEF j
      <3> QED
        BY <1>1, <1>2, <3>1 DEF Blank
    <2> QED
      BY <1>3, <2>1, <2>2
  <1>4. ASSUME NEW i \in DOMAIN w, Len(u) < i, i <= Len(u) + Len(part)
        PROVE  i - Len(u) \in 1 .. Len(part) /\ w[i] = part[i - Len(u)]
    <2>1. i - Len(u) \in 1 .. Len(part) /\ i = Len(u) + (i - Len(u))
      BY <1>2, <1>4
    <2> QED
      BY <1>1, <2>1
  <1>5. CASE Blank(part)
    <2>1. \A i \in DOMAIN w : w[i] = "newline"
      BY <1>2, <1>3, <1>4, <1>5 DEF Blank
    <2> QED
      BY <1>1, <1>5, <2>1, StrippedBlank DEF Blank, w
  <1>6. CASE ~Blank(part)
    <2>1. PICK a, b \in DOMAIN part : Ends(part, a, b)
      BY <1>6, EndsExist
    <2>2. Ends(w, Len(u) + a, Len(u) + b)
      <3>1. Len(u) + a \in DOMAIN w /\ Len(u) + b \in DOMAIN w /\ Len(u) + a <= Len(u) + b
            /\ w[Len(u) + a] = part[a] /\ w[Len(u) + b] = part[b]
        BY <1>1, <1>2, <2>1 DEF Ends
      <3>2. ASSUME NEW i \in DOMAIN w, i < Len(u) + a \/ Len(u) + b < i PROVE w[i] = "newline"
        <4>1. CASE Len(u) < i /\ i <= Len(u) + Len(part)
          <5>1. i - Len(u) \in DOMAIN part /\ w[i] = part[i - Len(u)]
            BY <1>2, <1>4, <4>1
          <5>2. i - Len(u) < a \/ b < i - Len(u)
            BY <1>2, <2>1, <3>2
          <5> QED
            BY <2>1, <5>1, <5>2 DEF Ends
        <4>2. CASE ~(Len(u) < i /\ i <= Len(u) + Len(part))
          BY <1>2, <1>3, <4>2
        <4> QED
          BY <4>1, <4>2
      <3> QED
        BY <2>1, <3>1, <3>2 DEF Ends
    <2>3. a \in Nat /\ b \in Nat /\ a <= b /\ (Len(u) + b) - (Len(u) + a) + 1 = b - a + 1
      BY <1>2, <2>1 DEF Ends
    <2>4. /\ Stripped(w) \in Seq(Token) /\ Len(Stripped(w)) = b - a + 1
          /\ \A i \in 1 .. b - a + 1 : Stripped(w)[i] = w[Len(u) + a + i - 1]
      <3>1. Len(u) + a \in 1 .. Len(w) /\ Len(u) + b \in 1 .. Len(w) /\ Len(u) + a <= Len(u) + b
        BY <1>1, <1>2, <2>1, <2>3
      <3> DEFINE c == Len(u) + a
                 d == Len(u) + b
      <3>2. c \in 1 .. Len(w) /\ d \in 1 .. Len(w) /\ Ends(w, c, d)
        BY <2>2, <3>1
      <3> HIDE DEF c, d
      <3>3. /\ Stripped(w) \in Seq(Token) /\ Len(Stripped(w)) = d - c + 1
            /\ \A i \in 1 .. d - c + 1 : Stripped(w)[i] = w[c + i - 1]
        BY <1>1, <3>2, StrippedEnds
      <3>4. d - c + 1 = b - a + 1 /\ \A i \in Nat : c + i - 1 = Len(u) + a + i - 1
        BY <2>3, <1>2 DEF c, d
      <3> QED
        BY <3>3, <3>4
    <2>5. /\ Stripped(part) \in Seq(Token) /\ Len(Stripped(part)) = b - a + 1
          /\ \A i \in 1 .. b - a + 1 : Stripped(part)[i] = part[a + i - 1]
      <3>1. a \in 1 .. Len(part) /\ b \in 1 .. Len(part) /\ Ends(part, a, b)
        BY <1>2, <2>1
      <3> QED
        BY <3>1, StrippedEnds
    <2>6. ASSUME NEW i \in 1 .. b - a + 1 PROVE Stripped(w)[i] = Stripped(part)[i]
      <3>1. a + i - 1 \in 1 .. Len(part) /\ Len(u) + a + i - 1 = Len(u) + (a + i - 1)
        BY <1>2, <2>1, <2>3
      <3>2. w[Len(u) + (a + i - 1)] = part[a + i - 1]
        BY <1>1, <3>1
      <3> QED
        BY <2>4, <2>5, <3>1, <3>2
    <2>7. Stripped(w) = Stripped(part)
      BY <2>4, <2>5, <2>6, SeqEqual
    <2> QED
      BY <2>7 DEF w
  <1> QED
    BY <1>5, <1>6

\* Blank text on one side.
LEMMA StrippedRight ==
  ASSUME NEW part \in Seq(Token), NEW v \in Seq(Token), Blank(v)
  PROVE  Stripped(part \o v) = Stripped(part)
  <1>1. << >> \in Seq(Token) /\ Blank(<< >>) /\ << >> \o part = part
    BY DEF Blank
  <1>2. Stripped(<< >> \o part \o v) = Stripped(part)
    BY <1>1, StrippedPadded
  <1> QED
    BY <1>1, <1>2

LEMMA StrippedLeft ==
  ASSUME NEW part \in Seq(Token), NEW u \in Seq(Token), Blank(u)
  PROVE  Stripped(u \o part) = Stripped(part)
  <1>1. << >> \in Seq(Token) /\ Blank(<< >>) /\ u \o part \o << >> = u \o part
    BY DEF Blank
  <1>2. Stripped(u \o part \o << >>) = Stripped(part)
    BY <1>1, StrippedPadded
  <1> QED
    BY <1>1, <1>2

-----------------------------------------------------------------------------
(* The scans *)

Scans == [mode : {"code", "line", "block", "string"}, current : Seq(Token), done : Seq(Seq(Token))]

Start == [mode |-> "code", current |-> << >>, done |-> << >>]

LEMMA EndedType ==
  ASSUME NEW scan \in Scans
  PROVE  Ended(scan) \in Scans
  <1>1. scan.current \in Seq(Token) /\ scan.done \in Seq(Seq(Token))
    BY DEF Scans
  <1>2. Stripped(scan.current) \in Seq(Token)
    BY <1>1, StrippedType
  <1>3. Append(scan.done, Stripped(scan.current)) \in Seq(Seq(Token))
    BY <1>1, <1>2, AppendProperties
  <1> DEFINE done == IF Stripped(scan.current) = << >> THEN scan.done
                     ELSE Append(scan.done, Stripped(scan.current))
  <1>4. done \in Seq(Seq(Token)) /\ << >> \in Seq(Token)
    BY <1>1, <1>3
  <1>5. Ended(scan) = [scan EXCEPT !.done = done, !.current = << >>]
    BY DEF Ended
  <1> HIDE DEF done
  <1> QED
    BY <1>4, <1>5, Zenon DEF Scans

LEMMA ScannedType ==
  ASSUME NEW text \in Seq(Token), NEW scan \in Scans, NEW i \in 1 .. Len(text)
  PROVE  Scanned(scan, text, i) \in Scans
  <1>1. text[i] \in Token /\ "quote" \in Token /\ "newline" \in Token
    BY ElementOfSeq DEF Token
  <1>2. scan.current \in Seq(Token) /\ scan.done \in Seq(Seq(Token))
    BY DEF Scans
  <1>3. \A t \in Token : Append(scan.current, t) \in Seq(Token)
    BY <1>2, AppendProperties
  <1>4. InCode(scan, text, i) \in Scans
    <2>1. [scan EXCEPT !.mode = "line"] \in Scans /\ [scan EXCEPT !.mode = "block"] \in Scans
      BY DEF Scans
    <2>2. [scan EXCEPT !.mode = "string", !.current = Append(@, "quote")] \in Scans
      BY <1>1, <1>3 DEF Scans
    <2>3. [scan EXCEPT !.current = Append(@, text[i])] \in Scans
      BY <1>1, <1>3 DEF Scans
    <2> QED
      BY <2>1, <2>2, <2>3, EndedType, Zenon DEF InCode
  <1>5. [scan EXCEPT !.mode = "code", !.current = Append(@, "newline")] \in Scans
    BY <1>1, <1>3 DEF Scans
  <1>6. [scan EXCEPT !.mode = "code"] \in Scans
    BY DEF Scans
  <1>7. [scan EXCEPT !.mode = IF text[i] = "quote" THEN "code" ELSE "string",
                      !.current = Append(@, text[i])] \in Scans
    BY <1>1, <1>3 DEF Scans
  <1> HIDE DEF Scans
  <1> QED
    BY <1>4, <1>5, <1>6, <1>7, Zenon DEF Scanned

LEMMA ScanDef ==
  ASSUME NEW text \in Seq(Token)
  PROVE  /\ Scan(text) \in [0 .. Len(text) -> Scans] /\ Scan(text)[0] = Start
         /\ \A i \in 1 .. Len(text) : Scan(text)[i] = Scanned(Scan(text)[i - 1], text, i)
  <1> DEFINE n == Len(text)
             step == [a \in (0 + 1 .. n) \X Scans |-> Scanned(a[2], text, a[1])]
             Body(s) == [i \in 0 .. n |-> IF i = 0 THEN Start ELSE Scanned(s[i - 1], text, i)]
             s == Scan(text)
  <1>0. Start \in Scans
    BY DEF Start, Scans
  <1>1. /\ 0 \in Nat /\ n \in Nat /\ 0 <= n /\ Start \in Scans
        /\ step \in [(0 + 1 .. n) \X Scans -> Scans]
    BY <1>0, ScannedType
  <1>2. PICK f \in [0 .. n -> Scans] : Iterates(f, 0, n, Start, step)
    <2> HIDE DEF step, n
    <2> QED
      BY <1>1, Recursion
  <1>3. f = Body(f)
    <2>1. ASSUME NEW i \in 0 .. n PROVE f[i] = Body(f)[i]
      <3>1. CASE i # 0
        <4>1. i \in 0 + 1 .. n /\ i - 1 \in 0 .. n
          BY <3>1
        <4>2. f[i - 1] \in Scans /\ f[i] = step[<<i, f[i - 1]>>]
          BY <1>2, <4>1, Zenon DEF Iterates
        <4> QED
          BY <3>1, <4>1, <4>2
      <3> QED
        BY <1>2, <3>1 DEF Iterates
    <2>2. DOMAIN f = 0 .. n /\ DOMAIN Body(f) = 0 .. n /\ f = [i \in 0 .. n |-> f[i]]
      OBVIOUS
    <2>3. Body(f) = [i \in 0 .. n |-> Body(f)[i]]
      OBVIOUS
    <2> HIDE DEF Body
    <2> QED
      BY <2>1, <2>2, <2>3
  <1>4. s = Body(s)
    BY <1>3 DEF Scan, Start
  <1> HIDE DEF s
  <1>5. s[0] = Start /\ \A i \in 1 .. n : s[i] = Scanned(s[i - 1], text, i)
    BY <1>4
  <1>6. \A i \in 0 .. n : s[i] \in Scans
    <2>1. s[0] \in Scans
      BY <1>0, <1>5
    <2>2. ASSUME NEW i \in 0 .. n - 1, s[i] \in Scans PROVE s[i + 1] \in Scans
      <3>1. i + 1 \in 1 .. n /\ (i + 1) - 1 = i
        OBVIOUS
      <3>2. s[i + 1] = Scanned(s[i], text, i + 1)
        BY <1>5, <3>1
      <3> QED
        BY <2>2, <3>1, <3>2, ScannedType
    <2> HIDE DEF n
    <2> QED
      BY <1>1, <2>1, <2>2, AllIn
  <1>7. s \in [0 .. n -> Scans]
    BY <1>4, <1>6
  <1> QED
    BY <1>5, <1>7 DEF s

Cuttings == [parts : Seq(Seq(Token)), current : Seq(Token), depth : Int, quoted : BOOLEAN]

Uncut == [parts |-> << >>, current |-> << >>, depth |-> 0, quoted |-> FALSE]

LEMMA CutType ==
  ASSUME NEW cut \in Cuttings, NEW token \in Token
  PROVE  Cut(cut, token) \in Cuttings
  <1>1. /\ cut.current \in Seq(Token) /\ cut.parts \in Seq(Seq(Token))
        /\ cut.depth \in Int /\ cut.quoted \in BOOLEAN
    BY DEF Cuttings
  <1>2. /\ Append(cut.current, token) \in Seq(Token) /\ << >> \in Seq(Token)
        /\ Append(cut.parts, Stripped(cut.current)) \in Seq(Seq(Token))
    <2>1. Stripped(cut.current) \in Seq(Token)
      BY <1>1, StrippedType
    <2> QED
      BY <1>1, <2>1, AppendProperties
  <1>3. [cut EXCEPT !.quoted = ~@, !.current = Append(@, token)] \in Cuttings
    <2>1. (~cut.quoted) \in BOOLEAN
      OBVIOUS
    <2> QED
      BY <1>1, <1>2, <2>1, Zenon DEF Cuttings
  <1>4. [cut EXCEPT !.current = Append(@, token)] \in Cuttings
    BY <1>1, <1>2 DEF Cuttings
  <1>5. [cut EXCEPT !.depth = @ + 1, !.current = Append(@, token)] \in Cuttings
    <2>1. cut.depth + 1 \in Int
      BY <1>1
    <2> QED
      BY <1>2, <2>1, Zenon DEF Cuttings
  <1>6. [cut EXCEPT !.depth = @ - 1, !.current = Append(@, token)] \in Cuttings
    <2>1. cut.depth - 1 \in Int
      BY <1>1
    <2> QED
      BY <1>2, <2>1, Zenon DEF Cuttings
  <1>7. [cut EXCEPT !.parts = Append(@, Stripped(cut.current)), !.current = << >>] \in Cuttings
    BY <1>1, <1>2 DEF Cuttings
  <1> QED
    BY <1>3, <1>4, <1>5, <1>6, <1>7, Zenon DEF Cut, CutOutside

LEMMA CutsDef ==
  ASSUME NEW body \in Seq(Token)
  PROVE  /\ Cuts(body) \in [0 .. Len(body) -> Cuttings] /\ Cuts(body)[0] = Uncut
         /\ \A i \in 1 .. Len(body) : Cuts(body)[i] = Cut(Cuts(body)[i - 1], body[i])
  <1> DEFINE n == Len(body)
             step == [a \in (0 + 1 .. n) \X Cuttings |-> Cut(a[2], body[a[1]])]
             Body(s) == [i \in 0 .. n |-> IF i = 0 THEN Uncut ELSE Cut(s[i - 1], body[i])]
             s == Cuts(body)
  <1>0. Uncut \in Cuttings /\ \A i \in 1 .. n : body[i] \in Token
    BY ElementOfSeq DEF Uncut, Cuttings
  <1>1. /\ 0 \in Nat /\ n \in Nat /\ 0 <= n /\ Uncut \in Cuttings
        /\ step \in [(0 + 1 .. n) \X Cuttings -> Cuttings]
    BY <1>0, CutType
  <1>2. PICK f \in [0 .. n -> Cuttings] : Iterates(f, 0, n, Uncut, step)
    <2> HIDE DEF step, n
    <2> QED
      BY <1>1, Recursion
  <1>3. f = Body(f)
    <2>1. ASSUME NEW i \in 0 .. n PROVE f[i] = Body(f)[i]
      <3>1. CASE i # 0
        <4>1. i \in 0 + 1 .. n /\ i - 1 \in 0 .. n
          BY <3>1
        <4>2. f[i - 1] \in Cuttings /\ f[i] = step[<<i, f[i - 1]>>]
          BY <1>2, <4>1, Zenon DEF Iterates
        <4> QED
          BY <3>1, <4>1, <4>2
      <3> QED
        BY <1>2, <3>1 DEF Iterates
    <2>2. DOMAIN f = 0 .. n /\ DOMAIN Body(f) = 0 .. n /\ f = [i \in 0 .. n |-> f[i]]
      OBVIOUS
    <2>3. Body(f) = [i \in 0 .. n |-> Body(f)[i]]
      OBVIOUS
    <2> HIDE DEF Body
    <2> QED
      BY <2>1, <2>2, <2>3
  <1>4. s = Body(s)
    BY <1>3 DEF Cuts, Uncut
  <1> HIDE DEF s
  <1>5. s[0] = Uncut /\ \A i \in 1 .. n : s[i] = Cut(s[i - 1], body[i])
    BY <1>4
  <1>6. \A i \in 0 .. n : s[i] \in Cuttings
    <2>1. s[0] \in Cuttings
      BY <1>0, <1>5
    <2>2. ASSUME NEW i \in 0 .. n - 1, s[i] \in Cuttings PROVE s[i + 1] \in Cuttings
      <3>1. i + 1 \in 1 .. n /\ (i + 1) - 1 = i
        OBVIOUS
      <3>2. s[i + 1] = Cut(s[i], body[i + 1])
        BY <1>5, <3>1
      <3> QED
        BY <1>0, <2>2, <3>1, <3>2, CutType
    <2> HIDE DEF n
    <2> QED
      BY <1>1, <2>1, <2>2, AllIn
  <1>7. s \in [0 .. n -> Cuttings]
    BY <1>4, <1>6
  <1> QED
    BY <1>5, <1>7 DEF s

-----------------------------------------------------------------------------
(* Joining sequences *)

\* f[i] is the first i of the sequences, one after the other.
Joins(f, seqs) == f[0] = << >> /\ \A i \in 1 .. Len(seqs) : f[i] = f[i - 1] \o seqs[i]

LEMMA FlattenDef ==
  ASSUME NEW T, NEW seqs \in Seq(Seq(T))
  PROVE  \E f \in [0 .. Len(seqs) -> Seq(T)] : Joins(f, seqs) /\ f[Len(seqs)] = FlattenSeq(seqs)
  <1> DEFINE n == Len(seqs)
             step == [a \in (0 + 1 .. n) \X Seq(T) |-> a[2] \o seqs[a[1]]]
  <1>0. \A i \in 1 .. n : seqs[i] \in Seq(T)
    BY ElementOfSeq
  <1>1. /\ 0 \in Nat /\ n \in Nat /\ 0 <= n /\ << >> \in Seq(T)
        /\ step \in [(0 + 1 .. n) \X Seq(T) -> Seq(T)]
    <2>1. ASSUME NEW a \in (0 + 1 .. n) \X Seq(T) PROVE a[2] \o seqs[a[1]] \in Seq(T)
      <3>1. a[1] \in 1 .. n /\ a[2] \in Seq(T)
        OBVIOUS
      <3> QED
        BY <1>0, <3>1, ConcatProperties
    <2>2. step \in [(0 + 1 .. n) \X Seq(T) -> Seq(T)]
      BY <2>1, Zenon
    <2> QED
      BY <2>2
  <1>2. PICK f \in [0 .. n -> Seq(T)] : Iterates(f, 0, n, << >>, step)
    <2> HIDE DEF step, n
    <2> QED
      BY <1>1, Recursion
  <1>3. Joins(f, seqs)
    <2>1. ASSUME NEW i \in 1 .. n PROVE f[i] = f[i - 1] \o seqs[i]
      <3>1. i \in 0 + 1 .. n /\ i - 1 \in 0 .. n
        OBVIOUS
      <3>2. f[i - 1] \in Seq(T) /\ f[i] = step[<<i, f[i - 1]>>]
        BY <1>2, <3>1, Zenon DEF Iterates
      <3>3. step[<<i, f[i - 1]>>] = f[i - 1] \o seqs[i]
        <4>1. <<i, f[i - 1]>> \in (0 + 1 .. n) \X Seq(T)
          BY <3>1, <3>2
        <4> QED
          BY <4>1
      <3> HIDE DEF step
      <3> QED
        BY <3>2, <3>3
    <2>2. f[0] = << >>
      BY <1>2 DEF Iterates
    <2> QED
      BY <2>1, <2>2 DEF Joins
  <1>4. CASE n = 0
    <2>1. FlattenSeq(seqs) = seqs /\ seqs = << >>
      BY <1>4 DEF FlattenSeq
    <2> QED
      BY <1>2, <1>3, <1>4, <2>1 DEF Joins
  <1>5. CASE n # 0
    <2> DEFINE Body(fl) == [i \in 1 .. n |-> IF i = 1 THEN seqs[i] ELSE fl[i - 1] \o seqs[i]]
               fl == CHOOSE g : g = Body(g)
               g0 == [i \in 1 .. n |-> f[i]]
    <2>1. FlattenSeq(seqs) = fl[n]
      BY <1>5 DEF FlattenSeq
    <2>2. f[1] = seqs[1] /\ 1 \in 1 .. n
      <3>1. 1 \in 1 .. n
        BY <1>1, <1>5
      <3>2. f[1] = << >> \o seqs[1] /\ seqs[1] \in Seq(T)
        <4>1. f[1] = f[1 - 1] \o seqs[1]
          BY <1>3, <3>1 DEF Joins
        <4>2. 1 - 1 = 0 /\ f[0] = << >> /\ seqs[1] \in Seq(T)
          BY <1>0, <1>3, <3>1 DEF Joins
        <4> QED
          BY <4>1, <4>2
      <3> QED
        BY <3>1, <3>2
    <2>3. g0 = Body(g0)
      <3>1. ASSUME NEW i \in 1 .. n PROVE g0[i] = Body(g0)[i]
        <4>1. CASE i = 1
          BY <2>2, <4>1
        <4>2. CASE i # 1
          <5>1. i - 1 \in 1 .. n
            BY <4>2
          <5>2. f[i] = f[i - 1] \o seqs[i]
            BY <1>3 DEF Joins
          <5> QED
            BY <4>2, <5>1, <5>2
        <4> QED
          BY <4>1, <4>2
      <3>2. g0 = [i \in 1 .. n |-> g0[i]] /\ Body(g0) = [i \in 1 .. n |-> Body(g0)[i]]
        OBVIOUS
      <3> HIDE DEF g0, Body
      <3> QED
        BY <3>1, <3>2
    <2>4. fl = Body(fl)
      <3> HIDE DEF g0, Body
      <3> QED
        BY <2>3
    <2> HIDE DEF fl
    <2> DEFINE S == {i \in 1 .. n : fl[i] = f[i]}
    <2>5. 1 \in S
      BY <2>2, <2>4
    <2>6. ASSUME NEW i \in 1 .. n - 1, i \in S PROVE i + 1 \in S
      <3>1. i + 1 \in 1 .. n /\ i + 1 # 1 /\ (i + 1) - 1 = i /\ fl[i] = f[i]
        BY <2>6
      <3>2. fl[i + 1] = fl[i] \o seqs[i + 1]
        BY <2>4, <3>1
      <3>3. f[i + 1] = f[i] \o seqs[i + 1]
        BY <1>3, <3>1 DEF Joins
      <3> QED
        BY <3>1, <3>2, <3>3
    <2>7. 1 .. n \subseteq S
      <3> HIDE DEF S, n
      <3> QED
        BY <1>1, <2>5, <2>6, IntervalInduction
    <2>8. n \in 1 .. n
      BY <1>1, <1>5
    <2> QED
      BY <1>2, <1>3, <2>1, <2>7, <2>8
  <1> QED
    BY <1>4, <1>5

\* Where a sequence of tokens stands in a text: after the first p tokens.
Stands(text, p, part) ==
  /\ p \in Nat /\ p + Len(part) <= Len(text)
  /\ \A i \in 1 .. Len(part) : text[p + i] = part[i]

\* Each of the joined sequences stands in the result, after those before it.
LEMMA JoinedStands ==
  ASSUME NEW T, NEW seqs \in Seq(Seq(T)), NEW f \in [0 .. Len(seqs) -> Seq(T)], Joins(f, seqs),
         NEW text \in Seq(T), NEW p \in Nat, Stands(text, p, f[Len(seqs)]),
         NEW k \in 1 .. Len(seqs)
  PROVE  /\ Len(f[k]) = Len(f[k - 1]) + Len(seqs[k])
         /\ Stands(text, p + Len(f[k - 1]), seqs[k])
         /\ p + Len(f[k]) <= Len(text)
  <1> DEFINE n == Len(seqs)
  <1>1. n \in Nat /\ Len(text) \in Nat /\ \A i \in 0 .. n : f[i] \in Seq(T) /\ Len(f[i]) \in Nat
    OBVIOUS
  <1>2. ASSUME NEW i \in 1 .. n
        PROVE  /\ i - 1 \in 0 .. n /\ seqs[i] \in Seq(T) /\ Len(seqs[i]) \in Nat
               /\ Len(f[i]) = Len(f[i - 1]) + Len(seqs[i])
               /\ \A j \in 1 .. Len(f[i - 1]) : f[i][j] = f[i - 1][j]
               /\ \A j \in 1 .. Len(seqs[i]) : f[i][Len(f[i - 1]) + j] = seqs[i][j]
    <2>1. i - 1 \in 0 .. n /\ seqs[i] \in Seq(T) /\ f[i - 1] \in Seq(T)
      <3>1. i - 1 \in 0 .. n
        BY <1>1
      <3> QED
        BY <3>1, ElementOfSeq
    <2>2. f[i] = f[i - 1] \o seqs[i]
      BY DEF Joins
    <2> QED
      BY <2>1, <2>2, ConcatProperties
  \* The first i sequences are a prefix of the result.
  <1> DEFINE S == {m \in 0 .. n : /\ Len(f[n - m]) <= Len(f[n])
                                  /\ \A j \in 1 .. Len(f[n - m]) : f[n][j] = f[n - m][j]}
  <1>3. 0 \in S
    BY <1>1
  <1>4. ASSUME NEW m \in 0 .. n - 1, m \in S PROVE m + 1 \in S
    <2> DEFINE i == n - m
    <2>1. i \in 1 .. n /\ i - 1 = n - (m + 1) /\ m + 1 \in 0 .. n
      BY <1>1
    <2>2. Len(f[i]) <= Len(f[n]) /\ \A j \in 1 .. Len(f[i]) : f[n][j] = f[i][j]
      BY <1>4
    <2> HIDE DEF i
    <2>3. Len(f[i - 1]) <= Len(f[n]) /\ \A j \in 1 .. Len(f[i - 1]) : f[n][j] = f[i - 1][j]
      <3>1. /\ Len(f[i]) = Len(f[i - 1]) + Len(seqs[i]) /\ Len(seqs[i]) \in Nat
            /\ \A j \in 1 .. Len(f[i - 1]) : f[i][j] = f[i - 1][j]
        BY <1>2, <2>1
      <3>2. Len(f[i - 1]) \in Nat /\ Len(f[n]) \in Nat /\ Len(f[i]) \in Nat
        <4>1. i - 1 \in 0 .. n /\ n \in 0 .. n /\ i \in 0 .. n
          BY <1>1, <2>1
        <4> HIDE DEF n
        <4> QED
          BY <1>1, <4>1
      <3>3. Len(f[i - 1]) <= Len(f[i])
        <4> DEFINE a == Len(f[i - 1])
                   b == Len(seqs[i])
                   d == Len(f[i])
        <4>1. a \in Nat /\ b \in Nat /\ d = a + b
          BY <3>1, <3>2
        <4> HIDE DEF a, b, d
        <4>2. a <= d
          BY <4>1
        <4> QED
          BY <4>2 DEF a, d
      <3>4. ASSUME NEW j \in 1 .. Len(f[i - 1]) PROVE f[n][j] = f[i - 1][j]
        <4>1. j \in 1 .. Len(f[i])
          BY <3>2, <3>3
        <4> QED
          BY <2>2, <3>1, <4>1
      <3> QED
        BY <2>2, <3>2, <3>3, <3>4
    <2> QED
      BY <2>1, <2>3
  <1>5. 0 .. n \subseteq S
    <2> HIDE DEF S, n
    <2>1. 0 \in Nat
      OBVIOUS
    <2> QED
      BY <1>1, <1>3, <1>4, <2>1, IntervalInduction
  <1>6. Len(f[k]) <= Len(f[n]) /\ \A j \in 1 .. Len(f[k]) : f[n][j] = f[k][j]
    <2> DEFINE m == n - k
    <2>1. m \in 0 .. n /\ n - m = k
      BY <1>1
    <2> HIDE DEF m
    <2>2. m \in S
      BY <1>5, <2>1
    <2> QED
      BY <2>1, <2>2
  <1>7. p + Len(f[n]) <= Len(text) /\ \A j \in 1 .. Len(f[n]) : text[p + j] = f[n][j]
    BY DEF Stands
  <1> DEFINE c == Len(f[k - 1])
             w == seqs[k]
  <1>8. /\ Len(f[k]) = c + Len(w) /\ c \in Nat /\ Len(w) \in Nat
        /\ \A j \in 1 .. Len(w) : f[k][c + j] = w[j]
    BY <1>1, <1>2
  <1>9. Len(f[k]) \in Nat /\ Len(f[n]) \in Nat
    BY <1>1
  <1> HIDE DEF n, S, c, w
  <1>10. p + Len(f[k]) <= Len(text)
    BY <1>1, <1>6, <1>7, <1>9
  <1>11. ASSUME NEW j \in 1 .. Len(w) PROVE text[p + c + j] = w[j]
    <2>1. c + j \in 1 .. Len(f[k]) /\ p + c + j = p + (c + j)
      BY <1>8
    <2>2. c + j \in 1 .. Len(f[n])
      BY <1>6, <1>9, <2>1
    <2>3. text[p + (c + j)] = f[n][c + j]
      BY <1>7, <2>2
    <2>4. f[n][c + j] = f[k][c + j]
      BY <1>6, <2>1
    <2> QED
      BY <1>8, <2>1, <2>3, <2>4
  <1>12. Stands(text, p + c, w)
    BY <1>8, <1>10, <1>11 DEF Stands
  <1> QED
    BY <1>8, <1>10, <1>12 DEF c, w

-----------------------------------------------------------------------------
(* The look-ahead *)

Telling(text, p) ==
  {j \in p + 1 .. Len(text) :
     LookAhead(text, p)[j - 1] = "code" /\ text[j] \notin {"newline", "line", "open"}}

LEMMA AheadDef ==
  ASSUME NEW text \in Seq(Token), NEW p \in 0 .. Len(text)
  PROVE  KeywordAhead(text, p) <=>
           \E j \in Telling(text, p) : text[j] = "keyword" /\ \A k \in Telling(text, p) : j <= k
  <1> DEFINE telling == Telling(text, p)
             first == CHOOSE j \in telling : \A k \in telling : j <= k
  <1>1. KeywordAhead(text, p) <=> telling # {} /\ text[first] = "keyword"
    BY DEF KeywordAhead, Telling
  <1>2. telling \subseteq Nat
    BY DEF Telling
  <1> HIDE DEF telling
  <1>3. CASE telling # {}
    <2>1. first \in telling /\ \A k \in telling : first <= k
      <3>1. \E j \in telling : \A k \in telling : j <= k
        BY <1>2, <1>3, Least
      <3> QED
        BY <3>1
    <2>2. ASSUME NEW j \in telling, \A k \in telling : j <= k PROVE j = first
      <3>1. j <= first /\ first <= j /\ j \in Nat /\ first \in Nat
        BY <1>2, <2>1, <2>2
      <3> HIDE DEF first
      <3> QED
        BY <3>1
    <2> HIDE DEF first
    <2> QED
      BY <1>1, <1>3, <2>1, <2>2 DEF telling
  <1>4. CASE telling = {}
    BY <1>1, <1>4 DEF telling
  <1> QED
    BY <1>3, <1>4

\* What tells nothing can be passed.
LEMMA AheadShift ==
  ASSUME NEW text \in Seq(Token), NEW p \in 0 .. Len(text), NEW q \in p .. Len(text),
         LookAhead(text, p)[q] = "code", \A j \in p + 1 .. q : j \notin Telling(text, p)
  PROVE  KeywordAhead(text, p) <=> KeywordAhead(text, q)
  <1> DEFINE n == Len(text)
             a == LookAhead(text, p)
             b == LookAhead(text, q)
             S == {j \in q .. n : a[j] = b[j]}
  <1>0. n \in Nat /\ p \in Nat /\ q \in Nat /\ p <= q /\ q <= n /\ q \in 0 .. n
    OBVIOUS
  <1>1. \A j \in p + 1 .. n : a[j] = AfterComment(a[j - 1], text[j])
    BY LookAheadDef
  <1>2. b[q] = "code" /\ \A j \in q + 1 .. n : b[j] = AfterComment(b[j - 1], text[j])
    BY <1>0, LookAheadDef
  <1>3. q \in S
    BY <1>0, <1>2
  <1>4. ASSUME NEW j \in q .. n - 1, j \in S PROVE j + 1 \in S
    <2>1. j + 1 \in p + 1 .. n /\ j + 1 \in q + 1 .. n /\ (j + 1) - 1 = j /\ j + 1 \in q .. n
      BY <1>0
    <2>2. a[j] = b[j]
      BY <1>4
    <2>3. a[j + 1] = AfterComment(a[j], text[j + 1]) /\ b[j + 1] = AfterComment(b[j], text[j + 1])
      BY <1>1, <1>2, <2>1
    <2> QED
      BY <2>1, <2>2, <2>3
  <1>5. q .. n \subseteq S
    <2> HIDE DEF S, n
    <2> QED
      BY <1>0, <1>3, <1>4, IntervalInduction
  <1>6. ASSUME NEW j PROVE j \in Telling(text, p) <=> j \in Telling(text, q)
    <2>1. CASE j \in q + 1 .. n
      <3>1. j \in p + 1 .. n /\ j - 1 \in q .. n
        BY <1>0, <2>1
      <3>2. a[j - 1] = b[j - 1]
        BY <1>5, <3>1
      <3> HIDE DEF a, b
      <3>3. j \in Telling(text, p) <=> a[j - 1] = "code" /\ text[j] \notin {"newline", "line", "open"}
        BY <3>1 DEF Telling, a
      <3>4. j \in Telling(text, q) <=> b[j - 1] = "code" /\ text[j] \notin {"newline", "line", "open"}
        BY <2>1 DEF Telling, b
      <3> QED
        BY <3>2, <3>3, <3>4
    <2>2. CASE j \notin q + 1 .. n
      <3>1. j \notin Telling(text, q)
        BY <2>2 DEF Telling
      <3>2. j \notin Telling(text, p)
        <4>1. j \in Telling(text, p) => j \in p + 1 .. n
          BY DEF Telling
        <4>2. j \in p + 1 .. n => j \in p + 1 .. q
          BY <1>0, <2>2
        <4> QED
          BY <4>1, <4>2
      <3> QED
        BY <3>1, <3>2
    <2> QED
      BY <2>1, <2>2
  <1>7. Telling(text, p) = Telling(text, q)
    BY <1>6
  <1>8. KeywordAhead(text, q) <=>
          \E j \in Telling(text, q) : text[j] = "keyword" /\ \A k \in Telling(text, q) : j <= k
    BY <1>0, AheadDef
  <1> QED
    BY <1>7, <1>8, AheadDef

\* The first token that is neither blank nor the start of a comment decides.
LEMMA AheadNow ==
  ASSUME NEW text \in Seq(Token), NEW p \in 0 .. Len(text) - 1,
         text[p + 1] \notin {"newline", "line", "open"}
  PROVE  KeywordAhead(text, p) <=> text[p + 1] = "keyword"
  <1>1. p \in 0 .. Len(text) /\ p + 1 \in p + 1 .. Len(text) /\ (p + 1) - 1 = p
    OBVIOUS
  <1>2. LookAhead(text, p)[p] = "code"
    BY <1>1, LookAheadDef
  <1>3. p + 1 \in Telling(text, p)
    BY <1>1, <1>2 DEF Telling
  <1>4. \A k \in Telling(text, p) : k \in Nat /\ p + 1 <= k
    BY DEF Telling
  <1>5. KeywordAhead(text, p) <=>
          \E j \in Telling(text, p) : text[j] = "keyword" /\ \A k \in Telling(text, p) : j <= k
    BY <1>1, AheadDef
  <1>6. ASSUME NEW j \in Telling(text, p), \A k \in Telling(text, p) : j <= k PROVE j = p + 1
    BY <1>3, <1>4, <1>6
  <1> QED
    BY <1>3, <1>4, <1>5, <1>6

LEMMA AheadEnd ==
  ASSUME NEW text \in Seq(Token)
  PROVE  ~KeywordAhead(text, Len(text))
  <1>1. Len(text) \in 0 .. Len(text) /\ Telling(text, Len(text)) = {}
    BY DEF Telling
  <1> QED
    BY <1>1, AheadDef

\* What a piece is made of.
LEMMA WrittenType ==
  ASSUME NEW piece \in PieceSet
  PROVE  Written(piece) \in Seq(Token) /\ Meant(piece) \in Seq(Token)
  <1>1. piece.of \in Seq(Token) /\ piece.kind \in {"text", "newline", "string", "block", "line", "list"}
    BY DEF PieceSet
  <1>2. piece.kind = "list" \/ piece.kind = "string" \/ piece.kind = "block" \/ piece.kind = "line"
          \/ (piece.kind \in {"text", "newline"} /\ piece.kind \in Token)
    BY <1>1 DEF Token
  <1>3. /\ "quote" \in Token /\ "open" \in Token /\ "close" \in Token /\ "line" \in Token
        /\ "newline" \in Token /\ "(" \in Token /\ ")" \in Token
    BY DEF Token
  <1>4. Written(piece) \in Seq(Token)
    BY <1>1, <1>2, <1>3 DEF Written
  <1> QED
    BY <1>3, <1>4 DEF Meant

LEMMA StandsOne ==
  ASSUME NEW text \in Seq(Token), NEW p \in Nat, NEW a \in Token, Stands(text, p, <<a>>)
  PROVE  p + 1 <= Len(text) /\ p + 1 \in 1 .. Len(text) /\ text[p + 1] = a /\ Len(<<a>>) = 1
  <1>1. Len(<<a>>) = 1 /\ <<a>>[1] = a /\ Len(text) \in Nat
    OBVIOUS
  <1>2. p + 1 <= Len(text) /\ text[p + 1] = a
    BY <1>1 DEF Stands
  <1> QED
    BY <1>1, <1>2

LEMMA StandsBetween ==
  ASSUME NEW text \in Seq(Token), NEW p \in Nat, NEW a \in Token, NEW b \in Token,
         NEW of \in Seq(Token), Stands(text, p, <<a>> \o of \o <<b>>)
  PROVE  /\ Len(<<a>> \o of \o <<b>>) = Len(of) + 2 /\ p + Len(of) + 2 <= Len(text)
         /\ text[p + 1] = a /\ text[p + Len(of) + 2] = b
         /\ \A j \in 1 .. Len(of) : text[p + 1 + j] = of[j]
  <1> DEFINE w == <<a>> \o of \o <<b>>
             n == Len(of)
  <1>1. /\ n \in Nat /\ Len(w) = n + 2 /\ w[1] = a /\ w[n + 2] = b
        /\ \A j \in 1 .. n : w[1 + j] = of[j]
    OBVIOUS
  <1>2. p + Len(w) <= Len(text) /\ \A i \in 1 .. Len(w) : text[p + i] = w[i]
    BY DEF Stands
  <1> HIDE DEF w, n
  <1>3. text[p + 1] = a
    BY <1>1, <1>2
  <1>4. text[p + n + 2] = b
    <2>1. n + 2 \in 1 .. Len(w) /\ p + n + 2 = p + (n + 2)
      BY <1>1
    <2> QED
      BY <1>1, <1>2, <2>1
  <1>5. ASSUME NEW j \in 1 .. n PROVE text[p + 1 + j] = of[j]
    <2>1. 1 + j \in 1 .. Len(w) /\ p + 1 + j = p + (1 + j)
      BY <1>1
    <2> QED
      BY <1>1, <1>2, <2>1
  <1>6. p + n + 2 <= Len(text)
    BY <1>1, <1>2
  <1> QED
    BY <1>1, <1>3, <1>4, <1>5, <1>6 DEF w, n

\* Both ends of a comment, and the tokens it may not hold.
Comment(piece, a, b) ==
  /\ piece.of \in Seq(Token) /\ Written(piece) = <<a>> \o piece.of \o <<b>>
  /\ \A j \in 1 .. Len(piece.of) : piece.of[j] # b

LEMMA SpacingKinds ==
  ASSUME NEW piece \in PieceSet, Spacing(piece)
  PROVE  \/ piece.kind = "newline" /\ Written(piece) = <<"newline">> /\ Meant(piece) = <<"newline">>
         \/ piece.kind = "block" /\ Comment(piece, "open", "close") /\ Meant(piece) = << >>
         \/ piece.kind = "line" /\ Comment(piece, "line", "newline") /\ Meant(piece) = <<"newline">>
  <1>1. piece.of \in Seq(Token) /\ \A j \in 1 .. Len(piece.of) : piece.of[j] \in ToSet(piece.of)
    BY DEF PieceSet, ToSet
  <1>2. CASE piece.kind = "newline"
    BY <1>2 DEF Written, Meant
  <1>3. CASE piece.kind = "block"
    BY <1>1, <1>3 DEF Spacing, Comment, Written, Meant
  <1>4. CASE piece.kind = "line"
    BY <1>1, <1>4 DEF Spacing, Comment, Written, Meant
  <1> QED
    BY <1>2, <1>3, <1>4 DEF Spacing

\* The look-ahead passes new lines and comments.
LEMMA AheadSpacing ==
  ASSUME NEW text \in Seq(Token), NEW p \in Nat, NEW piece \in PieceSet, Spacing(piece),
         Stands(text, p, Written(piece))
  PROVE  KeywordAhead(text, p) <=> KeywordAhead(text, p + Len(Written(piece)))
  <1> DEFINE m == LookAhead(text, p)
             n == Len(piece.of)
  <1>1. "newline" \in Token /\ "open" \in Token /\ "close" \in Token /\ "line" \in Token
        /\ Len(text) \in Nat
    BY DEF Token
  <1>2. CASE Written(piece) = <<"newline">>
    <2>1. p + 1 \in 1 .. Len(text) /\ text[p + 1] = "newline" /\ Len(Written(piece)) = 1
      BY <1>1, <1>2, StandsOne
    <2>2. p \in 0 .. Len(text) /\ p + 1 \in p + 1 .. Len(text) /\ (p + 1) - 1 = p
          /\ p + 1 \in p .. Len(text)
      BY <1>1, <2>1
    <2>3. m[p] = "code" /\ m[p + 1] = AfterComment(m[p], text[p + 1])
      BY <2>2, LookAheadDef
    <2>4. m[p + 1] = "code"
      BY <2>1, <2>3 DEF AfterComment
    <2>5. \A j \in p + 1 .. p + 1 : j \notin Telling(text, p)
      BY <2>1 DEF Telling
    <2> QED
      BY <2>1, <2>2, <2>4, <2>5, AheadShift
  <1>3. ASSUME NEW a \in {"open", "line"}, NEW b \in Token, NEW inside \in {"block", "line"},
               Comment(piece, a, b),
               AfterComment("code", a) = inside, AfterComment(inside, b) = "code",
               \A t \in Token : t # b => AfterComment(inside, t) = inside
        PROVE  KeywordAhead(text, p) <=> KeywordAhead(text, p + Len(Written(piece)))
    <2>1. /\ Len(Written(piece)) = n + 2 /\ p + n + 2 <= Len(text) /\ n \in Nat
          /\ text[p + 1] = a /\ text[p + n + 2] = b
          /\ \A j \in 1 .. n : text[p + 1 + j] \in Token /\ text[p + 1 + j] # b
      <3>1. a \in Token /\ piece.of \in Seq(Token) /\ Stands(text, p, <<a>> \o piece.of \o <<b>>)
        BY <1>1, <1>3 DEF Comment
      <3>2. \A j \in 1 .. n : piece.of[j] \in Token /\ piece.of[j] # b
        BY <1>3, <3>1, ElementOfSeq DEF Comment
      <3>3. /\ Len(<<a>> \o piece.of \o <<b>>) = n + 2 /\ p + n + 2 <= Len(text)
            /\ text[p + 1] = a /\ text[p + n + 2] = b
            /\ \A j \in 1 .. n : text[p + 1 + j] = piece.of[j]
        <4> DEFINE of == piece.of
        <4>1. of \in Seq(Token) /\ Stands(text, p, <<a>> \o of \o <<b>>) /\ a \in Token /\ b \in Token
          BY <3>1
        <4> HIDE DEF of
        <4>2. /\ Len(<<a>> \o of \o <<b>>) = Len(of) + 2 /\ p + Len(of) + 2 <= Len(text)
              /\ text[p + 1] = a /\ text[p + Len(of) + 2] = b
              /\ \A j \in 1 .. Len(of) : text[p + 1 + j] = of[j]
          BY <4>1, StandsBetween
        <4> QED
          BY <4>2 DEF of
      <3>4. n \in Nat
        BY <3>1
      <3> QED
        BY <1>3, <3>2, <3>3, <3>4 DEF Comment
    <2> HIDE DEF n
    <2>2. p \in 0 .. Len(text) /\ p + n + 2 \in p .. Len(text)
      BY <1>1, <2>1
    <2>3. m[p] = "code" /\ \A j \in p + 1 .. Len(text) : m[j] = AfterComment(m[j - 1], text[j])
      BY <2>2, LookAheadDef
    <2> HIDE DEF m
    <2> DEFINE S == {j \in 0 .. n : m[p + 1 + j] = inside}
    <2>4. 0 \in S
      <3>1. p + 1 \in p + 1 .. Len(text) /\ (p + 1) - 1 = p /\ p + 1 + 0 = p + 1
        BY <1>1, <2>1
      <3>2. m[p + 1] = AfterComment("code", a)
        BY <2>1, <2>3, <3>1
      <3> QED
        BY <1>3, <2>1, <3>1, <3>2
    <2>5. ASSUME NEW j \in 0 .. n - 1, j \in S PROVE j + 1 \in S
      <3>1. j + 1 \in 1 .. n /\ p + 1 + (j + 1) \in p + 1 .. Len(text)
            /\ (p + 1 + (j + 1)) - 1 = p + 1 + j
        BY <1>1, <2>1
      <3>2. m[p + 1 + (j + 1)] = AfterComment(m[p + 1 + j], text[p + 1 + (j + 1)])
        BY <2>3, <3>1
      <3>3. m[p + 1 + j] = inside /\ text[p + 1 + (j + 1)] \in Token /\ text[p + 1 + (j + 1)] # b
        BY <2>1, <2>5, <3>1
      <3> QED
        BY <1>3, <2>1, <3>1, <3>2, <3>3
    <2>6. 0 .. n \subseteq S
      <3> HIDE DEF S
      <3>1. 0 \in Nat
        OBVIOUS
      <3> QED
        BY <2>1, <2>4, <2>5, <3>1, IntervalInduction
    <2>7. m[p + n + 2] = "code"
      <3>1. p + n + 2 \in p + 1 .. Len(text) /\ (p + n + 2) - 1 = p + 1 + n
        BY <1>1, <2>1
      <3>2. n \in S
        BY <2>1, <2>6
      <3>3. m[p + n + 2] = AfterComment(m[p + 1 + n], text[p + n + 2])
        BY <2>3, <3>1
      <3> QED
        BY <1>3, <2>1, <3>2, <3>3
    <2>8. ASSUME NEW j \in p + 1 .. p + n + 2 PROVE j \notin Telling(text, p)
      <3>1. CASE j = p + 1
        BY <2>1, <3>1 DEF Telling
      <3>2. CASE j # p + 1
        <4> DEFINE i == j - (p + 2)
        <4>1. i \in 0 .. n /\ j - 1 = p + 1 + i
          BY <2>1, <3>2
        <4> HIDE DEF i
        <4>2. m[j - 1] = inside
          BY <2>6, <4>1
        <4> QED
          BY <1>3, <4>2 DEF Telling, m
      <3> QED
        BY <3>1, <3>2
    <2>9. p + Len(Written(piece)) = p + n + 2
      BY <2>1
    <2>10. LookAhead(text, p)[p + n + 2] = "code"
      BY <2>7 DEF m
    <2> DEFINE q == p + n + 2
    <2> HIDE DEF q, S
    <2>11. KeywordAhead(text, p) <=> KeywordAhead(text, q)
      <3>1. q \in p .. Len(text) /\ LookAhead(text, p)[q] = "code"
            /\ \A j \in p + 1 .. q : j \notin Telling(text, p)
        BY <2>2, <2>8, <2>10 DEF q
      <3> QED
        BY <2>2, <3>1, AheadShift
    <2> QED
      BY <2>9, <2>11 DEF q
  <1>4. /\ AfterComment("code", "open") = "block" /\ AfterComment("block", "close") = "code"
        /\ AfterComment("code", "line") = "line" /\ AfterComment("line", "newline") = "code"
        /\ \A t \in Token : t # "close" => AfterComment("block", t) = "block"
        /\ \A t \in Token : t # "newline" => AfterComment("line", t) = "line"
    BY DEF AfterComment
  <1>5. CASE Comment(piece, "open", "close")
    <2>1. "open" \in {"open", "line"} /\ "block" \in {"block", "line"}
      OBVIOUS
    <2> QED
      BY <1>1, <1>3, <1>4, <1>5, <2>1
  <1>6. CASE Comment(piece, "line", "newline")
    <2>1. "line" \in {"open", "line"} /\ "line" \in {"block", "line"}
      OBVIOUS
    <2> QED
      BY <1>1, <1>3, <1>4, <1>6, <2>1
  <1> QED
    BY <1>2, <1>5, <1>6, SpacingKinds

-----------------------------------------------------------------------------
(* What the scan makes of a piece *)

At(mode, current, done) == [mode |-> mode, current |-> current, done |-> done]

LEMMA EndedAt ==
  ASSUME NEW c \in Seq(Token), NEW d
  PROVE  Ended(At("code", c, d)) =
           At("code", << >>, IF Blank(c) THEN d ELSE Append(d, Stripped(c)))
  <1>1. Stripped(c) = << >> <=> Blank(c)
    BY StrippedType
  <1> DEFINE scan == At("code", c, d)
             x == Stripped(c)
             done == IF x = << >> THEN d ELSE Append(d, x)
  <1>2. scan.current = c /\ scan.done = d
    BY DEF At
  <1>3. Ended(scan) = [scan EXCEPT !.done = done, !.current = << >>]
    <2> HIDE DEF scan
    <2> QED
      BY <1>2 DEF Ended
  <1>4. done = IF Blank(c) THEN d ELSE Append(d, Stripped(c))
    BY <1>1
  <1> HIDE DEF done, x
  <1>5. [scan EXCEPT !.done = done, !.current = << >>] = At("code", << >>, done)
    <2> DEFINE kept == [mode |-> "code", current |-> c, done |-> done]
    <2>1. scan = [mode |-> "code", current |-> c, done |-> d]
      BY DEF At
    <2> HIDE DEF scan
    <2>2. [scan EXCEPT !.done = done, !.current = << >>] = [[scan EXCEPT !.done = done] EXCEPT !.current = << >>]
      BY <2>1
    <2>3. [scan EXCEPT !.done = done] = kept
      BY <2>1
    <2>4. [kept EXCEPT !.current = << >>] = [mode |-> "code", current |-> << >>, done |-> done]
      OBVIOUS
    <2> QED
      BY <2>2, <2>3, <2>4 DEF At
  <1> QED
    BY <1>3, <1>4, <1>5 DEF scan

LEMMA ScannedAt ==
  ASSUME NEW text, NEW i, NEW c, NEW d
  PROVE  /\ text[i] = "open" => Scanned(At("code", c, d), text, i) = At("block", c, d)
         /\ text[i] = "line" => Scanned(At("code", c, d), text, i) = At("line", c, d)
         /\ text[i] = "quote" =>
              Scanned(At("code", c, d), text, i) = At("string", Append(c, text[i]), d)
         /\ text[i] = "semicolon" => Scanned(At("code", c, d), text, i) = Ended(At("code", c, d))
         /\ text[i] = "newline" =>
              Scanned(At("code", c, d), text, i) =
                IF c # << >> /\ KeywordAhead(text, i) THEN Ended(At("code", c, d))
                ELSE At("code", Append(c, text[i]), d)
         /\ text[i] \in {"text", "keyword"} =>
              Scanned(At("code", c, d), text, i) = At("code", Append(c, text[i]), d)
         /\ text[i] # "close" => Scanned(At("block", c, d), text, i) = At("block", c, d)
         /\ text[i] = "close" => Scanned(At("block", c, d), text, i) = At("code", c, d)
         /\ text[i] # "newline" => Scanned(At("line", c, d), text, i) = At("line", c, d)
         /\ text[i] = "newline" =>
              Scanned(At("line", c, d), text, i) = At("code", Append(c, text[i]), d)
         /\ Scanned(At("string", c, d), text, i) =
              At(IF text[i] = "quote" THEN "code" ELSE "string", Append(c, text[i]), d)
  <1> DEFINE code == At("code", c, d)
  <1>1. code.mode = "code" /\ code.current = c /\ code.done = d
    BY DEF At
  <1>2. Scanned(code, text, i) = InCode(code, text, i)
    BY <1>1 DEF Scanned
  <1>3. text[i] = "open" => InCode(code, text, i) = At("block", c, d)
    BY DEF InCode, At
  <1>4. text[i] = "line" => InCode(code, text, i) = At("line", c, d)
    BY DEF InCode, At
  <1>5. text[i] = "quote" => InCode(code, text, i) = At("string", Append(c, text[i]), d)
    BY DEF InCode, At
  <1>6. text[i] = "semicolon" => InCode(code, text, i) = Ended(code)
    BY DEF InCode
  <1>7. text[i] = "newline" =>
          InCode(code, text, i) = IF c # << >> /\ KeywordAhead(text, i) THEN Ended(code)
                                  ELSE At("code", Append(c, text[i]), d)
    <2>1. [code EXCEPT !.current = Append(@, text[i])] = At("code", Append(c, text[i]), d)
      BY DEF At
    <2> HIDE DEF code
    <2> QED
      BY <1>1, <2>1 DEF InCode
  <1>8. text[i] \in {"text", "keyword"} =>
          InCode(code, text, i) = At("code", Append(c, text[i]), d)
    BY DEF InCode, At
  <1>9. /\ text[i] # "close" => Scanned(At("block", c, d), text, i) = At("block", c, d)
        /\ text[i] = "close" => Scanned(At("block", c, d), text, i) = At("code", c, d)
    BY DEF Scanned, At
  <1>10. /\ text[i] # "newline" => Scanned(At("line", c, d), text, i) = At("line", c, d)
         /\ text[i] = "newline" =>
              Scanned(At("line", c, d), text, i) = At("code", Append(c, text[i]), d)
    BY DEF Scanned, At
  <1>11. Scanned(At("string", c, d), text, i) =
           At(IF text[i] = "quote" THEN "code" ELSE "string", Append(c, text[i]), d)
    BY DEF Scanned, At
  <1> HIDE DEF code
  <1> QED
    BY <1>2, <1>3, <1>4, <1>5, <1>6, <1>7, <1>8, <1>9, <1>10, <1>11 DEF code

LEMMA ScanStep ==
  ASSUME NEW text \in Seq(Token), NEW p \in Nat, p + 1 <= Len(text)
  PROVE  Scan(text)[p + 1] = Scanned(Scan(text)[p], text, p + 1)
  <1>1. p + 1 \in 1 .. Len(text) /\ (p + 1) - 1 = p
    OBVIOUS
  <1> QED
    BY <1>1, ScanDef

\* A token that is neither special nor blank.
LEMMA ScanPlain ==
  ASSUME NEW text \in Seq(Token), NEW p \in Nat, NEW token \in {"text", "keyword"},
         Stands(text, p, <<token>>), NEW c, NEW d, Scan(text)[p] = At("code", c, d)
  PROVE  Scan(text)[p + 1] = At("code", Append(c, token), d)
  <1>1. token \in Token
    BY DEF Token
  <1>2. p + 1 <= Len(text) /\ text[p + 1] = token
    BY <1>1, StandsOne
  <1>3. Scan(text)[p + 1] = Scanned(At("code", c, d), text, p + 1)
    BY <1>2, ScanStep
  <1> QED
    BY <1>2, <1>3, ScannedAt

\* A new line in code.
LEMMA ScanNewline ==
  ASSUME NEW text \in Seq(Token), NEW p \in Nat, Stands(text, p, <<"newline">>),
         NEW c, NEW d, Scan(text)[p] = At("code", c, d)
  PROVE  Scan(text)[p + 1] = IF c # << >> /\ KeywordAhead(text, p + 1) THEN Ended(At("code", c, d))
                             ELSE At("code", Append(c, "newline"), d)
  <1>1. "newline" \in Token
    BY DEF Token
  <1>2. p + 1 <= Len(text) /\ text[p + 1] = "newline"
    BY <1>1, StandsOne
  <1>3. Scan(text)[p + 1] = Scanned(At("code", c, d), text, p + 1)
    BY <1>2, ScanStep
  <1> QED
    BY <1>2, <1>3, ScannedAt

\* A comment, however long.
LEMMA ScanComment ==
  ASSUME NEW text \in Seq(Token), NEW p \in Nat, NEW piece \in PieceSet, Spacing(piece),
         piece.kind # "newline", Stands(text, p, Written(piece)),
         NEW c \in Seq(Token), NEW d, Scan(text)[p] = At("code", c, d)
  PROVE  Scan(text)[p + Len(Written(piece))] = At("code", c \o Meant(piece), d)
  <1> DEFINE s == Scan(text)
             of == piece.of
             n == Len(of)
  <1>0. "newline" \in Token /\ "open" \in Token /\ "close" \in Token /\ "line" \in Token
        /\ Len(text) \in Nat
    BY DEF Token
  <1>1. ASSUME NEW a \in {"open", "line"}, NEW b \in {"close", "newline"}, NEW inside, NEW last,
               Comment(piece, a, b),
               \A i : text[i] = a => Scanned(At("code", c, d), text, i) = At(inside, c, d),
               \A i : text[i] # b => Scanned(At(inside, c, d), text, i) = At(inside, c, d),
               \A i : text[i] = b => Scanned(At(inside, c, d), text, i) = At("code", last, d)
        PROVE  s[p + Len(Written(piece))] = At("code", last, d)
    <2>1. /\ Len(Written(piece)) = n + 2 /\ p + n + 2 <= Len(text) /\ n \in Nat
          /\ text[p + 1] = a /\ text[p + n + 2] = b
          /\ \A j \in 1 .. n : text[p + 1 + j] # b
      <3>1. a \in Token /\ b \in Token /\ of \in Seq(Token) /\ Stands(text, p, <<a>> \o of \o <<b>>)
        BY <1>0, <1>1 DEF Comment
      <3>2. \A j \in 1 .. n : of[j] # b
        BY <1>1 DEF Comment
      <3>3. Written(piece) = <<a>> \o of \o <<b>> /\ n \in Nat
        BY <1>1, <3>1 DEF Comment
      <3> HIDE DEF of
      <3>4. /\ Len(<<a>> \o of \o <<b>>) = Len(of) + 2 /\ p + Len(of) + 2 <= Len(text)
            /\ text[p + 1] = a /\ text[p + Len(of) + 2] = b
            /\ \A j \in 1 .. Len(of) : text[p + 1 + j] = of[j]
        BY <3>1, StandsBetween
      <3> QED
        BY <3>2, <3>3, <3>4
    <2> HIDE DEF n, s
    <2>2. ASSUME NEW i \in Nat, i + 1 <= Len(text) PROVE s[i + 1] = Scanned(s[i], text, i + 1)
      BY <2>2, ScanStep DEF s
    <2> DEFINE S == {j \in 0 .. n : s[p + 1 + j] = At(inside, c, d)}
    <2>3. 0 \in S
      <3>1. p + 1 <= Len(text) /\ p + 1 + 0 = p + 1
        BY <1>0, <2>1
      <3>2. s[p + 1] = Scanned(At("code", c, d), text, p + 1)
        BY <2>2, <3>1 DEF s
      <3>3. s[p + 1] = At(inside, c, d)
        BY <1>1, <2>1, <3>2
      <3> QED
        BY <2>1, <3>1, <3>3
    <2>4. ASSUME NEW j \in 0 .. n - 1, j \in S PROVE j + 1 \in S
      <3>1. j + 1 \in 1 .. n /\ j + 1 \in 0 .. n /\ p + 1 + j \in Nat
            /\ (p + 1 + j) + 1 <= Len(text) /\ (p + 1 + j) + 1 = p + 1 + (j + 1)
        BY <1>0, <2>1
      <3>2. s[p + 1 + (j + 1)] = Scanned(s[p + 1 + j], text, p + 1 + (j + 1))
        BY <2>2, <3>1
      <3>3. s[p + 1 + j] = At(inside, c, d) /\ text[p + 1 + (j + 1)] # b
        BY <2>1, <2>4, <3>1
      <3>4. s[p + 1 + (j + 1)] = At(inside, c, d)
        BY <1>1, <3>2, <3>3
      <3> QED
        BY <3>1, <3>4
    <2>5. 0 .. n \subseteq S
      <3> HIDE DEF S
      <3>1. 0 \in Nat
        OBVIOUS
      <3> QED
        BY <2>1, <2>3, <2>4, <3>1, IntervalInduction
    <2>6. p + 1 + n \in Nat /\ (p + 1 + n) + 1 <= Len(text) /\ (p + 1 + n) + 1 = p + n + 2 /\ n \in 0 .. n
      BY <1>0, <2>1
    <2>7. s[p + 1 + n] = At(inside, c, d)
      BY <2>5, <2>6
    <2>8. s[p + n + 2] = Scanned(s[p + 1 + n], text, p + n + 2)
      BY <2>2, <2>6
    <2>9. s[p + n + 2] = At("code", last, d)
      BY <1>1, <2>1, <2>7, <2>8
    <2>10. p + Len(Written(piece)) = p + n + 2
      BY <2>1
    <2> QED
      BY <2>9, <2>10
  <1>2. CASE piece.kind = "block"
    <2>1. Comment(piece, "open", "close") /\ c \o Meant(piece) = c
      BY <1>2, SpacingKinds
    <2>2. /\ \A i : text[i] = "open" => Scanned(At("code", c, d), text, i) = At("block", c, d)
          /\ \A i : text[i] # "close" => Scanned(At("block", c, d), text, i) = At("block", c, d)
          /\ \A i : text[i] = "close" => Scanned(At("block", c, d), text, i) = At("code", c, d)
      BY ScannedAt
    <2>3. s[p + Len(Written(piece))] = At("code", c, d)
      <3> HIDE DEF s
      <3> QED
        BY <1>1, <2>1, <2>2
    <2> QED
      BY <2>1, <2>3
  <1>3. CASE piece.kind = "line"
    <2> DEFINE last == Append(c, "newline")
    <2>1. Comment(piece, "line", "newline") /\ c \o Meant(piece) = last
      BY <1>0, <1>3, SpacingKinds, AppendIsConcat
    <2>2. /\ \A i : text[i] = "line" => Scanned(At("code", c, d), text, i) = At("line", c, d)
          /\ \A i : text[i] # "newline" => Scanned(At("line", c, d), text, i) = At("line", c, d)
          /\ \A i : text[i] = "newline" => Scanned(At("line", c, d), text, i) = At("code", last, d)
      BY ScannedAt
    <2>3. s[p + Len(Written(piece))] = At("code", last, d)
      <3> HIDE DEF s, last
      <3> QED
        BY <1>1, <2>1, <2>2
    <2> QED
      BY <2>1, <2>3
  <1> QED
    BY <1>2, <1>3, SpacingKinds

\* A sequence that grows by the elements of another.
LEMMA Appended ==
  ASSUME NEW T, NEW part \in Seq(T), NEW c \in [0 .. Len(part) -> Seq(T)],
         \A j \in 0 .. Len(part) - 1 : c[j + 1] = Append(c[j], part[j + 1])
  PROVE  c[Len(part)] = c[0] \o part
  <1> DEFINE n == Len(part)
             k == Len(c[0])
             Grown(j) == /\ Len(c[j]) = k + j
                         /\ \A i \in 1 .. k : c[j][i] = c[0][i]
                         /\ \A i \in 1 .. j : c[j][k + i] = part[i]
             S == {j \in 0 .. n : Grown(j)}
  <1>1. n \in Nat /\ k \in Nat /\ 0 \in Nat
    OBVIOUS
  <1>2. 0 \in S
    <2>1. 0 \in 0 .. n /\ Len(c[0]) = k + 0
      BY <1>1
    <2> QED
      BY <2>1
  <1>3. ASSUME NEW j \in 0 .. n - 1, j \in S PROVE j + 1 \in S
    <2>1. Grown(j) /\ j + 1 \in 0 .. n /\ j \in 0 .. n /\ j + 1 \in 1 .. n
      BY <1>1, <1>3
    <2>2. c[j] \in Seq(T) /\ part[j + 1] \in T /\ c[j + 1] = Append(c[j], part[j + 1])
      BY <2>1, ElementOfSeq
    <2> HIDE DEF k, n
    <2>3. /\ Len(c[j + 1]) = Len(c[j]) + 1
          /\ \A i \in 1 .. Len(c[j]) : c[j + 1][i] = c[j][i]
          /\ c[j + 1][Len(c[j]) + 1] = part[j + 1]
      BY <2>2, AppendProperties
    <2>4. Len(c[j]) = k + j
      BY <2>1
    <2>5. Len(c[j + 1]) = k + (j + 1)
      BY <1>1, <2>3, <2>4
    <2>6. ASSUME NEW i \in 1 .. k PROVE c[j + 1][i] = c[0][i]
      <3>1. i \in 1 .. Len(c[j])
        BY <1>1, <2>4
      <3> QED
        BY <2>1, <2>3, <3>1
    <2>7. ASSUME NEW i \in 1 .. j + 1 PROVE c[j + 1][k + i] = part[i]
      <3>1. CASE i = j + 1
        <4>1. k + i = Len(c[j]) + 1
          BY <1>1, <2>4, <3>1
        <4> QED
          BY <2>3, <3>1, <4>1
      <3>2. CASE i # j + 1
        <4>1. i \in 1 .. j /\ k + i \in 1 .. Len(c[j])
          BY <1>1, <2>4, <3>2
        <4> QED
          BY <2>1, <2>3, <4>1
      <3> QED
        BY <3>1, <3>2
    <2> QED
      BY <2>1, <2>5, <2>6, <2>7
  <1>4. 0 .. n \subseteq S
    <2> HIDE DEF S, n
    <2> QED
      BY <1>1, <1>2, <1>3, IntervalInduction
  <1>5. Grown(n)
    <2>1. n \in 0 .. n
      BY <1>1
    <2> HIDE DEF Grown
    <2> QED
      BY <1>4, <2>1
  <1>6. c[n] \in Seq(T) /\ c[0] \in Seq(T)
    BY <1>1
  <1>7. /\ c[0] \o part \in Seq(T) /\ Len(c[0] \o part) = k + n
        /\ \A i \in 1 .. k : (c[0] \o part)[i] = c[0][i]
        /\ \A i \in 1 .. n : (c[0] \o part)[k + i] = part[i]
    BY <1>6, ConcatProperties
  <1> DEFINE x == c[n]
             y == c[0] \o part
  <1>8. ASSUME NEW i \in 1 .. k + n PROVE x[i] = y[i]
    <2>1. CASE i <= k
      BY <1>1, <1>5, <1>7, <2>1
    <2>2. CASE i > k
      <3> DEFINE l == i - k
      <3>1. l \in 1 .. n /\ i = k + l
        BY <1>1, <2>2
      <3> HIDE DEF l
      <3> QED
        BY <1>5, <1>7, <3>1
    <2> QED
      BY <1>1, <2>1, <2>2
  <1>9. x \in Seq(T) /\ y \in Seq(T) /\ Len(x) = Len(y) /\ Len(x) = k + n
    BY <1>5, <1>6, <1>7
  <1> HIDE DEF x, y, k, n
  <1>10. x = y
    BY <1>8, <1>9, SeqEqual
  <1> QED
    BY <1>10 DEF x, y, n

\* A string, whatever is in it.
LEMMA ScanString ==
  ASSUME NEW text \in Seq(Token), NEW p \in Nat, NEW piece \in PieceSet, piece.kind = "string",
         Doubled(piece.of), Stands(text, p, Written(piece)),
         NEW c \in Seq(Token), NEW d, Scan(text)[p] = At("code", c, d)
  PROVE  Scan(text)[p + Len(Written(piece))] = At("code", c \o Written(piece), d)
  <1> DEFINE s == Scan(text)
             of == piece.of
             n == Len(of)
             w == Written(piece)
             q == Quoted(of)
  <1>1. of \in Seq(Token) /\ n \in Nat /\ "quote" \in Token /\ Len(text) \in Nat
    BY DEF PieceSet, Token
  <1>2. w = <<"quote">> \o of \o <<"quote">>
    BY DEF Written
  <1>3. w \in Seq(Token) /\ Len(w) = n + 2 /\ p + n + 2 <= Len(text)
        /\ \A i \in 1 .. n + 2 : text[p + i] = w[i]
        /\ w[1] = "quote" /\ w[n + 2] = "quote" /\ \A j \in 1 .. n : w[1 + j] = of[j]
    <2>1. w \in Seq(Token) /\ Len(w) = n + 2 /\ w[1] = "quote" /\ w[n + 2] = "quote"
          /\ \A j \in 1 .. n : w[1 + j] = of[j]
      BY <1>1, <1>2
    <2> HIDE DEF w, n
    <2>2. p + Len(w) <= Len(text) /\ \A i \in 1 .. Len(w) : text[p + i] = w[i]
      BY DEF Stands, w
    <2> QED
      BY <1>1, <2>1, <2>2
  <1>4. q \in [0 .. n -> BOOLEAN] /\ q[0] = FALSE
        /\ \A j \in 1 .. n : q[j] = IF of[j] = "quote" THEN ~q[j - 1] ELSE q[j - 1]
    <2>1. DOMAIN of = 1 .. n
      BY <1>1
    <2> HIDE DEF of
    <2> QED
      BY <1>1, <2>1, QuotedDef, Zenon
  <1>5. ~q[n] /\ \A j \in 1 .. n : q[j - 1] => of[j] = "quote"
    BY <1>1 DEF Doubled
  <1>6. \A i \in 0 .. Len(text) :
          s[i].current \in Seq(Token) /\ s[i] = At(s[i].mode, s[i].current, s[i].done)
    <2>1. ASSUME NEW i \in 0 .. Len(text)
          PROVE  s[i].current \in Seq(Token) /\ s[i] = At(s[i].mode, s[i].current, s[i].done)
      <3>1. s[i] \in Scans
        BY ScanDef
      <3> HIDE DEF s
      <3> QED
        BY <3>1 DEF Scans, At
    <2> QED
      BY <2>1
  <1>7. ASSUME NEW i \in Nat, i + 1 <= Len(text) PROVE s[i + 1] = Scanned(s[i], text, i + 1)
    BY <1>7, ScanStep
  <1>8. s[p] = At("code", c, d)
    OBVIOUS
  <1> HIDE DEF s, w, n, q, of
  \* In the string, or between two quotes.
  <1> DEFINE Mode(j) == IF q[j] THEN "code" ELSE "string"
             S == {j \in 0 .. n : s[p + 1 + j] = At(Mode(j), s[p + 1 + j].current, d)}
  <1>9. s[p + 1] = At("string", Append(c, w[1]), d)
    <2>1. p + 1 <= Len(text) /\ 1 \in 1 .. n + 2
      BY <1>1, <1>3
    <2>2. text[p + 1] = "quote" /\ w[1] = "quote"
      BY <1>3, <2>1
    <2>3. s[p + 1] = Scanned(At("code", c, d), text, p + 1)
      BY <1>7, <1>8, <2>1
    <2> QED
      BY <2>2, <2>3, ScannedAt
  <1>10. 0 \in S
    <2>1. s[p + 1].current = Append(c, w[1]) /\ Mode(0) = "string" /\ p + 1 + 0 = p + 1
      BY <1>4, <1>9 DEF At
    <2>2. s[p + 1 + 0] = At(Mode(0), s[p + 1 + 0].current, d) /\ 0 \in 0 .. n
      <3> DEFINE i == p + 1
      <3>1. 0 \in 0 .. n /\ p + 1 + 0 = i
        BY <1>1
      <3> HIDE DEF Mode
      <3>2. s[i] = At(Mode(0), s[i].current, d)
        BY <1>9, <2>1
      <3> HIDE DEF i
      <3> QED
        BY <3>1, <3>2
    <2> QED
      BY <2>2
  <1>11. ASSUME NEW j \in 0 .. n - 1, j \in S
         PROVE  /\ s[p + 1 + (j + 1)] = At(Mode(j + 1), Append(s[p + 1 + j].current, w[1 + (j + 1)]), d)
                /\ j + 1 \in S
    <2> DEFINE i == p + 1 + j
               b == s[i].current
    <2>1. /\ i \in Nat /\ i + 1 <= Len(text) /\ i + 1 = p + 1 + (j + 1) /\ j + 1 \in 1 .. n
          /\ j + 1 \in 0 .. n /\ (j + 1) - 1 = j /\ 1 + (j + 1) \in 1 .. n + 2
          /\ p + (1 + (j + 1)) = i + 1 /\ j \in 0 .. n
      BY <1>1, <1>3
    <2>2. s[i] = At(Mode(j), b, d)
      BY <1>11
    <2> HIDE DEF b, i
    <2>3. text[i + 1] = of[j + 1] /\ w[1 + (j + 1)] = of[j + 1]
      BY <1>3, <2>1
    <2>4. s[i + 1] = Scanned(At(Mode(j), b, d), text, i + 1)
      BY <1>7, <2>1, <2>2
    <2>5. q[j + 1] = (IF of[j + 1] = "quote" THEN ~q[j] ELSE q[j]) /\ (q[j] => of[j + 1] = "quote")
      BY <1>4, <1>5, <2>1
    <2>6. s[i + 1] = At(Mode(j + 1), Append(b, of[j + 1]), d)
      <3>1. CASE q[j]
        <4>1. of[j + 1] = "quote" /\ ~q[j + 1]
          BY <2>5, <3>1, Zenon
        <4>2. Mode(j) = "code" /\ Mode(j + 1) = "string"
          BY <3>1, <4>1, Zenon
        <4> HIDE DEF Mode
        <4> QED
          BY <2>3, <2>4, <4>1, <4>2, ScannedAt
      <3>2. CASE ~q[j]
        <4>1. Mode(j) = "string" /\ (of[j + 1] = "quote" <=> q[j + 1])
          BY <2>5, <3>2, Zenon
        <4>2. Mode(j + 1) = IF of[j + 1] = "quote" THEN "code" ELSE "string"
          BY <4>1, Zenon
        <4> HIDE DEF Mode
        <4> QED
          BY <2>3, <2>4, <4>1, <4>2, ScannedAt
      <3> QED
        BY <3>1, <3>2
    <2> HIDE DEF Mode
    <2>7. s[i + 1].current = Append(b, of[j + 1])
      BY <2>6 DEF At
    <2> QED
      BY <2>1, <2>3, <2>6, <2>7 DEF b, i
  <1>12. 0 .. n \subseteq S
    <2> HIDE DEF S
    <2>1. 0 \in Nat
      OBVIOUS
    <2> QED
      BY <1>1, <1>10, <1>11, <2>1, IntervalInduction
  <1>13. s[p + n + 2] = At("code", Append(s[p + 1 + n].current, w[n + 2]), d)
    <2> DEFINE i == p + 1 + n
               b == s[i].current
    <2>1. /\ i \in Nat /\ i + 1 <= Len(text) /\ i + 1 = p + n + 2 /\ n \in 0 .. n
          /\ n + 2 \in 1 .. n + 2 /\ p + (n + 2) = i + 1
      BY <1>1, <1>3
    <2>2. Mode(n) = "string"
      BY <1>5
    <2>3. s[i] = At("string", b, d)
      BY <1>12, <2>1, <2>2
    <2> HIDE DEF b, i
    <2>4. text[i + 1] = "quote" /\ w[n + 2] = "quote"
      BY <1>3, <2>1
    <2>5. s[i + 1] = Scanned(At("string", b, d), text, i + 1)
      BY <1>7, <2>1, <2>3
    <2>6. s[i + 1] = At("code", Append(b, "quote"), d)
      BY <2>4, <2>5, ScannedAt
    <2> QED
      BY <2>1, <2>4, <2>6 DEF b, i
  <1> DEFINE cc == [j \in 0 .. Len(w) |-> s[p + j].current]
  <1>14. cc \in [0 .. Len(w) -> Seq(Token)]
    <2>1. ASSUME NEW j \in 0 .. Len(w) PROVE s[p + j].current \in Seq(Token)
      <3>1. p + j \in 0 .. Len(text)
        BY <1>1, <1>3
      <3> QED
        BY <1>6, <3>1
    <2> QED
      BY <2>1
  <1>15. ASSUME NEW j \in 0 .. Len(w) - 1 PROVE cc[j + 1] = Append(cc[j], w[j + 1])
    <2>1. j \in 0 .. Len(w) /\ j + 1 \in 0 .. Len(w) /\ cc[j] = s[p + j].current
          /\ cc[j + 1] = s[p + (j + 1)].current
      BY <1>1, <1>3
    <2> HIDE DEF cc
    <2>2. CASE j = 0
      <3>1. s[p + 1].current = Append(c, w[1]) /\ s[p].current = c
        BY <1>8, <1>9 DEF At
      <3>2. p + j = p /\ p + (j + 1) = p + 1 /\ j + 1 = 1
        BY <2>2
      <3> QED
        BY <2>1, <3>1, <3>2
    <2>3. CASE j = n + 1
      <3>1. p + j = p + 1 + n /\ p + (j + 1) = p + n + 2 /\ j + 1 = n + 2
        BY <1>1, <2>3
      <3>2. s[p + n + 2].current = Append(s[p + 1 + n].current, w[n + 2])
        BY <1>13 DEF At
      <3> QED
        BY <2>1, <3>1, <3>2
    <2>4. CASE j # 0 /\ j # n + 1
      <3> DEFINE l == j - 1
      <3>1. l \in 0 .. n - 1 /\ p + j = p + 1 + l /\ p + (j + 1) = p + 1 + (l + 1) /\ j + 1 = 1 + (l + 1)
            /\ l \in 0 .. n
        BY <1>1, <1>3, <2>4
      <3> HIDE DEF l
      <3>2. l \in S
        BY <1>12, <3>1
      <3>3. s[p + 1 + (l + 1)].current = Append(s[p + 1 + l].current, w[1 + (l + 1)])
        <4> DEFINE x == Append(s[p + 1 + l].current, w[1 + (l + 1)])
                   i == p + 1 + (l + 1)
        <4>1. s[i] = At(Mode(l + 1), x, d)
          BY <1>11, <3>1, <3>2
        <4> HIDE DEF x, i, Mode
        <4>2. s[i].current = x
          BY <4>1 DEF At
        <4> QED
          BY <4>2 DEF x, i
      <3> QED
        BY <2>1, <3>1, <3>3
    <2> QED
      BY <2>2, <2>3, <2>4
  <1>16. cc[Len(w)] = cc[0] \o w
    <2> HIDE DEF cc
    <2> QED
      BY <1>3, <1>14, <1>15, Appended
  <1>17. cc[0] = c /\ cc[Len(w)] = s[p + n + 2].current /\ p + Len(w) = p + n + 2
    <2>1. s[p].current = c /\ 0 \in 0 .. Len(w) /\ Len(w) \in 0 .. Len(w) /\ p + 0 = p
          /\ p + Len(w) = p + n + 2
      BY <1>1, <1>3, <1>8 DEF At
    <2> QED
      BY <2>1
  <1> HIDE DEF cc
  <1>18. s[p + n + 2] = At("code", c \o w, d)
    <2>1. s[p + n + 2].current = Append(s[p + 1 + n].current, w[n + 2])
      BY <1>13 DEF At
    <2> QED
      BY <1>13, <1>16, <1>17, <2>1
  <1> QED
    BY <1>17, <1>18 DEF s, w

-----------------------------------------------------------------------------
(* What the scan makes of a statement *)

LEMMA ConcatStands ==
  ASSUME NEW text \in Seq(Token), NEW p \in Nat, NEW u \in Seq(Token), NEW v \in Seq(Token),
         Stands(text, p, u \o v)
  PROVE  /\ Stands(text, p, u) /\ Stands(text, p + Len(u), v)
         /\ Len(u \o v) = Len(u) + Len(v)
  <1>1. /\ Len(u) \in Nat /\ Len(v) \in Nat /\ Len(text) \in Nat /\ Len(u \o v) = Len(u) + Len(v)
        /\ \A i \in 1 .. Len(u) : (u \o v)[i] = u[i]
        /\ \A i \in 1 .. Len(v) : (u \o v)[Len(u) + i] = v[i]
    OBVIOUS
  <1> DEFINE w == u \o v
             a == Len(u)
             b == Len(v)
  <1>2. p + Len(w) <= Len(text) /\ \A i \in 1 .. Len(w) : text[p + i] = w[i]
    BY DEF Stands
  <1> HIDE DEF w, a, b
  <1>3. /\ a \in Nat /\ b \in Nat /\ Len(text) \in Nat /\ Len(w) = a + b
        /\ \A i \in 1 .. a : w[i] = u[i]
        /\ \A i \in 1 .. b : w[a + i] = v[i]
    BY <1>1 DEF w, a, b
  <1>4. p + a <= Len(text) /\ p + a + b <= Len(text) /\ p + a \in Nat
    BY <1>2, <1>3
  <1>5. \A i \in 1 .. a : text[p + i] = u[i]
    BY <1>2, <1>3
  <1>6. ASSUME NEW i \in 1 .. b PROVE text[p + a + i] = v[i]
    <2>1. a + i \in 1 .. Len(w) /\ p + a + i = p + (a + i)
      BY <1>3
    <2> QED
      BY <1>2, <1>3, <2>1
  <1> QED
    BY <1>1, <1>4, <1>5, <1>6 DEF Stands, a, b

\* Where each of the joined sequences stands: at[k] tokens are before the next one.
StandsAll(text, at, seqs) ==
  \A k \in 1 .. Len(seqs) :
    /\ at[k] = at[k - 1] + Len(seqs[k]) /\ at[k] <= Len(text)
    /\ Stands(text, at[k - 1], seqs[k])

LEMMA JoinedAt ==
  ASSUME NEW seqs \in Seq(Seq(Token)), NEW text \in Seq(Token), NEW p \in Nat,
         Stands(text, p, FlattenSeq(seqs))
  PROVE  \E at \in [0 .. Len(seqs) -> Nat] :
           /\ at[0] = p /\ at[Len(seqs)] = p + Len(FlattenSeq(seqs))
           /\ StandsAll(text, at, seqs)
  <1> DEFINE n == Len(seqs)
  <1>1. PICK f \in [0 .. n -> Seq(Token)] : Joins(f, seqs) /\ f[n] = FlattenSeq(seqs)
    BY FlattenDef
  <1> DEFINE at == [k \in 0 .. n |-> p + Len(f[k])]
  <1>2. n \in Nat /\ (\A k \in 0 .. n : Len(f[k]) \in Nat)
    OBVIOUS
  <1>3. at \in [0 .. n -> Nat]
    <2>1. ASSUME NEW k \in 0 .. n PROVE p + Len(f[k]) \in Nat
      BY <1>2
    <2> QED
      BY <2>1
  <1>4. at[0] = p /\ at[n] = p + Len(FlattenSeq(seqs))
    <2>1. 0 \in 0 .. n /\ n \in 0 .. n /\ Len(f[0]) = 0 /\ p + 0 = p
      BY <1>1, <1>2 DEF Joins
    <2> QED
      BY <1>1, <2>1
  <1>5. ASSUME NEW k \in 1 .. n
        PROVE  /\ at[k] = at[k - 1] + Len(seqs[k]) /\ at[k] <= Len(text)
               /\ Stands(text, at[k - 1], seqs[k])
    <2>1. k \in 0 .. n /\ k - 1 \in 0 .. n
      BY <1>2
    <2>2. /\ Len(f[k]) = Len(f[k - 1]) + Len(seqs[k])
          /\ Stands(text, p + Len(f[k - 1]), seqs[k])
          /\ p + Len(f[k]) <= Len(text)
      <3>1. Stands(text, p, f[Len(seqs)])
        BY <1>1
      <3> QED
        BY <1>1, <3>1, JoinedStands
    <2>3. seqs[k] \in Seq(Token) /\ Len(seqs[k]) \in Nat
      BY ElementOfSeq
    <2>4. at[k] = p + Len(f[k]) /\ at[k - 1] = p + Len(f[k - 1])
      BY <2>1
    <2> HIDE DEF at
    <2> DEFINE a == Len(f[k - 1])
               b == Len(seqs[k])
               d == Len(f[k])
    <2>5. a \in Nat /\ b \in Nat /\ d = a + b /\ at[k] = p + d /\ at[k - 1] = p + a
      BY <1>2, <2>1, <2>2, <2>3, <2>4
    <2>6. p + d <= Len(text) /\ Stands(text, p + a, seqs[k])
      BY <2>2
    <2> HIDE DEF a, b, d
    <2>7. at[k] = at[k - 1] + b /\ at[k] <= Len(text) /\ Stands(text, at[k - 1], seqs[k])
      BY <2>5, <2>6
    <2> QED
      BY <2>7 DEF b
  <1>6. StandsAll(text, at, seqs)
    BY <1>5 DEF StandsAll
  <1> HIDE DEF at
  <1> QED
    BY <1>3, <1>4, <1>6

LEMMA PiecesType ==
  ASSUME NEW pieces \in Seq(PieceSet)
  PROVE  /\ [k \in DOMAIN pieces |-> Written(pieces[k])] \in Seq(Seq(Token))
         /\ [k \in DOMAIN pieces |-> Meant(pieces[k])] \in Seq(Seq(Token))
         /\ Len([k \in DOMAIN pieces |-> Written(pieces[k])]) = Len(pieces)
         /\ Len([k \in DOMAIN pieces |-> Meant(pieces[k])]) = Len(pieces)
  <1>1. DOMAIN pieces = 1 .. Len(pieces) /\ Len(pieces) \in Nat
    OBVIOUS
  <1>2. ASSUME NEW k \in 1 .. Len(pieces)
        PROVE  Written(pieces[k]) \in Seq(Token) /\ Meant(pieces[k]) \in Seq(Token)
    BY ElementOfSeq, WrittenType
  <1> QED
    BY <1>1, <1>2

LEMMA AllType ==
  ASSUME NEW pieces \in Seq(PieceSet)
  PROVE  WrittenAll(pieces) \in Seq(Token) /\ MeantAll(pieces) \in Seq(Token)
  <1>1. ASSUME NEW seqs \in Seq(Seq(Token)) PROVE FlattenSeq(seqs) \in Seq(Token)
    <2>1. PICK f \in [0 .. Len(seqs) -> Seq(Token)] : Joins(f, seqs) /\ f[Len(seqs)] = FlattenSeq(seqs)
      BY FlattenDef
    <2>2. Len(seqs) \in 0 .. Len(seqs)
      OBVIOUS
    <2> QED
      BY <2>1, <2>2
  <1> QED
    BY <1>1, PiecesType DEF WrittenAll, MeantAll

\* at: where the pieces stand; g[m]: what the first m of them mean.
PiecesAt(text, at, g, pieces) ==
  /\ g[0] = << >> /\ g[Len(pieces)] = MeantAll(pieces)
  /\ \A m \in 1 .. Len(pieces) :
       /\ at[m] = at[m - 1] + Len(Written(pieces[m])) /\ at[m] <= Len(text)
       /\ Stands(text, at[m - 1], Written(pieces[m]))
       /\ g[m] = g[m - 1] \o Meant(pieces[m])

LEMMA PiecesStand ==
  ASSUME NEW pieces \in Seq(PieceSet), NEW text \in Seq(Token), NEW p \in Nat,
         Stands(text, p, WrittenAll(pieces))
  PROVE  \E at \in [0 .. Len(pieces) -> Nat], g \in [0 .. Len(pieces) -> Seq(Token)] :
           /\ at[0] = p /\ at[Len(pieces)] = p + Len(WrittenAll(pieces))
           /\ PiecesAt(text, at, g, pieces)
  <1> DEFINE n == Len(pieces)
             ws == [k \in DOMAIN pieces |-> Written(pieces[k])]
             ms == [k \in DOMAIN pieces |-> Meant(pieces[k])]
  <1>1. ws \in Seq(Seq(Token)) /\ ms \in Seq(Seq(Token)) /\ Len(ws) = n /\ Len(ms) = n
    BY PiecesType
  <1>2. WrittenAll(pieces) = FlattenSeq(ws) /\ MeantAll(pieces) = FlattenSeq(ms)
    BY DEF WrittenAll, MeantAll
  <1>3. \A m \in 1 .. n : ws[m] = Written(pieces[m]) /\ ms[m] = Meant(pieces[m])
    OBVIOUS
  <1> HIDE DEF ws, ms
  <1>4. PICK at \in [0 .. Len(ws) -> Nat] :
          /\ at[0] = p /\ at[Len(ws)] = p + Len(FlattenSeq(ws)) /\ StandsAll(text, at, ws)
    BY <1>1, <1>2, JoinedAt
  <1>5. PICK g \in [0 .. Len(ms) -> Seq(Token)] : Joins(g, ms) /\ g[Len(ms)] = FlattenSeq(ms)
    BY <1>1, FlattenDef
  <1>6. ASSUME NEW m \in 1 .. n
        PROVE  /\ at[m] = at[m - 1] + Len(Written(pieces[m])) /\ at[m] <= Len(text)
               /\ Stands(text, at[m - 1], Written(pieces[m]))
               /\ g[m] = g[m - 1] \o Meant(pieces[m])
    <2>1. at[m] = at[m - 1] + Len(ws[m]) /\ at[m] <= Len(text) /\ Stands(text, at[m - 1], ws[m])
      BY <1>1, <1>4 DEF StandsAll
    <2>2. g[m] = g[m - 1] \o ms[m]
      BY <1>1, <1>5 DEF Joins
    <2> QED
      BY <1>3, <2>1, <2>2
  <1>7. PiecesAt(text, at, g, pieces)
    <2>1. g[0] = << >> /\ g[n] = MeantAll(pieces)
      BY <1>1, <1>2, <1>5 DEF Joins
    <2> QED
      BY <1>6, <2>1 DEF PiecesAt
  <1>8. at \in [0 .. n -> Nat] /\ g \in [0 .. n -> Seq(Token)]
        /\ at[0] = p /\ at[n] = p + Len(WrittenAll(pieces))
    BY <1>1, <1>2, <1>4, <1>5
  <1> HIDE DEF n
  <1> QED
    BY <1>7, <1>8 DEF n

LEMMA MeantSpacing ==
  ASSUME NEW piece \in PieceSet, Spacing(piece)
  PROVE  Meant(piece) \in Seq(Token) /\ Blank(Meant(piece))
  <1>1. Meant(piece) = << >> \/ Meant(piece) = <<"newline">>
    BY SpacingKinds
  <1>2. Blank(<< >>) /\ Blank(<<"newline">>)
    BY DEF Blank
  <1> QED
    BY <1>1, <1>2, WrittenType

LEMMA BlankConcat ==
  ASSUME NEW u \in Seq(Token), NEW v \in Seq(Token), Blank(u), Blank(v)
  PROVE  u \o v \in Seq(Token) /\ Blank(u \o v)
  <1>1. /\ Len(u) \in Nat /\ Len(v) \in Nat /\ u \o v \in Seq(Token) /\ Len(u \o v) = Len(u) + Len(v)
        /\ \A i \in 1 .. Len(u) : (u \o v)[i] = u[i]
        /\ \A i \in 1 .. Len(v) : (u \o v)[Len(u) + i] = v[i]
    OBVIOUS
  <1>2. DOMAIN u = 1 .. Len(u) /\ DOMAIN v = 1 .. Len(v) /\ DOMAIN (u \o v) = 1 .. Len(u) + Len(v)
    BY <1>1
  <1> DEFINE w == u \o v
             a == Len(u)
             b == Len(v)
  <1> HIDE DEF w, a, b
  <1>3. /\ a \in Nat /\ b \in Nat /\ DOMAIN w = 1 .. a + b
        /\ \A i \in 1 .. a : w[i] = "newline"
        /\ \A i \in 1 .. b : w[a + i] = "newline"
    BY <1>1, <1>2 DEF w, a, b, Blank
  <1>4. ASSUME NEW i \in 1 .. a + b PROVE w[i] = "newline"
    <2>1. CASE i <= a
      BY <1>3, <2>1
    <2>2. CASE i > a
      <3> DEFINE j == i - a
      <3>1. j \in 1 .. b /\ i = a + j
        BY <1>3, <2>2
      <3> HIDE DEF j
      <3> QED
        BY <1>3, <3>1
    <2> QED
      BY <1>3, <2>1, <2>2
  <1>5. Blank(w)
    BY <1>3, <1>4 DEF Blank
  <1> QED
    BY <1>1, <1>5 DEF w

\* A new line or a comment is kept as the white space it means; only a new line
\* before a keyword ends what is there.
LEMMA ScanSpacing ==
  ASSUME NEW text \in Seq(Token), NEW p \in Nat, NEW piece \in PieceSet, Spacing(piece),
         Stands(text, p, Written(piece)),
         NEW c \in Seq(Token), NEW d, Scan(text)[p] = At("code", c, d)
  PROVE  LET q == p + Len(Written(piece))
         IN \/ Scan(text)[q] = At("code", c \o Meant(piece), d)
            \/ c # << >> /\ KeywordAhead(text, q) /\ Scan(text)[q] = Ended(At("code", c, d))
  <1>1. CASE piece.kind # "newline"
    <2>1. Scan(text)[p + Len(Written(piece))] = At("code", c \o Meant(piece), d)
      BY <1>1, ScanComment
    <2> QED
      BY <2>1
  <1>2. CASE piece.kind = "newline"
    <2>1. Written(piece) = <<"newline">> /\ Meant(piece) = <<"newline">> /\ "newline" \in Token
      BY <1>2, SpacingKinds DEF Token
    <2>2. c \o Meant(piece) = Append(c, "newline") /\ p + Len(Written(piece)) = p + 1
      BY <2>1, AppendIsConcat
    <2>3. Scan(text)[p + 1] = IF c # << >> /\ KeywordAhead(text, p + 1) THEN Ended(At("code", c, d))
                              ELSE At("code", Append(c, "newline"), d)
      BY <2>1, ScanNewline
    <2> QED
      BY <2>2, <2>3
  <1> QED
    BY <1>1, <1>2

\* Before a statement nothing but white space is kept, and the look-ahead is the same.
LEMMA ScanBefore ==
  ASSUME NEW pieces \in Seq(PieceSet), \A m \in 1 .. Len(pieces) : Spacing(pieces[m]),
         NEW text \in Seq(Token), NEW p \in Nat, Stands(text, p, WrittenAll(pieces)),
         NEW c \in Seq(Token), Blank(c), NEW d, Scan(text)[p] = At("code", c, d)
  PROVE  \E e \in Seq(Token) :
           Blank(e) /\ Scan(text)[p + Len(WrittenAll(pieces))] = At("code", e, d)
  <1> DEFINE n == Len(pieces)
  <1>1. PICK at \in [0 .. n -> Nat], g \in [0 .. n -> Seq(Token)] :
          /\ at[0] = p /\ at[n] = p + Len(WrittenAll(pieces)) /\ PiecesAt(text, at, g, pieces)
    BY PiecesStand
  <1> DEFINE S == {m \in 0 .. n : \E e \in Seq(Token) : Blank(e) /\ Scan(text)[at[m]] = At("code", e, d)}
  <1>2. n \in Nat /\ 0 \in Nat /\ 0 \in S
    BY <1>1
  <1>3. ASSUME NEW m \in 0 .. n - 1, m \in S PROVE m + 1 \in S
    <2> DEFINE piece == pieces[m + 1]
    <2>1. m + 1 \in 1 .. n /\ m + 1 \in 0 .. n /\ (m + 1) - 1 = m /\ at[m] \in Nat
      <3>1. m + 1 \in 1 .. n /\ m + 1 \in 0 .. n /\ (m + 1) - 1 = m /\ m \in 0 .. n
        <4> HIDE DEF n
        <4> QED
          BY <1>2
      <3> HIDE DEF n
      <3> QED
        BY <3>1
    <2>2. /\ at[m + 1] = at[m] + Len(Written(piece)) /\ Stands(text, at[m], Written(piece))
          /\ piece \in PieceSet /\ Spacing(piece)
      BY <1>1, <2>1, ElementOfSeq DEF PiecesAt
    <2>3. PICK e \in Seq(Token) : Blank(e) /\ Scan(text)[at[m]] = At("code", e, d)
      BY <1>3
    <2> HIDE DEF piece
    <2>4. \/ Scan(text)[at[m + 1]] = At("code", e \o Meant(piece), d)
          \/ Scan(text)[at[m + 1]] = Ended(At("code", e, d))
      BY <2>1, <2>2, <2>3, ScanSpacing
    <2>5. Ended(At("code", e, d)) = At("code", << >>, d) /\ Blank(<< >>) /\ << >> \in Seq(Token)
      BY <2>3, EndedAt DEF Blank
    <2>6. e \o Meant(piece) \in Seq(Token) /\ Blank(e \o Meant(piece))
      BY <2>2, <2>3, MeantSpacing, BlankConcat
    <2> QED
      BY <2>1, <2>4, <2>5, <2>6
  <1>4. 0 .. n \subseteq S
    <2> HIDE DEF S, n
    <2> QED
      BY <1>2, <1>3, IntervalInduction
  <1>5. n \in S
    <2>1. n \in 0 .. n
      BY <1>2
    <2> QED
      BY <1>4, <2>1
  <1> QED
    BY <1>1, <1>5

LEMMA AheadBefore ==
  ASSUME NEW pieces \in Seq(PieceSet), \A m \in 1 .. Len(pieces) : Spacing(pieces[m]),
         NEW text \in Seq(Token), NEW p \in Nat, Stands(text, p, WrittenAll(pieces))
  PROVE  /\ KeywordAhead(text, p) <=> KeywordAhead(text, p + Len(WrittenAll(pieces)))
         /\ MeantAll(pieces) \in Seq(Token) /\ Blank(MeantAll(pieces))
  <1> DEFINE n == Len(pieces)
  <1>1. PICK at \in [0 .. n -> Nat], g \in [0 .. n -> Seq(Token)] :
          /\ at[0] = p /\ at[n] = p + Len(WrittenAll(pieces)) /\ PiecesAt(text, at, g, pieces)
    BY PiecesStand
  <1> DEFINE S == {m \in 0 .. n : (KeywordAhead(text, p) <=> KeywordAhead(text, at[m])) /\ Blank(g[m])}
  <1>2. n \in Nat /\ 0 \in Nat /\ 0 \in S
    BY <1>1 DEF PiecesAt, Blank
  <1>3. ASSUME NEW m \in 0 .. n - 1, m \in S PROVE m + 1 \in S
    <2> DEFINE piece == pieces[m + 1]
    <2>1. m + 1 \in 1 .. n /\ m + 1 \in 0 .. n /\ (m + 1) - 1 = m /\ at[m] \in Nat /\ g[m] \in Seq(Token)
      <3>1. m + 1 \in 1 .. n /\ m + 1 \in 0 .. n /\ (m + 1) - 1 = m /\ m \in 0 .. n
        <4> HIDE DEF n
        <4> QED
          BY <1>2
      <3> HIDE DEF n
      <3> QED
        BY <3>1
    <2>2. /\ at[m + 1] = at[m] + Len(Written(piece)) /\ Stands(text, at[m], Written(piece))
          /\ g[m + 1] = g[m] \o Meant(piece)
          /\ piece \in PieceSet /\ Spacing(piece)
      BY <1>1, <2>1, ElementOfSeq DEF PiecesAt
    <2>3. KeywordAhead(text, at[m]) <=> KeywordAhead(text, at[m + 1])
      BY <2>1, <2>2, AheadSpacing
    <2>4. Blank(g[m + 1])
      BY <1>3, <2>1, <2>2, MeantSpacing, BlankConcat
    <2>5. KeywordAhead(text, p) <=> KeywordAhead(text, at[m])
      BY <1>3
    <2> QED
      BY <2>1, <2>3, <2>4, <2>5
  <1>4. 0 .. n \subseteq S
    <2> HIDE DEF S, n
    <2> QED
      BY <1>2, <1>3, IntervalInduction
  <1>5. n \in S
    <2>1. n \in 0 .. n
      BY <1>2
    <2> QED
      BY <1>4, <2>1
  <1>6. g[n] = MeantAll(pieces)
    BY <1>1 DEF PiecesAt
  <1> QED
    BY <1>1, <1>5, <1>6, AllType

\* A piece of a statement: white space, a text or a string.
InStatement(piece) ==
  Spacing(piece) \/ piece.kind = "text" \/ (piece.kind = "string" /\ Doubled(piece.of))

\* A statement from its keyword on, and with what is kept before the keyword.
From(g) == <<"keyword">> \o g

Whole(u, g) == u \o From(g)

\* After a part of a statement that means g: all of it is kept, from its keyword on, or
\* what is left of it is white space and the statement was ended before that.
Kept(text, i, u, d, g) ==
  \/ Scan(text)[i] = At("code", Whole(u, g), d)
  \/ /\ KeywordAhead(text, i)
     /\ \E e \in Seq(Token) :
          Blank(e) /\ Scan(text)[i] = At("code", e, Append(d, Stripped(From(g))))

LEMMA ConcatAt ==
  ASSUME NEW u \in Seq(Token), NEW v \in Seq(Token)
  PROVE  /\ u \o v \in Seq(Token) /\ Len(u) \in Nat /\ Len(v) \in Nat
         /\ Len(u \o v) = Len(u) + Len(v)
         /\ \A i \in 1 .. Len(u) : (u \o v)[i] = u[i]
         /\ \A i \in 1 .. Len(v) : (u \o v)[Len(u) + i] = v[i]
  OBVIOUS

LEMMA FromType ==
  ASSUME NEW g \in Seq(Token)
  PROVE  From(g) \in Seq(Token) /\ Len(From(g)) = Len(g) + 1 /\ From(g)[1] = "keyword"
  <1> DEFINE k == <<"keyword">>
  <1>1. k \in Seq(Token) /\ Len(k) = 1 /\ k[1] = "keyword"
    BY DEF Token
  <1> HIDE DEF k
  <1>2. k \o g \in Seq(Token) /\ Len(k \o g) = Len(g) + 1 /\ (k \o g)[1] = "keyword"
    <2>1. k \o g \in Seq(Token) /\ Len(k \o g) = Len(k) + Len(g) /\ Len(g) \in Nat
          /\ \A i \in 1 .. Len(k) : (k \o g)[i] = k[i]
      BY <1>1, ConcatAt
    <2> QED
      BY <1>1, <2>1
  <1> QED
    BY <1>2 DEF k, From

LEMMA WholeType ==
  ASSUME NEW u \in Seq(Token), Blank(u), NEW g \in Seq(Token)
  PROVE  /\ Whole(u, g) \in Seq(Token) /\ Whole(u, g) # << >> /\ ~Blank(Whole(u, g))
         /\ Stripped(Whole(u, g)) = Stripped(From(g))
  <1> DEFINE f == From(g)
             c == u \o f
  <1>1. f \in Seq(Token) /\ Len(f) = Len(g) + 1 /\ f[1] = "keyword" /\ Len(g) \in Nat
    BY FromType
  <1>2. c \in Seq(Token) /\ Stripped(c) = Stripped(f)
    BY <1>1, StrippedLeft
  <1>3. Len(u) \in Nat /\ Len(c) = Len(u) + Len(f) /\ c[Len(u) + 1] = f[1]
    <2> HIDE DEF f
    <2>1. /\ Len(c) = Len(u) + Len(f) /\ Len(u) \in Nat
          /\ \A i \in 1 .. Len(f) : c[Len(u) + i] = f[i]
      BY <1>1, ConcatAt
    <2> HIDE DEF c
    <2> QED
      BY <1>1, <2>1
  <1>4. Len(u) + 1 \in DOMAIN c /\ c # << >> /\ c[Len(u) + 1] # "newline"
    <2> HIDE DEF f, c
    <2> QED
      BY <1>1, <1>2, <1>3
  <1>5. ~Blank(c)
    BY <1>4 DEF Blank
  <1> QED
    BY <1>2, <1>4, <1>5 DEF Whole

LEMMA WholeMore ==
  ASSUME NEW u \in Seq(Token), NEW g \in Seq(Token), NEW x \in Seq(Token)
  PROVE  From(g \o x) = From(g) \o x /\ Whole(u, g \o x) = Whole(u, g) \o x
  <1> DEFINE k == <<"keyword">>
  <1>1. k \in Seq(Token)
    BY DEF Token
  <1> HIDE DEF k
  <1>2. (k \o g) \o x = k \o (g \o x)
    BY <1>1, ConcatAssociative
  <1>3. From(g \o x) = From(g) \o x
    BY <1>2 DEF From, k
  <1>4. (u \o From(g)) \o x = u \o (From(g) \o x)
    <2> DEFINE f == From(g)
    <2>1. f \in Seq(Token)
      BY FromType
    <2> HIDE DEF f
    <2>2. (u \o f) \o x = u \o (f \o x)
      BY <2>1, ConcatAssociative
    <2> QED
      BY <2>2 DEF f
  <1> QED
    BY <1>3, <1>4 DEF Whole

LEMMA ScanPiece ==
  ASSUME NEW text \in Seq(Token), NEW i \in Nat, NEW piece \in PieceSet, InStatement(piece),
         Stands(text, i, Written(piece)), NEW u \in Seq(Token), Blank(u), NEW d,
         NEW g \in Seq(Token), Kept(text, i, u, d, g)
  PROVE  Kept(text, i + Len(Written(piece)), u, d, g \o Meant(piece))
  <1> DEFINE c == Whole(u, g)
             f == From(g)
             w == Written(piece)
             x == Meant(piece)
             q == i + Len(w)
             end == Stripped(f)
             dd == Append(d, end)
  <1>1. /\ c \in Seq(Token) /\ f \in Seq(Token) /\ c # << >> /\ ~Blank(c)
        /\ Stripped(c) = end
    BY WholeType, FromType
  <1>2. w \in Seq(Token) /\ x \in Seq(Token)
    BY WrittenType
  <1>3. From(g \o x) = f \o x /\ Whole(u, g \o x) = c \o x
    BY <1>2, WholeMore
  <1>4. Spacing(piece) => Blank(x) /\ Stripped(From(g \o x)) = end
    BY <1>1, <1>2, <1>3, MeantSpacing, StrippedRight
  <1>5. Blank(<< >>) /\ << >> \in Seq(Token)
    BY DEF Blank
  <1>6. \/ Scan(text)[i] = At("code", c, d)
        \/ /\ KeywordAhead(text, i)
           /\ \E e \in Seq(Token) : Blank(e) /\ Scan(text)[i] = At("code", e, dd)
    BY DEF Kept
  <1>7. \/ Scan(text)[q] = At("code", c \o x, d)
        \/ /\ KeywordAhead(text, q) /\ Spacing(piece)
           /\ \E e \in Seq(Token) : Blank(e) /\ Scan(text)[q] = At("code", e, dd)
        => Kept(text, q, u, d, g \o x)
    <2> HIDE DEF c, f, x, q
    <2> QED
      BY <1>3, <1>4 DEF Kept
  <1> SUFFICES Kept(text, q, u, d, g \o x)
    OBVIOUS
  <1>8. CASE Scan(text)[i] = At("code", c, d)
    <2>1. CASE Spacing(piece)
      <3>1. \/ Scan(text)[q] = At("code", c \o x, d)
            \/ KeywordAhead(text, q) /\ Scan(text)[q] = Ended(At("code", c, d))
        <4> HIDE DEF c
        <4> QED
          BY <1>1, <1>8, <2>1, ScanSpacing
      <3>2. Ended(At("code", c, d)) = At("code", << >>, dd)
        <4> HIDE DEF c
        <4> QED
          BY <1>1, EndedAt
      <3> HIDE DEF c, x, q, dd
      <3>3. Kept(text, q, u, d, g \o x)
        BY <1>5, <1>7, <2>1, <3>1, <3>2
      <3> QED
        BY <3>3 DEF q, x
    <2>2. CASE piece.kind = "text"
      <3>1. w = <<"text">> /\ x = <<"text">> /\ "text" \in Token
        BY <2>2 DEF Written, Meant, Token
      <3>2. Scan(text)[i + 1] = At("code", Append(c, "text"), d)
        <4>1. Stands(text, i, <<"text">>)
          BY <3>1
        <4> HIDE DEF c
        <4> QED
          BY <1>8, <4>1, ScanPlain
      <3>3. Append(c, "text") = c \o x /\ i + 1 = q
        <4>1. Len(w) = 1
          BY <3>1
        <4> HIDE DEF c, w, x
        <4> QED
          BY <1>1, <3>1, <4>1, AppendIsConcat
      <3> QED
        BY <1>7, <3>2, <3>3
    <2>3. CASE piece.kind = "string" /\ Doubled(piece.of)
      <3>1. x = w
        BY <2>3 DEF Meant
      <3>2. Scan(text)[q] = At("code", c \o w, d)
        <4> HIDE DEF c
        <4> QED
          BY <1>1, <1>8, <2>3, ScanString
      <3> QED
        BY <1>7, <3>1, <3>2
    <2> QED
      BY <2>1, <2>2, <2>3 DEF InStatement
  <1>9. ASSUME KeywordAhead(text, i), NEW e \in Seq(Token), Blank(e),
               Scan(text)[i] = At("code", e, dd)
        PROVE  Kept(text, q, u, d, g \o x)
    <2>1. ASSUME w[1] \notin {"newline", "line", "open", "keyword"}, Len(w) > 0 PROVE FALSE
      <3>1. i + 1 <= Len(text) /\ text[i + 1] = w[1]
        <4>1. i + Len(w) <= Len(text) /\ \A j \in 1 .. Len(w) : text[i + j] = w[j]
          BY DEF Stands
        <4>2. Len(w) \in Nat /\ Len(text) \in Nat /\ 1 \in 1 .. Len(w)
          BY <1>2, <2>1
        <4> HIDE DEF w
        <4> QED
          BY <2>1, <4>1, <4>2
      <3>2. i \in 0 .. Len(text) - 1
        BY <3>1
      <3>3. KeywordAhead(text, i) <=> text[i + 1] = "keyword"
        BY <2>1, <3>1, <3>2, AheadNow
      <3> QED
        BY <1>9, <2>1, <3>1, <3>3
    <2>2. Spacing(piece)
      <3>1. CASE piece.kind = "text"
        <4>1. w = <<"text">>
          BY <3>1 DEF Written
        <4>2. w[1] = "text" /\ Len(w) > 0
          BY <4>1
        <4> HIDE DEF w
        <4> QED
          BY <2>1, <4>2
      <3>2. CASE piece.kind = "string"
        <4>1. w = <<"quote">> \o piece.of \o <<"quote">> /\ piece.of \in Seq(Token)
          BY <3>2 DEF Written, PieceSet
        <4>2. w[1] = "quote" /\ Len(w) > 0
          BY <4>1
        <4> HIDE DEF w
        <4> QED
          BY <2>1, <4>2
      <3> QED
        BY <3>1, <3>2 DEF InStatement
    <2>3. KeywordAhead(text, q)
      BY <1>9, <2>2, AheadSpacing
    <2> HIDE DEF dd
    <2>4. Scan(text)[q] = At("code", e \o x, dd) \/ Scan(text)[q] = Ended(At("code", e, dd))
      BY <1>9, <2>2, ScanSpacing
    <2>5. Ended(At("code", e, dd)) = At("code", << >>, dd)
      BY <1>9, EndedAt
    <2>6. e \o x \in Seq(Token) /\ Blank(e \o x)
      BY <1>2, <1>4, <1>9, <2>2, BlankConcat
    <2> HIDE DEF x, q
    <2>7. \E a \in Seq(Token) : Blank(a) /\ Scan(text)[q] = At("code", a, dd)
      BY <1>5, <2>4, <2>5, <2>6
    <2> QED
      BY <1>7, <2>2, <2>3, <2>7
  <1> HIDE DEF c, w, x, q, dd
  <1> QED
    BY <1>6, <1>8, <1>9

\* All the pieces of a statement.
LEMMA ScanPieces ==
  ASSUME NEW pieces \in Seq(PieceSet), \A m \in 1 .. Len(pieces) : InStatement(pieces[m]),
         NEW text \in Seq(Token), NEW p \in Nat, Stands(text, p, WrittenAll(pieces)),
         NEW u \in Seq(Token), Blank(u), NEW d, Kept(text, p, u, d, << >>)
  PROVE  Kept(text, p + Len(WrittenAll(pieces)), u, d, MeantAll(pieces))
  <1> DEFINE n == Len(pieces)
  <1>1. PICK at \in [0 .. n -> Nat], g \in [0 .. n -> Seq(Token)] :
          /\ at[0] = p /\ at[n] = p + Len(WrittenAll(pieces)) /\ PiecesAt(text, at, g, pieces)
    BY PiecesStand
  <1> DEFINE S == {m \in 0 .. n : Kept(text, at[m], u, d, g[m])}
  <1>2. n \in Nat /\ 0 \in Nat /\ 0 \in S
    BY <1>1 DEF PiecesAt
  <1>3. ASSUME NEW m \in 0 .. n - 1, m \in S PROVE m + 1 \in S
    <2> DEFINE piece == pieces[m + 1]
    <2>1. m + 1 \in 1 .. n /\ m + 1 \in 0 .. n /\ (m + 1) - 1 = m /\ at[m] \in Nat /\ g[m] \in Seq(Token)
      <3>1. m + 1 \in 1 .. n /\ m + 1 \in 0 .. n /\ (m + 1) - 1 = m /\ m \in 0 .. n
        <4> HIDE DEF n
        <4> QED
          BY <1>2
      <3> HIDE DEF n
      <3> QED
        BY <3>1
    <2>2. /\ at[m + 1] = at[m] + Len(Written(piece)) /\ Stands(text, at[m], Written(piece))
          /\ g[m + 1] = g[m] \o Meant(piece)
          /\ piece \in PieceSet /\ InStatement(piece)
      BY <1>1, <2>1, ElementOfSeq DEF PiecesAt
    <2>3. Kept(text, at[m], u, d, g[m])
      BY <1>3
    <2> HIDE DEF piece
    <2>4. Kept(text, at[m + 1], u, d, g[m + 1])
      BY <2>1, <2>2, <2>3, ScanPiece
    <2> QED
      BY <2>1, <2>4
  <1>4. 0 .. n \subseteq S
    <2> HIDE DEF S, n
    <2> QED
      BY <1>2, <1>3, IntervalInduction
  <1>5. n \in S
    <2>1. n \in 0 .. n
      BY <1>2
    <2> QED
      BY <1>4, <2>1
  <1>6. g[n] = MeantAll(pieces)
    BY <1>1 DEF PiecesAt
  <1> QED
    BY <1>1, <1>5, <1>6

-----------------------------------------------------------------------------
(* A statement *)

StatementSet ==
  [before : Seq(PieceSet), pieces : Seq(PieceSet), end : {"semicolon", "newline", "nothing"}]

Spaced(stmt) ==
  /\ stmt \in StatementSet
  /\ \A n \in 1 .. Len(stmt.before) : Spacing(stmt.before[n])
  /\ \A n \in 1 .. Len(stmt.pieces) : InStatement(stmt.pieces[n])

\* What a statement is to be.
Told(stmt) == Stripped(MeantAll(stmt.before) \o <<"keyword">> \o MeantAll(stmt.pieces))

\* A statement without what ends it.
Unended(stmt) == WrittenAll(stmt.before) \o <<"keyword">> \o WrittenAll(stmt.pieces)

LEMMA ToldFrom ==
  ASSUME NEW stmt, Spaced(stmt), NEW text \in Seq(Token), NEW p \in Nat,
         Stands(text, p, WrittenAll(stmt.before))
  PROVE  Told(stmt) = Stripped(From(MeantAll(stmt.pieces)))
  <1> DEFINE a == MeantAll(stmt.before)
             k == <<"keyword">>
             g == MeantAll(stmt.pieces)
  <1>1. stmt.before \in Seq(PieceSet) /\ stmt.pieces \in Seq(PieceSet)
    BY DEF Spaced, StatementSet
  <1>2. a \in Seq(Token) /\ Blank(a)
    BY <1>1, AheadBefore DEF Spaced
  <1>3. g \in Seq(Token) /\ k \in Seq(Token)
    BY <1>1, AllType DEF Token
  <1>4. Told(stmt) = Stripped((a \o k) \o g) /\ From(g) = k \o g
    BY DEF Told, From
  <1> HIDE DEF a, k, g
  <1>5. (a \o k) \o g = a \o (k \o g) /\ k \o g \in Seq(Token)
    BY <1>2, <1>3, ConcatAssociative, ConcatProperties
  <1>6. Stripped(a \o (k \o g)) = Stripped(k \o g)
    BY <1>2, <1>5, StrippedLeft
  <1>7. Told(stmt) = Stripped(From(g))
    BY <1>4, <1>5, <1>6
  <1> QED
    BY <1>7 DEF g

\* The keyword of a statement is ahead of its comments.
LEMMA HeadStands ==
  ASSUME NEW stmt, Spaced(stmt), NEW text \in Seq(Token), NEW p \in Nat, Stands(text, p, Unended(stmt))
  PROVE  /\ Unended(stmt) \in Seq(Token)
         /\ Stands(text, p, WrittenAll(stmt.before))
         /\ Stands(text, p + Len(WrittenAll(stmt.before)), <<"keyword">>)
         /\ Stands(text, p + Len(WrittenAll(stmt.before)) + 1, WrittenAll(stmt.pieces))
         /\ Len(WrittenAll(stmt.before)) \in Nat /\ Len(WrittenAll(stmt.pieces)) \in Nat
         /\ Len(Unended(stmt)) = Len(WrittenAll(stmt.before)) + 1 + Len(WrittenAll(stmt.pieces))
  <1> DEFINE u == WrittenAll(stmt.before)
             k == <<"keyword">>
             v == WrittenAll(stmt.pieces)
  <1>1. u \in Seq(Token) /\ v \in Seq(Token)
    BY AllType DEF Spaced, StatementSet
  <1>2. k \in Seq(Token) /\ Len(k) = 1
    BY DEF Token
  <1>3. Stands(text, p, (u \o k) \o v) /\ Unended(stmt) = (u \o k) \o v
    BY DEF Unended
  <1> HIDE DEF u, k, v
  <1>4. u \o k \in Seq(Token) /\ Len(u \o k) = Len(u) + 1 /\ Len(u) \in Nat /\ Len(v) \in Nat
    <2>1. Len(v) \in Nat
      BY <1>1
    <2>2. u \o k \in Seq(Token) /\ Len(u \o k) = Len(u) + Len(k) /\ Len(u) \in Nat
      BY <1>1, <1>2, ConcatAt
    <2> QED
      BY <1>2, <2>1, <2>2
  <1>5. /\ Stands(text, p, u \o k) /\ Stands(text, p + Len(u \o k), v)
        /\ Len((u \o k) \o v) = Len(u \o k) + Len(v) /\ (u \o k) \o v \in Seq(Token)
    BY <1>1, <1>3, <1>4, ConcatStands, ConcatAt
  <1>6. Stands(text, p, u) /\ Stands(text, p + Len(u), k)
    BY <1>1, <1>2, <1>5, ConcatStands
  <1>7. p + Len(u \o k) = p + Len(u) + 1
    BY <1>4
  <1>8. Unended(stmt) \in Seq(Token) /\ Len(Unended(stmt)) = Len(u) + 1 + Len(v)
    BY <1>3, <1>4, <1>5
  <1>9. Stands(text, p + Len(u) + 1, v)
    BY <1>5, <1>7
  <1> QED
    BY <1>4, <1>6, <1>8, <1>9 DEF u, k, v

LEMMA AheadStatement ==
  ASSUME NEW stmt, Spaced(stmt), NEW text \in Seq(Token), NEW p \in Nat, Stands(text, p, Unended(stmt))
  PROVE  KeywordAhead(text, p)
  <1> DEFINE q == p + Len(WrittenAll(stmt.before))
  <1>1. Stands(text, p, WrittenAll(stmt.before)) /\ Stands(text, q, <<"keyword">>) /\ q \in Nat
    BY HeadStands
  <1>2. KeywordAhead(text, p) <=> KeywordAhead(text, q)
    BY <1>1, AheadBefore DEF Spaced, StatementSet
  <1> HIDE DEF q
  <1>3. q + 1 <= Len(text) /\ text[q + 1] = "keyword"
    BY <1>1, StandsOne DEF Token
  <1>4. q \in 0 .. Len(text) - 1
    BY <1>1, <1>3
  <1>5. KeywordAhead(text, q)
    BY <1>3, <1>4, AheadNow
  <1> QED
    BY <1>2, <1>5

\* A statement up to what ends it.
LEMMA ScanHead ==
  ASSUME NEW stmt, Spaced(stmt), NEW text \in Seq(Token), NEW p \in Nat, Stands(text, p, Unended(stmt)),
         NEW c \in Seq(Token), Blank(c), NEW d, Scan(text)[p] = At("code", c, d)
  PROVE  \E u \in Seq(Token) :
           Blank(u) /\ Kept(text, p + Len(Unended(stmt)), u, d, MeantAll(stmt.pieces))
  <1> DEFINE a == WrittenAll(stmt.before)
             b == WrittenAll(stmt.pieces)
             q == p + Len(a)
  <1>0. stmt.before \in Seq(PieceSet) /\ stmt.pieces \in Seq(PieceSet)
    BY DEF Spaced, StatementSet
  <1>1. /\ Stands(text, p, a) /\ Stands(text, q, <<"keyword">>) /\ Stands(text, q + 1, b)
        /\ q \in Nat /\ q + 1 \in Nat /\ Len(b) \in Nat /\ p + Len(Unended(stmt)) = q + 1 + Len(b)
    <2>1. /\ Stands(text, p, a) /\ Stands(text, q, <<"keyword">>) /\ Stands(text, q + 1, b)
          /\ Len(a) \in Nat /\ Len(b) \in Nat /\ Len(Unended(stmt)) = Len(a) + 1 + Len(b)
      BY HeadStands
    <2> HIDE DEF a, b
    <2> QED
      BY <2>1
  <1>2. PICK u \in Seq(Token) : Blank(u) /\ Scan(text)[q] = At("code", u, d)
    <2> DEFINE before == stmt.before
    <2>1. before \in Seq(PieceSet) /\ \A m \in 1 .. Len(before) : Spacing(before[m])
      BY DEF Spaced, StatementSet
    <2>2. Stands(text, p, WrittenAll(before)) /\ q = p + Len(WrittenAll(before))
      BY <1>1
    <2> HIDE DEF before, q
    <2> QED
      BY <2>1, <2>2, ScanBefore
  <1> HIDE DEF q
  <1>3. Scan(text)[q + 1] = At("code", Append(u, "keyword"), d)
    BY <1>1, <1>2, ScanPlain
  <1>4. Append(u, "keyword") = Whole(u, << >>)
    <2>1. "keyword" \in Token
      BY DEF Token
    <2>2. Append(u, "keyword") = u \o <<"keyword">>
      BY <2>1, AppendIsConcat
    <2>3. <<"keyword">> \o << >> = <<"keyword">>
      OBVIOUS
    <2> QED
      BY <2>2, <2>3 DEF Whole, From
  <1>5. Kept(text, q + 1, u, d, << >>)
    BY <1>3, <1>4 DEF Kept
  <1>6. Kept(text, q + 1 + Len(b), u, d, MeantAll(stmt.pieces))
    BY <1>0, <1>1, <1>2, <1>5, ScanPieces DEF Spaced
  <1> QED
    BY <1>1, <1>2, <1>6

\* What ends a statement before another one.
LEMMA ScanEnd ==
  ASSUME NEW text \in Seq(Token), NEW q \in Nat, NEW end \in {"semicolon", "newline"},
         Stands(text, q, <<end>>), KeywordAhead(text, q + 1),
         NEW u \in Seq(Token), Blank(u), NEW d, NEW g \in Seq(Token), Kept(text, q, u, d, g)
  PROVE  \E e \in Seq(Token) :
           Blank(e) /\ Scan(text)[q + 1] = At("code", e, Append(d, Stripped(From(g))))
  <1> DEFINE c == Whole(u, g)
             dd == Append(d, Stripped(From(g)))
  <1>1. c \in Seq(Token) /\ c # << >> /\ ~Blank(c) /\ Stripped(c) = Stripped(From(g))
    BY WholeType
  <1>2. << >> \in Seq(Token) /\ Blank(<< >>) /\ end \in Token
    BY DEF Blank, Token
  <1>3. q + 1 <= Len(text) /\ text[q + 1] = end /\ q \in 0 .. Len(text) - 1
    <2>1. q + 1 <= Len(text) /\ text[q + 1] = end
      BY <1>2, StandsOne
    <2> QED
      BY <2>1
  <1>4. Ended(At("code", c, d)) = At("code", << >>, dd)
    <2> HIDE DEF c
    <2> QED
      BY <1>1, EndedAt
  <1> HIDE DEF c, dd
  <1>5. \/ Scan(text)[q] = At("code", c, d)
        \/ /\ KeywordAhead(text, q)
           /\ \E e \in Seq(Token) : Blank(e) /\ Scan(text)[q] = At("code", e, dd)
    BY DEF Kept, c, dd
  <1>6. Scan(text)[q + 1] = Scanned(Scan(text)[q], text, q + 1)
    BY <1>3, ScanStep
  <1> SUFFICES \E e \in Seq(Token) : Blank(e) /\ Scan(text)[q + 1] = At("code", e, dd)
    BY DEF dd
  <1>7. CASE Scan(text)[q] = At("code", c, d)
    <2>1. CASE end = "semicolon"
      <3>1. Scan(text)[q + 1] = Ended(At("code", c, d))
        BY <1>3, <1>6, <1>7, <2>1, ScannedAt
      <3> QED
        BY <1>2, <1>4, <3>1
    <2>2. CASE end = "newline"
      <3>1. Stands(text, q, <<"newline">>)
        BY <2>2
      <3>2. Scan(text)[q + 1] = Ended(At("code", c, d))
        BY <1>1, <1>7, <3>1, ScanNewline
      <3> QED
        BY <1>2, <1>4, <3>2
    <2> QED
      BY <2>1, <2>2
  <1>8. ASSUME KeywordAhead(text, q), NEW e \in Seq(Token), Blank(e), Scan(text)[q] = At("code", e, dd)
        PROVE  \E a \in Seq(Token) : Blank(a) /\ Scan(text)[q + 1] = At("code", a, dd)
    <2>1. CASE end = "semicolon"
      <3>1. KeywordAhead(text, q) <=> text[q + 1] = "keyword"
        BY <1>3, <2>1, AheadNow
      <3> QED
        BY <1>3, <1>8, <2>1, <3>1
    <2>2. CASE end = "newline"
      <3>1. Stands(text, q, <<"newline">>)
        BY <2>2
      <3>2. \/ Scan(text)[q + 1] = Ended(At("code", e, dd))
            \/ Scan(text)[q + 1] = At("code", Append(e, "newline"), dd)
        BY <1>8, <3>1, ScanNewline
      <3>3. Ended(At("code", e, dd)) = At("code", << >>, dd)
        BY <1>8, EndedAt
      <3>4. Append(e, "newline") \in Seq(Token) /\ Blank(Append(e, "newline"))
        <4>1. <<"newline">> \in Seq(Token) /\ Blank(<<"newline">>) /\ "newline" \in Token
          BY DEF Blank, Token
        <4>2. Append(e, "newline") = e \o <<"newline">>
          BY <4>1, AppendIsConcat
        <4> QED
          BY <1>8, <4>1, <4>2, BlankConcat
      <3> QED
        BY <1>2, <3>2, <3>3, <3>4
    <2> QED
      BY <2>1, <2>2
  <1> QED
    BY <1>5, <1>7, <1>8

\* The end of a text.
LEMMA ScanLast ==
  ASSUME NEW text \in Seq(Token), NEW u \in Seq(Token), Blank(u), NEW d, NEW g \in Seq(Token),
         Kept(text, Len(text), u, d, g)
  PROVE  Ended(Scan(text)[Len(text)]).done = Append(d, Stripped(From(g)))
  <1> DEFINE c == Whole(u, g)
  <1>1. c \in Seq(Token) /\ ~Blank(c) /\ Stripped(c) = Stripped(From(g))
    BY WholeType
  <1>2. Scan(text)[Len(text)] = At("code", c, d)
    BY AheadEnd DEF Kept
  <1> HIDE DEF c
  <1>3. Ended(Scan(text)[Len(text)]) = At("code", << >>, Append(d, Stripped(c)))
    BY <1>1, <1>2, EndedAt
  <1> QED
    BY <1>1, <1>3 DEF At

\* The last statement of a text, and what ends it.
LEMMA ScanLastEnd ==
  ASSUME NEW text \in Seq(Token), NEW q \in Nat, NEW end \in {"semicolon", "newline"},
         Stands(text, q, <<end>>), q + 1 = Len(text),
         NEW u \in Seq(Token), Blank(u), NEW d, NEW g \in Seq(Token), Kept(text, q, u, d, g)
  PROVE  Ended(Scan(text)[Len(text)]).done = Append(d, Stripped(From(g)))
  <1>1. CASE end = "semicolon"
    <2> DEFINE c == Whole(u, g)
               dd == Append(d, Stripped(From(g)))
    <2>1. c \in Seq(Token) /\ ~Blank(c) /\ Stripped(c) = Stripped(From(g))
      BY WholeType
    <2>2. text[q + 1] = "semicolon" /\ q \in 0 .. Len(text) - 1
      <3>1. q + 1 <= Len(text) /\ text[q + 1] = end
        BY StandsOne DEF Token
      <3> QED
        BY <1>1, <3>1
    <2>3. KeywordAhead(text, q) <=> text[q + 1] = "keyword"
      BY <2>2, AheadNow
    <2>4. Scan(text)[q] = At("code", c, d)
      BY <2>2, <2>3 DEF Kept
    <2> HIDE DEF c
    <2>5. Scan(text)[q + 1] = Ended(At("code", c, d))
      <3>1. Scan(text)[q + 1] = Scanned(Scan(text)[q], text, q + 1)
        BY ScanStep
      <3> QED
        BY <2>2, <2>4, <3>1, ScannedAt
    <2>6. Ended(At("code", c, d)) = At("code", << >>, dd)
      BY <2>1, EndedAt
    <2> HIDE DEF dd
    <2>7. Ended(At("code", << >>, dd)) = At("code", << >>, dd)
      <3>1. << >> \in Seq(Token) /\ Blank(<< >>)
        BY DEF Blank
      <3> QED
        BY <3>1, EndedAt
    <2>8. Ended(Scan(text)[Len(text)]) = At("code", << >>, dd)
      BY <2>5, <2>6, <2>7
    <2> QED
      BY <2>8 DEF At, dd
  <1>2. CASE end = "newline"
    <2> DEFINE piece == Piece("newline", << >>)
               x == <<"newline">>
    <2>1. /\ piece \in PieceSet /\ Spacing(piece) /\ InStatement(piece)
          /\ Written(piece) = x /\ Meant(piece) = x
      BY DEF Piece, PieceSet, Spacing, InStatement, Written, Meant
    <2>2. x \in Seq(Token) /\ Len(x) = 1 /\ Blank(x) /\ Stands(text, q, x)
      BY <1>2 DEF Token, Blank
    <2> HIDE DEF piece, x
    <2>3. Kept(text, q + Len(x), u, d, g \o x)
      BY <2>1, <2>2, ScanPiece
    <2>4. Kept(text, Len(text), u, d, g \o x) /\ g \o x \in Seq(Token)
      BY <2>2, <2>3, ConcatProperties
    <2>5. Ended(Scan(text)[Len(text)]).done = Append(d, Stripped(From(g \o x)))
      <3> DEFINE y == g \o x
      <3>1. y \in Seq(Token) /\ Kept(text, Len(text), u, d, y)
        BY <2>4
      <3> HIDE DEF y
      <3>2. Ended(Scan(text)[Len(text)]).done = Append(d, Stripped(From(y)))
        BY <3>1, ScanLast
      <3> QED
        BY <3>2 DEF y
    <2>6. Stripped(From(g \o x)) = Stripped(From(g))
      <3>1. From(g \o x) = From(g) \o x /\ From(g) \in Seq(Token)
        BY <2>2, WholeMore, FromType
      <3> QED
        BY <2>2, <3>1, StrippedRight
    <2> QED
      BY <2>5, <2>6
  <1> QED
    BY <1>1, <1>2

\* A whole statement, before another one and at the end of the text.
LEMMA ScanStatement ==
  ASSUME NEW stmt, Spaced(stmt), NEW text \in Seq(Token), NEW p \in Nat, NEW q \in Nat,
         Stands(text, p, WrittenStatement(stmt)), q = p + Len(WrittenStatement(stmt)),
         NEW c \in Seq(Token), Blank(c), NEW d, Scan(text)[p] = At("code", c, d)
  PROVE  /\ KeywordAhead(text, p)
         /\ stmt.end # "nothing" /\ KeywordAhead(text, q) =>
              \E e \in Seq(Token) : Blank(e) /\ Scan(text)[q] = At("code", e, Append(d, Told(stmt)))
         /\ q = Len(text) => Ended(Scan(text)[Len(text)]).done = Append(d, Told(stmt))
  <1> DEFINE h == Unended(stmt)
             g == MeantAll(stmt.pieces)
             z == IF stmt.end = "nothing" THEN << >> ELSE <<stmt.end>>
             r == p + Len(h)
  <1>1. stmt.end \in {"semicolon", "newline", "nothing"} /\ g \in Seq(Token)
    BY AllType DEF Spaced, StatementSet
  <1>2. z \in Seq(Token)
    <2>1. CASE stmt.end = "nothing"
      BY <2>1
    <2>2. CASE stmt.end \in {"semicolon", "newline"}
      <3>1. stmt.end \in Token /\ z = <<stmt.end>>
        BY <2>2 DEF Token
      <3> QED
        BY <3>1
    <2> QED
      BY <1>1, <2>1, <2>2
  <1>3. WrittenStatement(stmt) = h \o z
    BY DEF WrittenStatement, Unended
  <1>4. h \in Seq(Token)
    <2>1. WrittenAll(stmt.before) \in Seq(Token) /\ WrittenAll(stmt.pieces) \in Seq(Token)
      BY AllType DEF Spaced, StatementSet
    <2>2. <<"keyword">> \in Seq(Token)
      BY DEF Token
    <2> QED
      BY <2>1, <2>2, ConcatProperties DEF Unended
  <1>5. Stands(text, p, h) /\ Stands(text, r, z) /\ q = r + Len(z) /\ r \in Nat
    <2> HIDE DEF h, z
    <2>1. Stands(text, p, h) /\ Stands(text, p + Len(h), z) /\ Len(h \o z) = Len(h) + Len(z)
      BY <1>2, <1>3, <1>4, ConcatStands
    <2>2. Len(h) \in Nat /\ Len(z) \in Nat
      BY <1>2, <1>4
    <2> QED
      BY <1>3, <2>1, <2>2
  <1>6. Told(stmt) = Stripped(From(g))
    BY <1>5, HeadStands, ToldFrom
  <1>7. PICK u \in Seq(Token) : Blank(u) /\ Kept(text, r, u, d, g)
    BY <1>5, ScanHead
  <1>8. KeywordAhead(text, p)
    BY <1>5, AheadStatement
  <1> HIDE DEF g, r
  <1>9. CASE stmt.end = "nothing"
    <2>1. z = << >> /\ q = r
      <3>1. z = << >> /\ Len(z) = 0
        BY <1>9
      <3> HIDE DEF z
      <3> QED
        BY <1>5, <3>1
    <2>2. q = Len(text) => Ended(Scan(text)[Len(text)]).done = Append(d, Stripped(From(g)))
      BY <1>1, <1>7, <2>1, ScanLast
    <2> QED
      BY <1>6, <1>8, <1>9, <2>2
  <1>10. CASE stmt.end \in {"semicolon", "newline"}
    <2> DEFINE end == stmt.end
    <2>1. end \in {"semicolon", "newline"} /\ z = <<end>> /\ Len(z) = 1
      BY <1>10
    <2> HIDE DEF end, z
    <2>2. q = r + 1 /\ Stands(text, r, <<end>>)
      BY <1>5, <2>1
    <2>3. KeywordAhead(text, q) =>
            \E e \in Seq(Token) : Blank(e) /\ Scan(text)[q] = At("code", e, Append(d, Stripped(From(g))))
      BY <1>1, <1>5, <1>7, <2>1, <2>2, ScanEnd
    <2>4. q = Len(text) => Ended(Scan(text)[Len(text)]).done = Append(d, Stripped(From(g)))
      BY <1>1, <1>5, <1>7, <2>1, <2>2, ScanLastEnd
    <2> QED
      BY <1>6, <1>8, <2>3, <2>4
  <1> QED
    BY <1>1, <1>9, <1>10

-----------------------------------------------------------------------------
(* A script *)

LEMMA StatementStands ==
  ASSUME NEW stmt, Spaced(stmt)
  PROVE  /\ WrittenStatement(stmt) \in Seq(Token) /\ Told(stmt) \in Seq(Token)
         /\ \A text \in Seq(Token), p \in Nat :
              Stands(text, p, WrittenStatement(stmt)) => KeywordAhead(text, p)
  <1> DEFINE h == Unended(stmt)
             z == IF stmt.end = "nothing" THEN << >> ELSE <<stmt.end>>
             k == <<"keyword">>
  <1>1. stmt.end \in {"semicolon", "newline", "nothing"} /\ k \in Seq(Token)
        /\ WrittenAll(stmt.before) \in Seq(Token) /\ WrittenAll(stmt.pieces) \in Seq(Token)
        /\ MeantAll(stmt.before) \in Seq(Token) /\ MeantAll(stmt.pieces) \in Seq(Token)
    BY AllType DEF Spaced, StatementSet, Token
  <1>2. z \in Seq(Token)
    <2>1. CASE stmt.end = "nothing"
      BY <2>1
    <2>2. CASE stmt.end \in {"semicolon", "newline"}
      <3>1. stmt.end \in Token /\ z = <<stmt.end>>
        BY <2>2 DEF Token
      <3> QED
        BY <3>1
    <2> QED
      BY <1>1, <2>1, <2>2
  <1>3. WrittenStatement(stmt) = h \o z
    BY DEF WrittenStatement, Unended
  <1>4. h \in Seq(Token)
    BY <1>1, ConcatProperties DEF Unended
  <1>5. Told(stmt) \in Seq(Token)
    <2> DEFINE part == MeantAll(stmt.before) \o k \o MeantAll(stmt.pieces)
    <2>1. part \in Seq(Token)
      <3> HIDE DEF k
      <3> QED
        BY <1>1, ConcatProperties
    <2> HIDE DEF part
    <2>2. Stripped(part) \in Seq(Token)
      BY <2>1, StrippedType
    <2> QED
      BY <2>2 DEF Told, part
  <1>6. ASSUME NEW text \in Seq(Token), NEW p \in Nat, Stands(text, p, WrittenStatement(stmt))
        PROVE  KeywordAhead(text, p)
    <2>1. Stands(text, p, h)
      <3> HIDE DEF h, z
      <3> QED
        BY <1>2, <1>3, <1>4, <1>6, ConcatStands
    <2> QED
      BY <2>1, AheadStatement
  <1>7. h \o z \in Seq(Token)
    <2> HIDE DEF h, z
    <2> QED
      BY <1>2, <1>4, ConcatProperties
  <1> QED
    BY <1>3, <1>5, <1>6, <1>7

LEMMA StandsWhole ==
  ASSUME NEW text \in Seq(Token)
  PROVE  Stands(text, 0, text)
  BY DEF Stands

\* The first of a sequence, and one more.
LEMMA Firsts ==
  ASSUME NEW T, NEW t \in Seq(T), NEW k \in 0 .. Len(t) - 1
  PROVE  Append([j \in 1 .. k |-> t[j]], t[k + 1]) = [j \in 1 .. k + 1 |-> t[j]]
  <1> DEFINE a == [j \in 1 .. k |-> t[j]]
             b == [j \in 1 .. k + 1 |-> t[j]]
             x == t[k + 1]
  <1>1. k \in Nat /\ k + 1 \in 1 .. Len(t) /\ \A j \in 1 .. k + 1 : j \in 1 .. Len(t)
    OBVIOUS
  <1>2. \A j \in 1 .. k + 1 : t[j] \in T
    BY <1>1
  <1>3. a \in Seq(T) /\ Len(a) = k /\ b \in Seq(T) /\ Len(b) = k + 1
    BY <1>1, <1>2
  <1>4. x \in T /\ b[k + 1] = x /\ \A j \in 1 .. k : a[j] = t[j] /\ b[j] = t[j]
    BY <1>1, <1>2
  <1> HIDE DEF a, b, x
  <1>5. Append(a, x) \in Seq(T) /\ Len(Append(a, x)) = k + 1 /\ Append(a, x)[k + 1] = x
        /\ \A j \in 1 .. k : Append(a, x)[j] = a[j]
    BY <1>1, <1>3, <1>4, AppendProperties
  <1>6. \A j \in 1 .. k + 1 : Append(a, x)[j] = b[j]
    BY <1>1, <1>4, <1>5
  <1>7. Append(a, x) = b
    BY <1>3, <1>5, <1>6, SeqEqual
  <1> QED
    BY <1>7 DEF a, b, x

\* Every statement of a separated script is found.
LEMMA ScriptSplit ==
  ASSUME NEW s \in Seq(StatementSet), \A k \in 1 .. Len(s) : Spaced(s[k]),
         \A k \in 1 .. Len(s) - 1 : s[k].end # "nothing"
  PROVE  SplitStatements(FlattenSeq([k \in DOMAIN s |-> WrittenStatement(s[k])])) =
           [k \in DOMAIN s |-> Told(s[k])]
  <1> DEFINE n == Len(s)
             ws == [k \in 1 .. n |-> WrittenStatement(s[k])]
             text == FlattenSeq(ws)
             first(k) == [j \in 1 .. k |-> Told(s[j])]
  <1>1. n \in Nat /\ DOMAIN s = 1 .. n
    OBVIOUS
  <1>2. \A k \in 1 .. n : WrittenStatement(s[k]) \in Seq(Token) /\ Told(s[k]) \in Seq(Token)
    BY StatementStands
  <1>3. ws \in Seq(Seq(Token)) /\ Len(ws) = n /\ \A k \in 1 .. n : ws[k] = WrittenStatement(s[k])
    <2> HIDE DEF n
    <2> QED
      BY <1>1, <1>2
  <1>4. text \in Seq(Token)
    <2> HIDE DEF ws, n
    <2>1. PICK f \in [0 .. Len(ws) -> Seq(Token)] : Joins(f, ws) /\ f[Len(ws)] = FlattenSeq(ws)
      BY <1>3, FlattenDef
    <2>2. Len(ws) \in 0 .. Len(ws)
      BY <1>1, <1>3
    <2> QED
      BY <2>1, <2>2
  <1>5. Stands(text, 0, FlattenSeq(ws))
    <2> HIDE DEF ws
    <2> QED
      BY <1>4, StandsWhole
  <1>6. PICK at \in [0 .. n -> Nat] :
          at[0] = 0 /\ at[n] = Len(text) /\ StandsAll(text, at, ws)
    <2> HIDE DEF ws, n, text
    <2>1. PICK at \in [0 .. Len(ws) -> Nat] :
            /\ at[0] = 0 /\ at[Len(ws)] = 0 + Len(FlattenSeq(ws)) /\ StandsAll(text, at, ws)
      BY <1>3, <1>4, <1>5, JoinedAt
    <2>2. 0 + Len(text) = Len(text)
      BY <1>4
    <2> QED
      BY <1>3, <2>1, <2>2 DEF text
  <1> HIDE DEF ws, text
  <1>7. \A k \in 1 .. n : /\ at[k] \in Nat /\ at[k - 1] \in Nat
                          /\ at[k] = at[k - 1] + Len(WrittenStatement(s[k]))
                          /\ Stands(text, at[k - 1], WrittenStatement(s[k]))
    <2>1. \A k \in 1 .. n : k \in 0 .. n /\ k - 1 \in 0 .. n
      BY <1>1
    <2> HIDE DEF n
    <2>2. \A k \in 1 .. n : at[k] \in Nat /\ at[k - 1] \in Nat
      BY <1>6, <2>1
    <2> QED
      BY <1>3, <1>6, <2>2 DEF StandsAll
  <1>8. \A k \in 1 .. n : KeywordAhead(text, at[k - 1])
    BY <1>4, <1>7, StatementStands
  <1>9. \A k \in 0 .. n - 1 : Append(first(k), Told(s[k + 1])) = first(k + 1)
    <2> DEFINE t == [j \in 1 .. n |-> Told(s[j])]
    <2>1. t \in Seq(Seq(Token)) /\ Len(t) = n /\ \A j \in 1 .. n : t[j] = Told(s[j])
      <3> HIDE DEF n
      <3> QED
        BY <1>1, <1>2
    <2> SUFFICES ASSUME NEW k \in 0 .. n - 1 PROVE Append(first(k), Told(s[k + 1])) = first(k + 1)
      OBVIOUS
    <2>2. k + 1 \in 1 .. n /\ \A j \in 1 .. k + 1 : j \in 1 .. n
      <3> HIDE DEF n
      <3> QED
        BY <1>1
    <2>3. first(k) = [j \in 1 .. k |-> t[j]] /\ first(k + 1) = [j \in 1 .. k + 1 |-> t[j]]
          /\ t[k + 1] = Told(s[k + 1])
      BY <2>1, <2>2
    <2>4. k \in 0 .. Len(t) - 1
      BY <2>1
    <2> HIDE DEF t
    <2>5. Append([j \in 1 .. k |-> t[j]], t[k + 1]) = [j \in 1 .. k + 1 |-> t[j]]
      BY <2>1, <2>4, Firsts
    <2> QED
      BY <2>3, <2>5
  <1>10. first(0) = << >> /\ first(n) = [k \in DOMAIN s |-> Told(s[k])]
    BY <1>1
  <1> HIDE DEF first
  <1> DEFINE Found(k) == \E e \in Seq(Token) : Blank(e) /\ Scan(text)[at[k]] = At("code", e, first(k))
             S == {k \in 0 .. n : k < n => Found(k)}
  <1>11. Found(0) /\ 0 \in S
    <2>1. << >> \in Seq(Token) /\ Blank(<< >>)
      BY DEF Blank
    <2>2. Scan(text)[at[0]] = At("code", << >>, first(0))
      BY <1>4, <1>6, <1>10, ScanDef DEF Start, At
    <2>3. Found(0)
      BY <2>1, <2>2, Zenon
    <2>4. 0 \in 0 .. n
      BY <1>1
    <2> HIDE DEF Found
    <2> QED
      BY <2>3, <2>4
  <1>12. ASSUME NEW k \in 0 .. n - 1, k \in S PROVE k + 1 \in S
    <2> SUFFICES ASSUME k + 1 < n PROVE Found(k + 1)
      BY <1>1
    <2>1. k + 1 \in 1 .. n - 1 /\ k + 1 \in 1 .. n /\ k + 2 \in 1 .. n /\ (k + 1) - 1 = k
          /\ (k + 2) - 1 = k + 1 /\ k < n
      <3> HIDE DEF n
      <3> QED
        BY <1>1
    <2>2. PICK e \in Seq(Token) : Blank(e) /\ Scan(text)[at[k]] = At("code", e, first(k))
      BY <1>12, <2>1
    <2> DEFINE stmt == s[k + 1]
               p == at[k]
               q == at[k + 1]
    <2>3. Spaced(stmt) /\ stmt.end # "nothing" /\ Stands(text, p, WrittenStatement(stmt))
          /\ q = p + Len(WrittenStatement(stmt)) /\ p \in Nat /\ q \in Nat
      BY <1>7, <2>1
    <2>4. KeywordAhead(text, q)
      BY <1>8, <2>1
    <2>5. Scan(text)[p] = At("code", e, first(k))
      BY <2>2
    <2> HIDE DEF stmt, p, q
    <2>6. \E a \in Seq(Token) : Blank(a) /\ Scan(text)[q] = At("code", a, Append(first(k), Told(stmt)))
      BY <1>4, <2>2, <2>3, <2>4, <2>5, ScanStatement
    <2>7. Append(first(k), Told(stmt)) = first(k + 1)
      BY <1>9 DEF stmt
    <2> QED
      BY <2>6, <2>7 DEF q
  <1>13. 0 .. n \subseteq S
    <2> HIDE DEF S, n
    <2> QED
      BY <1>1, <1>11, <1>12, IntervalInduction
  <1>14. Ended(Scan(text)[Len(text)]).done = first(n)
    <2>1. CASE n = 0
      <3>1. Scan(text)[Len(text)] = At("code", << >>, << >>)
        BY <1>4, <1>6, <2>1, ScanDef DEF Start, At
      <3>2. << >> \in Seq(Token) /\ Blank(<< >>)
        BY DEF Blank
      <3>3. Ended(At("code", << >>, << >>)) = At("code", << >>, << >>)
        BY <3>2, EndedAt
      <3> QED
        BY <1>10, <2>1, <3>1, <3>3 DEF At
    <2>2. CASE n > 0
      <3> DEFINE k == n - 1
                 stmt == s[n]
                 p == at[k]
                 q == at[n]
      <3>1. k \in 0 .. n - 1 /\ k \in 0 .. n /\ k < n /\ n \in 1 .. n /\ k + 1 = n
        <4> HIDE DEF n
        <4> QED
          BY <1>1, <2>2
      <3>2. k \in S
        <4> HIDE DEF S, k
        <4> QED
          BY <1>13, <3>1
      <3>3. PICK e \in Seq(Token) : Blank(e) /\ Scan(text)[p] = At("code", e, first(k))
        BY <3>1, <3>2
      <3>4. Spaced(stmt) /\ Stands(text, p, WrittenStatement(stmt))
            /\ q = p + Len(WrittenStatement(stmt)) /\ p \in Nat /\ q \in Nat /\ q = Len(text)
        BY <1>6, <1>7, <3>1
      <3>5. Append(first(k), Told(stmt)) = first(n)
        <4>1. Append(first(k), Told(s[k + 1])) = first(k + 1)
          BY <1>9, <3>1
        <4> QED
          BY <3>1, <4>1
      <3> HIDE DEF stmt, p, q, k
      <3>6. Ended(Scan(text)[Len(text)]).done = Append(first(k), Told(stmt))
        BY <1>4, <3>3, <3>4, ScanStatement
      <3> QED
        BY <3>5, <3>6
    <2> QED
      BY <1>1, <2>1, <2>2
  <1>15. SplitStatements(text) = [k \in DOMAIN s |-> Told(s[k])]
    BY <1>10, <1>14 DEF SplitStatements
  <1> QED
    BY <1>1, <1>15 DEF text, ws

-----------------------------------------------------------------------------
(* The converter reads a script *)

ScriptInv ==
  /\ script \in Script \/ script = << >>
  /\ parsed = NotParsed \/ parsed.statements = {SplitStatements(WrittenScript)}

\* Every statement of every script is found, whole and alone, with its comments taken out.
THEOREM SplitExactHolds == ParseSpec => []SplitExact
  <1>1. ParseInit => ScriptInv
    BY DEF ParseInit, ScriptInv
  <1>2. ScriptInv /\ [Parse]_scriptVars => ScriptInv'
    <2> SUFFICES ASSUME ScriptInv, [Parse]_scriptVars PROVE ScriptInv'
      OBVIOUS
    <2>1. CASE Parse
      <3>1. script' = script /\ parsed'.statements = {SplitStatements(WrittenScript)}
        BY <2>1 DEF Parse
      <3> QED
        BY <3>1 DEF ScriptInv, WrittenScript
    <2>2. CASE UNCHANGED scriptVars
      BY <2>2 DEF scriptVars, ScriptInv, WrittenScript
    <2> QED
      BY <2>1, <2>2
  <1>3. ScriptInv => SplitExact
    <2> SUFFICES ASSUME ScriptInv, parsed # NotParsed, Separated
                 PROVE  parsed.statements = {[k \in DOMAIN script |-> Told(script[k])]}
      BY DEF SplitExact, Told
    <2>1. parsed.statements = {SplitStatements(WrittenScript)}
      BY DEF ScriptInv
    <2>2. script \in Seq(StatementSet) /\ \A k \in 1 .. Len(script) : Spaced(script[k])
      <3>1. CASE script = << >>
        BY <3>1
      <3>2. CASE script \in Script
        <4>1. /\ script \in Seq(StatementSet)
              /\ \A k \in DOMAIN script :
                   /\ \A n \in DOMAIN script[k].before : Spacing(script[k].before[n])
                   /\ \A n \in DOMAIN script[k].pieces : InStatement(script[k].pieces[n])
          BY <3>2, ScriptAssumption DEF StatementSet, InStatement
        <4>2. ASSUME NEW k \in 1 .. Len(script) PROVE Spaced(script[k])
          <5>1. script[k] \in StatementSet /\ k \in DOMAIN script
            BY <4>1
          <5>2. script[k].before \in Seq(PieceSet) /\ script[k].pieces \in Seq(PieceSet)
            BY <5>1 DEF StatementSet
          <5>3. /\ DOMAIN script[k].before = 1 .. Len(script[k].before)
                /\ DOMAIN script[k].pieces = 1 .. Len(script[k].pieces)
            BY <5>2
          <5> QED
            BY <4>1, <5>1, <5>3 DEF Spaced
        <4> QED
          BY <4>1, <4>2
      <3> QED
        BY <3>1, <3>2 DEF ScriptInv
    <2>3. \A k \in 1 .. Len(script) - 1 : script[k].end # "nothing"
      BY DEF Separated
    <2>4. SplitStatements(WrittenScript) = [k \in DOMAIN script |-> Told(script[k])]
      BY <2>2, <2>3, ScriptSplit DEF WrittenScript
    <2> QED
      BY <2>1, <2>4
  <1> QED
    BY <1>1, <1>2, <1>3, PTL DEF ParseSpec

-----------------------------------------------------------------------------
(* The definitions of a table *)

LEMMA DepthStep ==
  ASSUME NEW text \in Seq(Token), NEW p \in Nat, p + 1 <= Len(text)
  PROVE  /\ Depths(text)[p] \in Int /\ Depths(text)[p + 1] \in Int
         /\ Depths(text)[p + 1] =
              Depths(text)[p] + (IF text[p + 1] = "(" THEN 1 ELSE IF text[p + 1] = ")" THEN -1 ELSE 0)
  <1>1. p + 1 \in DOMAIN text /\ (p + 1) - 1 = p /\ p \in 0 .. Len(text) /\ p + 1 \in 0 .. Len(text)
    OBVIOUS
  <1> QED
    BY <1>1, DepthsDef

\* The parentheses of a part count from what is open before it.
LEMMA DepthsStand ==
  ASSUME NEW text \in Seq(Token), NEW p \in Nat, NEW part \in Seq(Token), Stands(text, p, part)
  PROVE  \A j \in 0 .. Len(part) : Depths(text)[p + j] = Depths(text)[p] + Depths(part)[j]
  <1> DEFINE n == Len(part)
             S == {j \in 0 .. n : Depths(text)[p + j] = Depths(text)[p] + Depths(part)[j]}
  <1>1. n \in Nat /\ Len(text) \in Nat /\ p + n <= Len(text) /\ \A i \in 1 .. n : text[p + i] = part[i]
    BY DEF Stands
  <1>2. 0 \in S
    <2>1. p \in 0 .. Len(text)
      BY <1>1
    <2>2. Depths(text)[p] \in Int /\ Depths(part)[0] = 0
      BY <2>1, DepthsDef
    <2> QED
      BY <1>1, <2>2
  <1>3. ASSUME NEW j \in 0 .. n - 1, j \in S PROVE j + 1 \in S
    <2>1. j \in Nat /\ p + j \in Nat /\ (p + j) + 1 <= Len(text) /\ j + 1 <= n
          /\ text[(p + j) + 1] = part[j + 1] /\ j + 1 \in 0 .. n /\ p + (j + 1) = (p + j) + 1
      <3>1. j \in Nat /\ j + 1 \in 1 .. n
        BY <1>1
      <3>2. text[p + (j + 1)] = part[j + 1]
        BY <1>1, <3>1
      <3> QED
        BY <1>1, <3>1, <3>2
    <2> DEFINE t == Depths(text)
               u == Depths(part)
               by == IF part[j + 1] = "(" THEN 1 ELSE IF part[j + 1] = ")" THEN -1 ELSE 0
    <2>2. t[p + j] \in Int /\ t[(p + j) + 1] = t[p + j] + by
      BY <2>1, DepthStep
    <2>3. u[j] \in Int /\ u[j + 1] = u[j] + by
      BY <2>1, DepthStep
    <2>4. t[p + j] = t[p] + u[j]
      BY <1>3
    <2>5. by \in Int /\ t[p] \in Int
      <3>1. p \in 0 .. Len(text)
        BY <1>1
      <3>2. t[p] \in Int
        BY <3>1, DepthsDef
      <3>3. by \in Int
        OBVIOUS
      <3> QED
        BY <3>2, <3>3
    <2> HIDE DEF t, u, by
    <2>6. t[p + (j + 1)] = t[p] + u[j + 1]
      BY <2>1, <2>2, <2>3, <2>4, <2>5
    <2> QED
      BY <2>1, <2>6 DEF t, u
  <1>4. 0 .. n \subseteq S
    <2> HIDE DEF S, n
    <2> QED
      BY <1>1, <1>2, <1>3, IntervalInduction
  <1> QED
    BY <1>4

\* From p to q the parentheses match.
Level(text, p, q) ==
  /\ p <= q /\ q <= Len(text) /\ Depths(text)[q] = Depths(text)[p]
  /\ \A j \in p .. q : Depths(text)[j] >= Depths(text)[p]

LEMMA LevelTransitive ==
  ASSUME NEW text \in Seq(Token), NEW p \in Nat, NEW q \in Nat, NEW r \in Nat,
         Level(text, p, q), Level(text, q, r)
  PROVE  Level(text, p, r)
  <1> DEFINE t == Depths(text)
  <1>1. p <= q /\ q <= r /\ r <= Len(text) /\ t[q] = t[p] /\ t[r] = t[p]
        /\ (\A j \in p .. q : t[j] >= t[p]) /\ \A j \in q .. r : t[j] >= t[p]
    BY DEF Level
  <1>2. \A j \in p .. r : j \in p .. q \/ j \in q .. r
    BY <1>1
  <1> QED
    BY <1>1, <1>2 DEF Level

LEMMA LevelPiece ==
  ASSUME NEW text \in Seq(Token), NEW p \in Nat, NEW part \in Seq(Token), Stands(text, p, part),
         Closed(part), Plain(part)
  PROVE  Level(text, p, p + Len(part))
  <1> DEFINE n == Len(part)
             t == Depths(text)
             u == Depths(part)
  <1>1. n \in Nat /\ Len(text) \in Nat /\ p + n <= Len(text)
    BY DEF Stands
  <1>2. \A j \in 0 .. n : t[p + j] = t[p] + u[j]
    BY DepthsStand
  <1>3. u[n] = 0 /\ \A j \in 1 .. n : u[j] >= 0
    BY DEF Closed
  <1>4. u[0] = 0 /\ t[p] \in Int /\ \A j \in 0 .. n : u[j] \in Int
    <2>1. p \in 0 .. Len(text)
      BY <1>1
    <2> QED
      BY <2>1, DepthsDef
  <1> HIDE DEF n, t, u
  <1>5. t[p + n] = t[p]
    BY <1>1, <1>2, <1>3, <1>4
  <1>6. ASSUME NEW j \in p .. p + n PROVE t[j] >= t[p]
    <2>1. j - p \in 0 .. n /\ p + (j - p) = j
      BY <1>1
    <2>2. u[j - p] >= 0
      BY <1>3, <1>4, <2>1
    <2>3. t[j] = t[p] + u[j - p]
      BY <1>2, <2>1
    <2> QED
      BY <1>4, <2>1, <2>2, <2>3
  <1>7. p <= p + n
    BY <1>1
  <1> QED
    BY <1>1, <1>5, <1>6, <1>7 DEF Level, n, t

LEMMA LevelOne ==
  ASSUME NEW text \in Seq(Token), NEW p \in Nat, p + 1 <= Len(text), text[p + 1] = "comma"
  PROVE  Level(text, p, p + 1)
  <1>1. Depths(text)[p] \in Int /\ Depths(text)[p + 1] = Depths(text)[p]
    BY DepthStep
  <1>2. p .. p + 1 = {p, p + 1} /\ p <= p + 1
    OBVIOUS
  <1> QED
    BY <1>1, <1>2 DEF Level

LEMMA LevelNone ==
  ASSUME NEW text \in Seq(Token), NEW p \in 0 .. Len(text)
  PROVE  Level(text, p, p)
  <1>1. Depths(text)[p] \in Int
    BY DepthsDef
  <1>2. p .. p = {p}
    OBVIOUS
  <1> QED
    BY <1>1, <1>2 DEF Level

LEMMA LevelAll ==
  ASSUME NEW text \in Seq(Token), NEW n \in Nat, NEW at \in [0 .. n -> Nat], at[0] <= Len(text),
         \A k \in 1 .. n : Level(text, at[k - 1], at[k])
  PROVE  Level(text, at[0], at[n])
  <1> DEFINE S == {k \in 0 .. n : Level(text, at[0], at[k])}
  <1>1. 0 \in S
    <2>1. at[0] \in 0 .. Len(text)
      OBVIOUS
    <2> QED
      BY <2>1, LevelNone
  <1>2. ASSUME NEW k \in 0 .. n - 1, k \in S PROVE k + 1 \in S
    <2>1. k + 1 \in 1 .. n /\ k + 1 \in 0 .. n /\ k \in 0 .. n /\ (k + 1) - 1 = k /\ 0 \in 0 .. n
      OBVIOUS
    <2>2. Level(text, at[k], at[k + 1]) /\ Level(text, at[0], at[k])
      BY <1>2, <2>1
    <2>3. at[0] \in Nat /\ at[k] \in Nat /\ at[k + 1] \in Nat
      BY <2>1
    <2>4. Level(text, at[0], at[k + 1])
      BY <2>2, <2>3, LevelTransitive
    <2> QED
      BY <2>1, <2>4
  <1>3. 0 .. n \subseteq S
    <2> HIDE DEF S
    <2> QED
      BY <1>1, <1>2, IntervalInduction
  <1> QED
    BY <1>3

\* The state of a split.
Shape(parts, current, depth, quoted) ==
  [parts |-> parts, current |-> current, depth |-> depth, quoted |-> quoted]

LEMMA ShapeCurrent ==
  ASSUME NEW ps, NEW c, NEW dep, NEW quo, NEW x
  PROVE  [Shape(ps, c, dep, quo) EXCEPT !.current = x] = Shape(ps, x, dep, quo)
  BY DEF Shape

LEMMA ShapeQuoted ==
  ASSUME NEW ps, NEW c, NEW dep, NEW quo, NEW y
  PROVE  [Shape(ps, c, dep, quo) EXCEPT !.quoted = y] = Shape(ps, c, dep, y)
  BY DEF Shape

LEMMA ShapeDepth ==
  ASSUME NEW ps, NEW c, NEW dep, NEW quo, NEW y
  PROVE  [Shape(ps, c, dep, quo) EXCEPT !.depth = y] = Shape(ps, c, y, quo)
  BY DEF Shape

LEMMA ShapeParts ==
  ASSUME NEW ps, NEW c, NEW dep, NEW quo, NEW y
  PROVE  [Shape(ps, c, dep, quo) EXCEPT !.parts = y] = Shape(y, c, dep, quo)
  BY DEF Shape

LEMMA ShapeFields ==
  ASSUME NEW ps, NEW c, NEW dep, NEW quo
  PROVE  /\ Shape(ps, c, dep, quo).parts = ps /\ Shape(ps, c, dep, quo).current = c
         /\ Shape(ps, c, dep, quo).depth = dep /\ Shape(ps, c, dep, quo).quoted = quo
  BY DEF Shape

LEMMA CutStep ==
  ASSUME NEW body \in Seq(Token), NEW p \in Nat, p + 1 <= Len(body)
  PROVE  /\ Cuts(body)[p] \in Cuttings /\ body[p + 1] \in Token
         /\ Cuts(body)[p + 1] = Cut(Cuts(body)[p], body[p + 1])
  <1>1. p + 1 \in 1 .. Len(body) /\ (p + 1) - 1 = p /\ p \in 0 .. Len(body)
    OBVIOUS
  <1>2. body[p + 1] \in Token
    BY <1>1, ElementOfSeq
  <1> QED
    BY <1>1, <1>2, CutsDef

\* A token that is no end of a definition.
LEMMA CutWithin ==
  ASSUME NEW ps, NEW c, NEW dep \in Int, NEW quo \in BOOLEAN, NEW token \in Token,
         token = "comma" => quo \/ dep > 0, token \in {"(", ")"} => ~quo
  PROVE  Cut(Shape(ps, c, dep, quo), token) =
           Shape(ps, Append(c, token),
                 dep + (IF token = "(" THEN 1 ELSE IF token = ")" THEN -1 ELSE 0),
                 IF token = "quote" THEN ~quo ELSE quo)
  <1> DEFINE cut == Shape(ps, c, dep, quo)
             x == Append(c, token)
             by == IF token = "(" THEN 1 ELSE IF token = ")" THEN -1 ELSE 0
             not == ~quo
             up == dep + 1
             down == dep - 1
  <1>1. cut.parts = ps /\ cut.current = c /\ cut.depth = dep /\ cut.quoted = quo
    BY ShapeFields
  <1>2. /\ token = "(" => dep + by = up
        /\ token = ")" => dep + by = down
        /\ token \notin {"(", ")"} => dep + by = dep
    OBVIOUS
  <1> HIDE DEF x, by, not, up, down
  <1>4. [cut EXCEPT !.current = x] = Shape(ps, x, dep, quo)
    BY ShapeCurrent
  <1>5. [cut EXCEPT !.quoted = not, !.current = x] = Shape(ps, x, dep, not)
    <2> DEFINE r == [cut EXCEPT !.quoted = not]
    <2>1. [cut EXCEPT !.quoted = not, !.current = x] = [r EXCEPT !.current = x]
      OBVIOUS
    <2>2. r = Shape(ps, c, dep, not)
      BY ShapeQuoted
    <2> HIDE DEF cut, r
    <2>3. [r EXCEPT !.current = x] = Shape(ps, x, dep, not)
      BY <2>2, ShapeCurrent
    <2> QED
      BY <2>1, <2>3
  <1>6. [cut EXCEPT !.depth = up, !.current = x] = Shape(ps, x, up, quo)
    <2> DEFINE r == [cut EXCEPT !.depth = up]
    <2>1. [cut EXCEPT !.depth = up, !.current = x] = [r EXCEPT !.current = x]
      OBVIOUS
    <2>2. r = Shape(ps, c, up, quo)
      BY ShapeDepth
    <2> HIDE DEF cut, r
    <2>3. [r EXCEPT !.current = x] = Shape(ps, x, up, quo)
      BY <2>2, ShapeCurrent
    <2> QED
      BY <2>1, <2>3
  <1>7. [cut EXCEPT !.depth = down, !.current = x] = Shape(ps, x, down, quo)
    <2> DEFINE r == [cut EXCEPT !.depth = down]
    <2>1. [cut EXCEPT !.depth = down, !.current = x] = [r EXCEPT !.current = x]
      OBVIOUS
    <2>2. r = Shape(ps, c, down, quo)
      BY ShapeDepth
    <2> HIDE DEF cut, r
    <2>3. [r EXCEPT !.current = x] = Shape(ps, x, down, quo)
      BY <2>2, ShapeCurrent
    <2> QED
      BY <2>1, <2>3
  <1> DEFINE now == IF token = "quote" THEN ~quo ELSE quo
  <1> SUFFICES Cut(cut, token) = Shape(ps, x, dep + by, now)
    BY DEF x, by
  <1> HIDE DEF cut
  <1>8. CASE token = "quote"
    <2>1. Cut(cut, token) = [cut EXCEPT !.quoted = ~cut.quoted, !.current = Append(cut.current, token)]
      BY <1>8, Zenon DEF Cut
    <2>2. Cut(cut, token) = [cut EXCEPT !.quoted = not, !.current = x]
      BY <1>1, <2>1, Zenon DEF not, x
    <2>3. dep + by = dep
      BY <1>2, <1>8
    <2>4. now = not
      BY <1>8, Zenon DEF not
    <2> HIDE DEF now
    <2> QED
      BY <1>5, <2>2, <2>3, <2>4, Zenon
  <1>9. CASE token # "quote" /\ quo
    <2>1. Cut(cut, token) = [cut EXCEPT !.current = Append(cut.current, token)]
      BY <1>1, <1>9, Zenon DEF Cut
    <2>2. Cut(cut, token) = [cut EXCEPT !.current = x]
      BY <1>1, <2>1, Zenon DEF x
    <2>3. dep + by = dep
      BY <1>2, <1>9
    <2>4. now = quo
      BY <1>9, Zenon
    <2> HIDE DEF now
    <2> QED
      BY <1>4, <2>2, <2>3, <2>4, Zenon
  <1>10. CASE token # "quote" /\ ~quo
    <2>1. now = quo
      BY <1>10, Zenon
    <2>2. Cut(cut, token) = CutOutside(cut, token)
      BY <1>1, <1>10, Zenon DEF Cut
    <2> HIDE DEF now
    <2>3. CASE token = "("
      <3>1. CutOutside(cut, token) = [cut EXCEPT !.depth = up, !.current = x]
        BY <1>1, <2>3 DEF CutOutside, up, x
      <3>2. dep + by = up
        BY <1>2, <2>3
      <3> QED
        BY <1>6, <2>1, <2>2, <3>1, <3>2, Zenon
    <2>4. CASE token = ")"
      <3>1. CutOutside(cut, token) = [cut EXCEPT !.depth = down, !.current = x]
        BY <1>1, <2>4 DEF CutOutside, down, x
      <3>2. dep + by = down
        BY <1>2, <2>4
      <3> QED
        BY <1>7, <2>1, <2>2, <3>1, <3>2, Zenon
    <2>5. CASE token \notin {"(", ")"}
      <3>1. ~(token = "comma" /\ cut.depth = 0)
        <4>1. token = "comma" => dep > 0
          BY <1>10
        <4>2. dep > 0 => dep # 0
          OBVIOUS
        <4> QED
          BY <1>1, <4>1, <4>2, Zenon
      <3>2. CutOutside(cut, token) = [cut EXCEPT !.current = x]
        BY <1>1, <2>5, <3>1 DEF CutOutside, x
      <3>3. dep + by = dep
        BY <1>2, <2>5
      <3> QED
        BY <1>4, <2>1, <2>2, <3>2, <3>3, Zenon
    <2> QED
      BY <2>3, <2>4, <2>5
  <1> QED
    BY <1>8, <1>9, <1>10

\* Outside of the strings and lists of the definition c, after the definitions ps.
Outside(ps, c) == Shape(ps, c, 0, FALSE)

\* A comma between two definitions.
LEMMA CutComma ==
  ASSUME NEW ps, NEW c
  PROVE  Cut(Outside(ps, c), "comma") = Outside(Append(ps, Stripped(c)), << >>)
  <1> DEFINE no == FALSE
             start == << >>
             cut == Shape(ps, c, 0, no)
             more == Append(ps, Stripped(c))
  <1>1. cut.parts = ps /\ cut.current = c /\ cut.depth = 0 /\ cut.quoted = FALSE
    BY DEF Shape
  <1> HIDE DEF no, start, more
  <1>2. [cut EXCEPT !.parts = more, !.current = start] = Shape(more, start, 0, no)
    <2> DEFINE r == [cut EXCEPT !.parts = more]
    <2>1. [cut EXCEPT !.parts = more, !.current = start] = [r EXCEPT !.current = start]
      OBVIOUS
    <2>2. r = Shape(more, c, 0, no)
      BY ShapeParts
    <2> HIDE DEF cut, r
    <2>3. [r EXCEPT !.current = start] = Shape(more, start, 0, no)
      BY <2>2, ShapeCurrent
    <2> QED
      BY <2>1, <2>3
  <1> HIDE DEF cut
  <1>3. Cut(cut, "comma") = CutOutside(cut, "comma")
    BY <1>1, Zenon DEF Cut, no
  <1>4. CutOutside(cut, "comma") = [cut EXCEPT !.parts = more, !.current = start]
    BY <1>1 DEF CutOutside, start, more
  <1> QED
    BY <1>2, <1>3, <1>4, Zenon DEF cut, no, start, more, Outside

\* A part of a definition is kept whole.
LEMMA CutPart ==
  ASSUME NEW body \in Seq(Token), NEW p \in Nat, NEW w \in Seq(Token), Stands(body, p, w),
         Closed(w), Plain(w), NEW ps, NEW c \in Seq(Token),
         Cuts(body)[p] = Outside(ps, c)
  PROVE  Cuts(body)[p + Len(w)] = Outside(ps, c \o w)
  <1> DEFINE n == Len(w)
             s == Cuts(body)
             d == Depths(w)
             q == Quoted(w)
             cur == [j \in 0 .. n |-> s[p + j].current]
             S == {j \in 0 .. n : s[p + j] = Shape(ps, cur[j], d[j], q[j])}
  <1>1. n \in Nat /\ Len(body) \in Nat /\ p + n <= Len(body) /\ \A i \in 1 .. n : body[p + i] = w[i]
    BY DEF Stands
  <1>2. d[0] = 0 /\ DOMAIN w = 1 .. n /\ \A j \in 0 .. n : d[j] \in Int
    BY DepthsDef
  <1>2b. q[0] = FALSE
    BY QuotedDef
  <1>2a. \A j \in 0 .. n : q[j] \in BOOLEAN
    BY QuotedDef
  <1>3. /\ d[n] = 0 /\ q[n] = FALSE
        /\ \A j \in 1 .. n : w[j] = "comma" => q[j] \/ d[j] > 0
        /\ \A j \in 1 .. n : w[j] \in {"(", ")"} => ~q[j]
    <2>1. n \in 0 .. n
      BY <1>1
    <2> QED
      BY <1>2, <1>2a, <2>1 DEF Closed, Plain
  <1>4. 0 \in S /\ cur[0] = c
    <2>1. 0 \in 0 .. n /\ p + 0 = p
      BY <1>1
    <2>2. s[p + 0].current = c
      BY <2>1 DEF Shape, Outside
    <2>3. s[p + 0] = Shape(ps, c, 0, FALSE)
      BY <2>1, Zenon DEF Outside
    <2> QED
      BY <1>2, <1>2b, <2>1, <2>2, <2>3
  <1>5. ASSUME NEW j \in 0 .. n - 1, j \in S
        PROVE  j + 1 \in S /\ cur[j + 1] = Append(cur[j], w[j + 1])
    <2>1. /\ j \in Nat /\ p + j \in Nat /\ (p + j) + 1 <= Len(body) /\ p + (j + 1) = (p + j) + 1
          /\ j + 1 \in 1 .. n /\ j + 1 \in 0 .. n /\ j \in 0 .. n /\ (j + 1) - 1 = j
          /\ body[(p + j) + 1] = w[j + 1]
      <3>1. j \in Nat /\ j + 1 \in 1 .. n /\ j \in 0 .. n
        BY <1>1
      <3>2. body[p + (j + 1)] = w[j + 1]
        BY <1>1, <3>1
      <3>3. /\ p + j \in Nat /\ (p + j) + 1 <= Len(body) /\ p + (j + 1) = (p + j) + 1
            /\ j + 1 \in 0 .. n /\ (j + 1) - 1 = j
        <4> HIDE DEF n
        <4> QED
          BY <1>1, <3>1
      <3> HIDE DEF n
      <3> QED
        BY <3>1, <3>2, <3>3
    <2> DEFINE token == w[j + 1]
               by == IF token = "(" THEN 1 ELSE IF token = ")" THEN -1 ELSE 0
    <2>2. token \in Token /\ s[p + (j + 1)] = Cut(s[p + j], token)
      BY <2>1, CutStep
    <2>3. s[p + j] = Shape(ps, cur[j], d[j], q[j]) /\ d[j] \in Int /\ q[j] \in BOOLEAN
      BY <1>2, <1>2a, <1>5, <2>1
    <2>4. d[j + 1] = d[j] + by
      <3>1. j + 1 \in DOMAIN w
        BY <1>2, <2>1
      <3>2. d[j + 1] = d[(j + 1) - 1] + by
        BY <3>1, DepthsDef
      <3> HIDE DEF d, by
      <3> QED
        BY <2>1, <3>2
    <2>5. q[j + 1] = IF token = "quote" THEN ~q[j] ELSE q[j]
      <3>1. j + 1 \in DOMAIN w
        BY <1>2, <2>1
      <3>2. q[j + 1] = IF w[j + 1] = "quote" THEN ~q[(j + 1) - 1] ELSE q[(j + 1) - 1]
        BY <3>1, QuotedDef
      <3> HIDE DEF q
      <3> QED
        BY <2>1, <3>2
    <2>6. (token = "comma" => q[j] \/ d[j] > 0) /\ (token \in {"(", ")"} => ~q[j])
      <3>1. /\ token = "comma" => q[j + 1] \/ d[j + 1] > 0
            /\ token \in {"(", ")"} => ~q[j + 1]
        BY <1>3, <2>1
      <3>2. token = "comma" => (q[j + 1] <=> q[j]) /\ d[j + 1] = d[j]
        BY <2>3, <2>4, <2>5
      <3>3. token \in {"(", ")"} => (q[j + 1] <=> q[j])
        BY <2>3, <2>5
      <3> HIDE DEF token, d, q
      <3> QED
        BY <3>1, <3>2, <3>3
    <2> DEFINE x == cur[j]
               dj == d[j]
               qj == q[j]
    <2>7. Cut(Shape(ps, x, dj, qj), token) =
            Shape(ps, Append(x, token), dj + by, IF token = "quote" THEN ~qj ELSE qj)
      <3>1. dj \in Int /\ qj \in BOOLEAN /\ token \in Token
            /\ (token = "comma" => qj \/ dj > 0) /\ (token \in {"(", ")"} => ~qj)
        BY <2>2, <2>3, <2>6
      <3> HIDE DEF x, dj, qj, token
      <3> QED
        BY <3>1, CutWithin
    <2>8. s[p + (j + 1)] = Shape(ps, Append(x, token), d[j + 1], q[j + 1])
      <3>1. s[p + j] = Shape(ps, x, dj, qj)
        BY <2>3
      <3> HIDE DEF x, token, s, d, q, by, cur
      <3> QED
        BY <2>2, <2>4, <2>5, <2>7, <3>1
    <2>9. s[p + (j + 1)].current = Append(x, token)
      <3> HIDE DEF x, token, s, d, q
      <3> QED
        BY <2>8 DEF Shape
    <2>10. cur[j + 1] = Append(x, token)
      BY <2>1, <2>9
    <2>11. s[p + (j + 1)] = Shape(ps, cur[j + 1], d[j + 1], q[j + 1])
      BY <2>8, <2>10
    <2> QED
      BY <2>1, <2>10, <2>11
  <1>6. 0 .. n \subseteq S
    <2> HIDE DEF S, n
    <2> QED
      BY <1>1, <1>4, <1>5, IntervalInduction
  <1>7. \A j \in 0 .. n - 1 : j \in 0 .. n /\ cur[j + 1] = Append(cur[j], w[j + 1])
    <2>1. \A j \in 0 .. n - 1 : j \in 0 .. n
      BY <1>1
    <2> HIDE DEF S, cur, n
    <2> QED
      BY <1>5, <1>6, <2>1
  <1>8. cur \in [0 .. n -> Seq(Token)]
    <2>1. \A j \in 0 .. n : p + j \in 0 .. Len(body)
      BY <1>1
    <2>2. \A j \in 0 .. n : s[p + j].current \in Seq(Token)
      BY <2>1, CutsDef DEF Cuttings
    <2> QED
      BY <2>2
  <1>9. cur[n] = c \o w
    <2>1. \A j \in 0 .. Len(w) - 1 : cur[j + 1] = Append(cur[j], w[j + 1])
      BY <1>7
    <2>2. cur \in [0 .. Len(w) -> Seq(Token)]
      BY <1>8
    <2> HIDE DEF cur
    <2>3. cur[Len(w)] = cur[0] \o w
      BY <2>1, <2>2, Appended
    <2> QED
      BY <1>4, <2>3
  <1>10. s[p + n] = Shape(ps, cur[n], d[n], q[n])
    <2>1. n \in S
      <3>1. n \in 0 .. n
        BY <1>1
      <3> HIDE DEF S
      <3> QED
        BY <1>6, <3>1
    <2> QED
      BY <2>1
  <1> HIDE DEF q, d, s, cur
  <1> QED
    BY <1>3, <1>9, <1>10, Zenon DEF Outside, s

\* A definition of a table, up to its comma.
Sound(pieces) ==
  /\ pieces \in Seq(PieceSet)
  /\ \A m \in 1 .. Len(pieces) : Closed(Written(pieces[m])) /\ Plain(Written(pieces[m]))

JoinedWell(text, p, f, seqs) ==
  \A k \in 1 .. Len(seqs) :
    Len(f[k]) = Len(f[k - 1]) + Len(seqs[k]) /\ Stands(text, p + Len(f[k - 1]), seqs[k])

LEMMA JoinedTokens ==
  ASSUME NEW seqs \in Seq(Seq(Token)), NEW f \in [0 .. Len(seqs) -> Seq(Token)], Joins(f, seqs),
         NEW text \in Seq(Token), NEW p \in Nat, Stands(text, p, f[Len(seqs)])
  PROVE  JoinedWell(text, p, f, seqs)
  <1>1. ASSUME NEW k \in 1 .. Len(seqs)
        PROVE  Len(f[k]) = Len(f[k - 1]) + Len(seqs[k]) /\ Stands(text, p + Len(f[k - 1]), seqs[k])
    <2>1. /\ Len(f[k]) = Len(f[k - 1]) + Len(seqs[k])
          /\ Stands(text, p + Len(f[k - 1]), seqs[k])
          /\ p + Len(f[k]) <= Len(text)
      BY JoinedStands
    <2> QED
      BY <2>1
  <1> QED
    BY <1>1 DEF JoinedWell

LEMMA CutDefinition ==
  ASSUME NEW pieces, Sound(pieces), NEW body \in Seq(Token), NEW p \in Nat,
         Stands(body, p, WrittenAll(pieces)), NEW ps, Cuts(body)[p] = Outside(ps, << >>)
  PROVE  /\ Cuts(body)[p + Len(WrittenAll(pieces))] = Outside(ps, WrittenAll(pieces))
         /\ Level(body, p, p + Len(WrittenAll(pieces)))
  <1> DEFINE n == Len(pieces)
             ws == [k \in DOMAIN pieces |-> Written(pieces[k])]
  <1>1. pieces \in Seq(PieceSet) /\ n \in Nat /\ 0 \in Nat
    BY DEF Sound
  <1>2. ws \in Seq(Seq(Token)) /\ Len(ws) = n /\ WrittenAll(pieces) = FlattenSeq(ws)
    BY <1>1, PiecesType DEF WrittenAll
  <1>3. \A m \in 1 .. n : /\ ws[m] = Written(pieces[m]) /\ ws[m] \in Seq(Token)
                          /\ Closed(ws[m]) /\ Plain(ws[m])
    <2>1. \A m \in 1 .. n : ws[m] = Written(pieces[m])
      BY <1>1
    <2>2. \A m \in 1 .. n : ws[m] \in Seq(Token)
      <3> HIDE DEF ws, n
      <3> QED
        BY <1>2
    <2> HIDE DEF ws
    <2> QED
      BY <2>1, <2>2 DEF Sound
  <1> HIDE DEF ws, n
  <1>4. PICK f \in [0 .. Len(ws) -> Seq(Token)] : Joins(f, ws) /\ f[Len(ws)] = FlattenSeq(ws)
    BY <1>2, FlattenDef
  <1>5. f \in [0 .. n -> Seq(Token)] /\ f[0] = << >> /\ f[n] = WrittenAll(pieces)
        /\ \A m \in 1 .. n : f[m] = f[m - 1] \o ws[m]
    BY <1>2, <1>4 DEF Joins
  <1> DEFINE at == [m \in 0 .. n |-> p + Len(f[m])]
             s == Cuts(body)
  <1>6. /\ at \in [0 .. n -> Nat] /\ at[0] = p /\ at[n] = p + Len(WrittenAll(pieces))
        /\ \A m \in 0 .. n : at[m] = p + Len(f[m])
    <2>1. \A m \in 0 .. n : Len(f[m]) \in Nat
      BY <1>5
    <2>2. Len(f[0]) = 0 /\ p + 0 = p /\ 0 \in 0 .. n /\ n \in 0 .. n
      BY <1>1, <1>5
    <2>3. \A m \in 0 .. n : at[m] = p + Len(f[m])
      OBVIOUS
    <2>4. at \in [0 .. n -> Nat]
      <3>1. \A m \in 0 .. n : p + Len(f[m]) \in Nat
        BY <2>1
      <3> QED
        BY <3>1
    <2> HIDE DEF at
    <2> QED
      BY <1>5, <2>2, <2>3, <2>4
  <1> HIDE DEF at, s
  <1>6a. ASSUME NEW k \in 1 .. Len(ws)
         PROVE  Len(f[k]) = Len(f[k - 1]) + Len(ws[k]) /\ Stands(body, p + Len(f[k - 1]), ws[k])
    <2>1. Stands(body, p, f[Len(ws)]) /\ Joins(f, ws) /\ ws \in Seq(Seq(Token))
      BY <1>2, <1>4
    <2>2. JoinedWell(body, p, f, ws)
      BY <2>1, JoinedTokens
    <2> QED
      BY <2>2 DEF JoinedWell
  <1>7. ASSUME NEW m \in 0 .. n - 1
        PROVE  /\ at[m] \in Nat /\ at[m + 1] = at[m] + Len(ws[m + 1])
               /\ Stands(body, at[m], ws[m + 1])
               /\ f[m] \in Seq(Token) /\ f[m + 1] = f[m] \o ws[m + 1]
               /\ m + 1 \in 1 .. n /\ m + 1 \in 0 .. n
    <2>1. m \in 0 .. n /\ m + 1 \in 0 .. n /\ m + 1 \in 1 .. Len(ws) /\ m + 1 \in 1 .. n /\ (m + 1) - 1 = m
      BY <1>1, <1>2
    <2>2. Stands(body, p, f[Len(ws)])
      BY <1>2, <1>4
    <2>3. /\ Len(f[m + 1]) = Len(f[m]) + Len(ws[m + 1])
          /\ Stands(body, p + Len(f[m]), ws[m + 1])
      <3>1. /\ Len(f[m + 1]) = Len(f[(m + 1) - 1]) + Len(ws[m + 1])
            /\ Stands(body, p + Len(f[(m + 1) - 1]), ws[m + 1])
        BY <1>6a, <2>1
      <3> QED
        BY <2>1, <3>1
    <2>4. at[m] = p + Len(f[m]) /\ at[m + 1] = p + Len(f[m + 1]) /\ at[m] \in Nat
      BY <1>6, <2>1
    <2>5. Len(f[m]) \in Nat /\ Len(ws[m + 1]) \in Nat /\ f[m] \in Seq(Token)
      <3>1. f[m] \in Seq(Token) /\ ws[m + 1] \in Seq(Token)
        BY <1>3, <1>5, <2>1
      <3> QED
        BY <3>1
    <2>6. f[m + 1] = f[m] \o ws[m + 1]
      BY <1>5, <2>1
    <2>7. at[m + 1] = at[m] + Len(ws[m + 1])
      <3> DEFINE a == Len(f[m])
                 b == Len(ws[m + 1])
      <3> HIDE DEF a, b
      <3>1. Len(f[m + 1]) = a + b /\ at[m] = p + a /\ at[m + 1] = p + Len(f[m + 1]) /\ a \in Nat /\ b \in Nat
        BY <2>3, <2>4, <2>5 DEF a, b
      <3>2. at[m + 1] = at[m] + b
        BY <3>1
      <3> QED
        BY <3>2 DEF b
    <2>8. Stands(body, at[m], ws[m + 1])
      BY <2>3, <2>4
    <2> QED
      BY <2>1, <2>4, <2>5, <2>6, <2>7, <2>8
  <1> DEFINE S == {m \in 0 .. n : s[at[m]] = Outside(ps, f[m])}
  <1>8. 0 \in S
    <2>1. 0 \in 0 .. n
      BY <1>1
    <2>2. s[at[0]] = Outside(ps, f[0])
      BY <1>5, <1>6, Zenon DEF s
    <2> QED
      BY <2>1, <2>2, Zenon
  <1>9. ASSUME NEW m \in 0 .. n - 1, m \in S PROVE m + 1 \in S
    <2> DEFINE w == ws[m + 1]
               c == f[m]
               q == at[m]
    <2>1. q \in Nat /\ Stands(body, q, w) /\ c \in Seq(Token) /\ at[m + 1] = q + Len(w)
          /\ f[m + 1] = c \o w
      BY <1>7
    <2>2. w \in Seq(Token) /\ Closed(w) /\ Plain(w)
      BY <1>3, <1>7
    <2>3. Cuts(body)[q] = Outside(ps, c)
      BY <1>9 DEF s
    <2> HIDE DEF w, c, q
    <2>4. Cuts(body)[q + Len(w)] = Outside(ps, c \o w)
      BY <2>1, <2>2, <2>3, CutPart
    <2>5. s[at[m + 1]] = Outside(ps, f[m + 1])
      BY <2>1, <2>4 DEF s
    <2> QED
      BY <1>7, <2>5
  <1>10. 0 .. n \subseteq S
    <2> HIDE DEF S
    <2> QED
      BY <1>1, <1>8, <1>9, IntervalInduction
  <1>11. s[at[n]] = Outside(ps, f[n])
    <2>1. n \in 0 .. n
      BY <1>1
    <2>2. n \in S
      <3> HIDE DEF S
      <3> QED
        BY <1>10, <2>1
    <2> QED
      BY <2>2
  <1>12. \A m \in 1 .. n : Level(body, at[m - 1], at[m])
    <2> SUFFICES ASSUME NEW m \in 1 .. n PROVE Level(body, at[m - 1], at[m])
      OBVIOUS
    <2>1. m - 1 \in 0 .. n - 1 /\ (m - 1) + 1 = m
      BY <1>1
    <2> DEFINE w == ws[m]
               q == at[m - 1]
    <2>2. q \in Nat /\ Stands(body, q, w) /\ at[m] = q + Len(w)
      <3>1. /\ at[m - 1] \in Nat /\ at[(m - 1) + 1] = at[m - 1] + Len(ws[(m - 1) + 1])
            /\ Stands(body, at[m - 1], ws[(m - 1) + 1])
        BY <1>7, <2>1
      <3> QED
        BY <2>1, <3>1
    <2>3. w \in Seq(Token) /\ Closed(w) /\ Plain(w)
      BY <1>3
    <2> HIDE DEF w, q
    <2>4. Level(body, q, q + Len(w))
      BY <2>2, <2>3, LevelPiece
    <2> QED
      BY <2>2, <2>4 DEF q
  <1>13. at[0] <= Len(body)
    <2>1. p + Len(WrittenAll(pieces)) <= Len(body) /\ Len(body) \in Nat
      BY DEF Stands
    <2>2. Len(WrittenAll(pieces)) \in Nat
      <3>1. WrittenAll(pieces) \in Seq(Token)
        BY <1>1, AllType
      <3> QED
        BY <3>1
    <2> QED
      BY <1>6, <2>1, <2>2
  <1>14. Level(body, at[0], at[n])
    BY <1>1, <1>6, <1>12, <1>13, LevelAll
  <1> QED
    BY <1>5, <1>6, <1>11, <1>14 DEF s

\* A definition and the comma after it, which the last one has not.
Row(table, k) == WrittenAll(table[k]) \o (IF k < Len(table) THEN <<"comma">> ELSE << >>)

BodyOf(table) == FlattenSeq([k \in DOMAIN table |-> Row(table, k)])

LEMMA CutRow ==
  ASSUME NEW table, NEW k, Sound(table[k]), NEW body \in Seq(Token), NEW p \in Nat,
         Stands(body, p, Row(table, k)), NEW ps, Cuts(body)[p] = Outside(ps, << >>)
  PROVE  /\ Level(body, p, p + Len(Row(table, k)))
         /\ Cuts(body)[p + Len(Row(table, k))] =
              IF k < Len(table) THEN Outside(Append(ps, Stripped(WrittenAll(table[k]))), << >>)
              ELSE Outside(ps, WrittenAll(table[k]))
  <1> DEFINE w == WrittenAll(table[k])
             q == p + Len(w)
  <1>1. w \in Seq(Token)
    BY AllType DEF Sound
  <1>2. ASSUME Stands(body, p, w)
        PROVE  Cuts(body)[q] = Outside(ps, w) /\ Level(body, p, q) /\ q \in Nat
    <2>1. Cuts(body)[q] = Outside(ps, w) /\ Level(body, p, q)
      BY <1>2, CutDefinition
    <2>2. Len(w) \in Nat
      <3> HIDE DEF w
      <3> QED
        BY <1>1
    <2> QED
      BY <2>1, <2>2
  <1> HIDE DEF w
  <1>3. CASE k < Len(table)
    <2> DEFINE z == <<"comma">>
    <2>1. z \in Seq(Token) /\ Len(z) = 1 /\ "comma" \in Token
      BY DEF Token
    <2>2. Row(table, k) = w \o z
      BY <1>3 DEF Row, w
    <2>3. Stands(body, p, w \o z)
      BY <2>2
    <2> HIDE DEF z
    <2>4. Stands(body, p, w) /\ Stands(body, q, z) /\ Len(w \o z) = Len(w) + Len(z)
      <3>1. w \in Seq(Token) /\ z \in Seq(Token) /\ body \in Seq(Token) /\ p \in Nat
        BY <1>1, <2>1
      <3>2. Stands(body, p, w) /\ Stands(body, p + Len(w), z) /\ Len(w \o z) = Len(w) + Len(z)
        BY <2>3, <3>1, ConcatStands
      <3> QED
        BY <3>2
    <2>5. Cuts(body)[q] = Outside(ps, w) /\ Level(body, p, q) /\ q \in Nat
      BY <1>2, <2>4
    <2>6. Len(w) \in Nat /\ p + Len(Row(table, k)) = q + 1
      BY <1>1, <2>1, <2>2, <2>4
    <2> HIDE DEF q
    <2>7. q + 1 <= Len(body) /\ body[q + 1] = "comma"
      BY <2>1, <2>4, <2>5, StandsOne DEF z
    <2>8. Cuts(body)[q + 1] = Cut(Cuts(body)[q], body[q + 1])
      BY <2>5, <2>7, CutStep
    <2>9. Cuts(body)[q + 1] = Outside(Append(ps, Stripped(w)), << >>)
      BY <2>5, <2>7, <2>8, CutComma
    <2>10. Level(body, q, q + 1)
      BY <2>5, <2>7, LevelOne
    <2>11. Level(body, p, q + 1)
      BY <2>5, <2>10, LevelTransitive
    <2> QED
      BY <1>3, <2>6, <2>9, <2>11 DEF w
  <1>4. CASE ~(k < Len(table))
    <2>1. Row(table, k) = w \o << >>
      BY <1>4 DEF Row, w
    <2>2. Row(table, k) = w
      BY <1>1, <2>1
    <2> QED
      BY <1>2, <1>4, <2>2 DEF w
  <1> QED
    BY <1>3, <1>4

LEMMA RowType ==
  ASSUME NEW table, NEW k, Sound(table[k])
  PROVE  Row(table, k) \in Seq(Token)
  <1> DEFINE w == WrittenAll(table[k])
             z == IF k < Len(table) THEN <<"comma">> ELSE << >>
  <1>1. w \in Seq(Token)
    BY AllType DEF Sound
  <1>2. z \in Seq(Token)
    <2>1. "comma" \in Token
      BY DEF Token
    <2>2. CASE k < Len(table)
      BY <2>1, <2>2
    <2>3. CASE ~(k < Len(table))
      BY <2>3
    <2> QED
      BY <2>2, <2>3
  <1> HIDE DEF w, z
  <1>3. w \o z \in Seq(Token)
    BY <1>1, <1>2, ConcatProperties
  <1> QED
    BY <1>3 DEF Row, w, z

\* Every definition of a body is found, and its parentheses match.
LEMMA BodySplit ==
  ASSUME NEW table \in Seq(Seq(PieceSet)), \A k \in 1 .. Len(table) : Sound(table[k]),
         \A k \in 1 .. Len(table) : Stripped(WrittenAll(table[k])) # << >>
  PROVE  /\ BodyOf(table) \in Seq(Token) /\ Level(BodyOf(table), 0, Len(BodyOf(table)))
         /\ TopLevelSplit(BodyOf(table)) = [k \in DOMAIN table |-> Stripped(WrittenAll(table[k]))]
  <1> DEFINE n == Len(table)
             ws == [k \in 1 .. n |-> Row(table, k)]
             body == FlattenSeq(ws)
             told(k) == Stripped(WrittenAll(table[k]))
             first(k) == [j \in 1 .. k |-> told(j)]
  <1>1. n \in Nat /\ DOMAIN table = 1 .. n
    OBVIOUS
  <1>2. \A k \in 1 .. n : Row(table, k) \in Seq(Token)
    BY RowType
  <1>2a. \A k \in 1 .. n : told(k) \in Seq(Token) /\ told(k) # << >>
    <2> SUFFICES ASSUME NEW k \in 1 .. n PROVE told(k) \in Seq(Token)
      OBVIOUS
    <2>1. WrittenAll(table[k]) \in Seq(Token)
      BY AllType DEF Sound
    <2> QED
      BY <2>1, StrippedType
  <1> HIDE DEF told
  <1>3. ws \in Seq(Seq(Token)) /\ Len(ws) = n /\ \A k \in 1 .. n : ws[k] = Row(table, k)
    <2> HIDE DEF n
    <2> QED
      BY <1>1, <1>2
  <1>4. body \in Seq(Token)
    <2> HIDE DEF ws, n
    <2>1. PICK f \in [0 .. Len(ws) -> Seq(Token)] : Joins(f, ws) /\ f[Len(ws)] = FlattenSeq(ws)
      BY <1>3, FlattenDef
    <2>2. Len(ws) \in 0 .. Len(ws)
      BY <1>1, <1>3
    <2> QED
      BY <2>1, <2>2
  <1>5. Stands(body, 0, FlattenSeq(ws))
    <2> HIDE DEF ws
    <2> QED
      BY <1>4, StandsWhole
  <1>6. PICK at \in [0 .. n -> Nat] :
          at[0] = 0 /\ at[n] = Len(body) /\ StandsAll(body, at, ws)
    <2> HIDE DEF ws, n, body
    <2>1. PICK at \in [0 .. Len(ws) -> Nat] :
            /\ at[0] = 0 /\ at[Len(ws)] = 0 + Len(FlattenSeq(ws)) /\ StandsAll(body, at, ws)
      BY <1>3, <1>4, <1>5, JoinedAt
    <2>2. 0 + Len(body) = Len(body)
      BY <1>4
    <2> QED
      BY <1>3, <2>1, <2>2 DEF body
  <1> HIDE DEF ws, body
  <1>7. \A k \in 1 .. n : /\ at[k] \in Nat /\ at[k - 1] \in Nat
                          /\ at[k] = at[k - 1] + Len(Row(table, k))
                          /\ Stands(body, at[k - 1], Row(table, k))
    <2>1. \A k \in 1 .. n : k \in 0 .. n /\ k - 1 \in 0 .. n
      BY <1>1
    <2> HIDE DEF n
    <2>2. \A k \in 1 .. n : at[k] \in Nat /\ at[k - 1] \in Nat
      BY <1>6, <2>1
    <2> QED
      BY <1>3, <1>6, <2>2 DEF StandsAll
  <1>8. \A k \in 0 .. n - 1 : Append(first(k), told(k + 1)) = first(k + 1)
    <2> DEFINE t == [j \in 1 .. n |-> told(j)]
    <2>1. t \in Seq(Seq(Token)) /\ Len(t) = n /\ \A j \in 1 .. n : t[j] = told(j)
      <3> HIDE DEF n
      <3> QED
        BY <1>1, <1>2a
    <2> SUFFICES ASSUME NEW k \in 0 .. n - 1 PROVE Append(first(k), told(k + 1)) = first(k + 1)
      OBVIOUS
    <2>2. k + 1 \in 1 .. n /\ \A j \in 1 .. k + 1 : j \in 1 .. n
      <3> HIDE DEF n
      <3> QED
        BY <1>1
    <2>3. first(k) = [j \in 1 .. k |-> t[j]] /\ first(k + 1) = [j \in 1 .. k + 1 |-> t[j]]
          /\ t[k + 1] = told(k + 1)
      BY <2>1, <2>2
    <2>4. k \in 0 .. Len(t) - 1
      BY <2>1
    <2> HIDE DEF t
    <2>5. Append([j \in 1 .. k |-> t[j]], t[k + 1]) = [j \in 1 .. k + 1 |-> t[j]]
      BY <2>1, <2>4, Firsts
    <2> QED
      BY <2>3, <2>5
  <1>9. first(0) = << >> /\ first(n) = [k \in DOMAIN table |-> told(k)]
    BY <1>1
  <1> HIDE DEF first
  <1> DEFINE Found(k) == Level(body, 0, at[k]) /\ Cuts(body)[at[k]] = Outside(first(k), << >>)
             S == {k \in 0 .. n : k < n => Found(k)}
  <1>10. Found(0) /\ 0 \in S
    <2>1. Cuts(body)[at[0]] = Outside(first(0), << >>)
      BY <1>4, <1>6, <1>9, CutsDef DEF Uncut, Outside, Shape
    <2>2. Level(body, 0, at[0])
      <3>1. 0 \in 0 .. Len(body)
        BY <1>4
      <3> QED
        BY <1>4, <1>6, <3>1, LevelNone
    <2> QED
      BY <1>1, <2>1, <2>2
  <1>11. ASSUME NEW k \in 0 .. n - 1, Found(k)
         PROVE  /\ Level(body, 0, at[k + 1])
                /\ Cuts(body)[at[k + 1]] = IF k + 1 < n THEN Outside(first(k + 1), << >>)
                                           ELSE Outside(first(k), WrittenAll(table[k + 1]))
    <2> DEFINE m == k + 1
               p == at[k]
               q == at[m]
               ps == first(k)
    <2>1. m \in 1 .. n /\ m - 1 = k
      <3> HIDE DEF n
      <3> QED
        BY <1>1
    <2>2. p \in Nat /\ q \in Nat /\ q = p + Len(Row(table, m)) /\ Stands(body, p, Row(table, m))
      BY <1>7, <2>1
    <2>3. Sound(table[m]) /\ Level(body, 0, p) /\ Cuts(body)[p] = Outside(ps, << >>)
      BY <1>11, <2>1
    <2>4. Append(ps, told(m)) = first(m)
      BY <1>8
    <2> HIDE DEF m, p, q, ps
    <2>5. /\ Level(body, p, p + Len(Row(table, m)))
          /\ Cuts(body)[p + Len(Row(table, m))] =
               IF m < Len(table) THEN Outside(Append(ps, Stripped(WrittenAll(table[m]))), << >>)
               ELSE Outside(ps, WrittenAll(table[m]))
      BY <1>4, <2>2, <2>3, CutRow
    <2>6. Cuts(body)[q] = IF m < n THEN Outside(first(m), << >>) ELSE Outside(ps, WrittenAll(table[m]))
      BY <2>2, <2>4, <2>5 DEF told
    <2>7. Level(body, 0, q)
      BY <1>4, <2>2, <2>3, <2>5, LevelTransitive
    <2> QED
      BY <2>6, <2>7 DEF m, q, ps
  <1>12. ASSUME NEW k \in 0 .. n - 1, k \in S PROVE k + 1 \in S
    <2> SUFFICES ASSUME k + 1 < n PROVE Found(k + 1)
      BY <1>1
    <2>1. k < n
      BY <1>1
    <2>2. Found(k)
      BY <1>12, <2>1
    <2> QED
      BY <1>11, <2>2
  <1>13. 0 .. n \subseteq S
    <2> HIDE DEF S, n
    <2> QED
      BY <1>1, <1>10, <1>12, IntervalInduction
  <1>14. Level(body, 0, Len(body)) /\ TopLevelSplit(body) = first(n)
    <2>1. CASE n = 0
      <3>1. Cuts(body)[Len(body)] = Outside(<< >>, << >>)
        BY <1>6, <1>9, <1>10, <2>1
      <3>2. Stripped(<< >>) = << >>
        <4>1. << >> \in Seq(Token) /\ Blank(<< >>)
          BY DEF Blank
        <4> QED
          BY <4>1, StrippedBlank
      <3>3. TopLevelSplit(body) = << >>
        <4>1. Outside(<< >>, << >>).parts = << >> /\ Outside(<< >>, << >>).current = << >>
          BY DEF Outside, Shape
        <4> QED
          BY <3>1, <3>2, <4>1 DEF TopLevelSplit
      <3> QED
        BY <1>6, <1>9, <1>10, <2>1, <3>3
    <2>2. CASE n > 0
      <3> DEFINE k == n - 1
                 ps == first(k)
                 c == WrittenAll(table[n])
      <3>1. k \in 0 .. n - 1 /\ k \in 0 .. n /\ k < n /\ n \in 1 .. n /\ k + 1 = n /\ ~(k + 1 < n)
        <4> HIDE DEF n
        <4> QED
          BY <1>1, <2>2
      <3>2. k \in S
        <4> HIDE DEF S, k
        <4> QED
          BY <1>13, <3>1
      <3>3. Found(k)
        BY <3>1, <3>2
      <3> HIDE DEF k
      <3>4. Level(body, 0, at[k + 1]) /\ Cuts(body)[at[k + 1]] = Outside(ps, WrittenAll(table[k + 1]))
        BY <1>11, <3>1, <3>3
      <3>5. Level(body, 0, Len(body)) /\ Cuts(body)[Len(body)] = Outside(ps, c)
        BY <1>6, <3>1, <3>4
      <3>6. Append(ps, told(n)) = first(n) /\ told(n) # << >> /\ Stripped(c) = told(n)
        <4>1. Append(first(k), told(k + 1)) = first(k + 1)
          BY <1>8, <3>1
        <4> QED
          BY <1>2a, <3>1, <4>1 DEF told
      <3> HIDE DEF ps, c
      <3>7. Outside(ps, c).parts = ps /\ Outside(ps, c).current = c
        BY DEF Outside, Shape
      <3> QED
        BY <3>5, <3>6, <3>7 DEF TopLevelSplit
    <2> QED
      BY <1>1, <2>1, <2>2
  <1>15. BodyOf(table) = body
    BY <1>1 DEF BodyOf, body, ws
  <1> QED
    BY <1>4, <1>9, <1>14, <1>15 DEF told

\* A table's body is all between its first parenthesis and the one that closes it.
LEMMA ParenBodyOf ==
  ASSUME NEW b \in Seq(Token), Level(b, 0, Len(b))
  PROVE  ParenBody(<<"keyword", "(">> \o b \o <<")", "text">>) = {b}
  <1> DEFINE n == Len(b)
             stmt == <<"keyword", "(">> \o b \o <<")", "text">>
             rest == SubSeq(stmt, 2, n + 4)
             opens == {i \in DOMAIN stmt : stmt[i] = "("}
             closes == {i \in DOMAIN rest : rest[i] = ")" /\ Depths(rest)[i] = 0}
             start == CHOOSE i \in opens : \A j \in opens : i <= j
             end == CHOOSE i \in closes : \A j \in closes : i <= j
  <1>1. n \in Nat
    OBVIOUS
  <1>2. "keyword" \in Token /\ "(" \in Token /\ ")" \in Token /\ "text" \in Token
    BY DEF Token
  <1>3. /\ stmt \in Seq(Token) /\ Len(stmt) = n + 4 /\ DOMAIN stmt = 1 .. n + 4
        /\ stmt[1] = "keyword" /\ stmt[2] = "(" /\ stmt[n + 3] = ")" /\ stmt[n + 4] = "text"
        /\ \A j \in 1 .. n : stmt[2 + j] = b[j]
    <2> DEFINE u == <<"keyword", "(">>
               v == <<")", "text">>
               ub == u \o b
    <2>1. /\ u \in Seq(Token) /\ v \in Seq(Token) /\ Len(u) = 2 /\ Len(v) = 2
          /\ u[1] = "keyword" /\ u[2] = "(" /\ v[1] = ")" /\ v[2] = "text"
      BY <1>2
    <2> HIDE DEF u, v
    <2>2. /\ ub \in Seq(Token) /\ Len(ub) = n + 2 /\ ub[1] = "keyword" /\ ub[2] = "("
          /\ \A j \in 1 .. n : ub[2 + j] = b[j]
      <3>1. /\ ub \in Seq(Token) /\ Len(ub) = Len(u) + Len(b)
            /\ \A i \in 1 .. Len(u) : ub[i] = u[i]
            /\ \A i \in 1 .. Len(b) : ub[Len(u) + i] = b[i]
        BY <2>1, ConcatAt
      <3> HIDE DEF ub
      <3> QED
        BY <1>1, <2>1, <3>1
    <2> HIDE DEF ub
    <2>3. /\ ub \o v \in Seq(Token) /\ Len(ub \o v) = Len(ub) + Len(v)
          /\ \A i \in 1 .. Len(ub) : (ub \o v)[i] = ub[i]
          /\ \A i \in 1 .. Len(v) : (ub \o v)[Len(ub) + i] = v[i]
      BY <2>1, <2>2, ConcatAt
    <2> DEFINE w == ub \o v
    <2>4. w = stmt
      BY DEF ub, u, v
    <2> HIDE DEF w, n
    <2>5. /\ w \in Seq(Token) /\ Len(w) = n + 4
          /\ w[1] = "keyword" /\ w[2] = "("
      BY <1>1, <2>1, <2>2, <2>3 DEF w
    <2>6. w[n + 3] = ")" /\ w[n + 4] = "text"
      <3>1. /\ \A i \in 1 .. 2 : w[(n + 2) + i] = v[i]
            /\ (n + 2) + 1 = n + 3 /\ (n + 2) + 2 = n + 4 /\ 1 \in 1 .. 2 /\ 2 \in 1 .. 2
        BY <1>1, <2>1, <2>2, <2>3 DEF w
      <3> QED
        BY <2>1, <3>1
    <2>7. \A j \in 1 .. n : w[2 + j] = b[j]
      <3> SUFFICES ASSUME NEW j \in 1 .. n PROVE w[2 + j] = b[j]
        OBVIOUS
      <3>1. 2 + j \in 1 .. Len(ub)
        BY <1>1, <2>2
      <3>2. w[2 + j] = ub[2 + j]
        BY <2>3, <3>1 DEF w
      <3> QED
        BY <2>2, <3>2
    <2>8. DOMAIN w = 1 .. n + 4
      BY <2>5
    <2> HIDE DEF stmt
    <2> QED
      BY <2>4, <2>5, <2>6, <2>7, <2>8
  <1> HIDE DEF stmt
  <1>4. /\ rest \in Seq(Token) /\ Len(rest) = n + 3 /\ DOMAIN rest = 1 .. n + 3
        /\ \A i \in 1 .. n + 3 : rest[i] = stmt[i + 1]
    <2>1. \A i \in 2 .. n + 4 : stmt[i] \in Token
      BY <1>1, <1>3
    <2>2. 2 \in Int /\ n + 4 \in Int /\ 2 <= n + 4 /\ (n + 4) - 2 + 1 = n + 3
      BY <1>1
    <2> DEFINE hi == n + 4
    <2>3. hi \in Int /\ 2 <= hi /\ hi - 2 + 1 = n + 3
      BY <2>2
    <2>4. /\ SubSeq(stmt, 2, hi) \in Seq(Token) /\ Len(SubSeq(stmt, 2, hi)) = hi - 2 + 1
          /\ \A i \in 1 .. hi - 2 + 1 : SubSeq(stmt, 2, hi)[i] = stmt[2 + i - 1]
      <3> HIDE DEF hi, n
      <3> QED
        BY <1>3, <2>1, <2>3, SubSeqProperties DEF hi
    <2>5. \A i \in 1 .. n + 3 : 2 + i - 1 = i + 1
      BY <1>1
    <2>6. /\ rest \in Seq(Token) /\ Len(rest) = n + 3
          /\ \A i \in 1 .. n + 3 : rest[i] = stmt[2 + i - 1]
      <3> HIDE DEF n
      <3> QED
        BY <2>3, <2>4
    <2> HIDE DEF rest, n
    <2> QED
      BY <2>5, <2>6
  <1> HIDE DEF rest
  <1>5. /\ rest[1] = "(" /\ rest[n + 2] = ")" /\ \A j \in 1 .. n : rest[1 + j] = b[j]
    <2>1. 1 \in 1 .. n + 3 /\ n + 2 \in 1 .. n + 3 /\ 1 + 1 = 2 /\ (n + 2) + 1 = n + 3
          /\ \A j \in 1 .. n : 1 + j \in 1 .. n + 3 /\ (1 + j) + 1 = 2 + j
      BY <1>1
    <2> HIDE DEF n
    <2>2. rest[1] = stmt[2] /\ rest[n + 2] = stmt[n + 3] /\ \A j \in 1 .. n : rest[1 + j] = stmt[2 + j]
      BY <1>4, <2>1
    <2> QED
      BY <1>3, <2>2
  <1>6. Stands(rest, 1, b)
    <2> HIDE DEF n
    <2> QED
      BY <1>1, <1>4, <1>5 DEF Stands, n
  <1> DEFINE d == Depths(rest)
             e == Depths(b)
  <1>7. d[1] = 1 /\ \A j \in 0 .. n : d[1 + j] = 1 + e[j]
    <2>1. d[0] = 0
      BY <1>4, DepthsDef
    <2>2. d[0 + 1] = d[0] + (IF rest[0 + 1] = "(" THEN 1 ELSE IF rest[0 + 1] = ")" THEN -1 ELSE 0)
      <3>1. 0 \in Nat /\ 0 + 1 <= Len(rest)
        BY <1>1, <1>4
      <3> QED
        BY <1>4, <3>1, DepthStep
    <2>3. d[1] = 1
      BY <1>5, <2>1, <2>2
    <2>4. \A j \in 0 .. Len(b) : d[1 + j] = d[1] + e[j]
      BY <1>4, <1>6, DepthsStand
    <2> QED
      BY <2>3, <2>4
  <1>8. e[n] = 0 /\ \A j \in 0 .. n : e[j] \in Int /\ e[j] >= 0
    <2>1. e[0] = 0 /\ \A j \in 0 .. n : e[j] \in Int
      BY DepthsDef
    <2>2. e[n] = e[0] /\ \A j \in 0 .. n : e[j] >= e[0]
      BY DEF Level
    <2> QED
      BY <2>1, <2>2
  <1> HIDE DEF d, e
  <1>9. d[n + 2] = 0
    <2>1. n + 1 \in Nat /\ (n + 1) + 1 <= Len(rest) /\ (n + 1) + 1 = n + 2 /\ 1 + n = n + 1 /\ n \in 0 .. n
      BY <1>1, <1>4
    <2>2. d[n + 1] = 1
      BY <1>7, <1>8, <2>1
    <2>3. d[(n + 1) + 1] =
            d[n + 1] + (IF rest[(n + 1) + 1] = "(" THEN 1 ELSE IF rest[(n + 1) + 1] = ")" THEN -1 ELSE 0)
      BY <1>4, <2>1, DepthStep DEF d
    <2>4. d[n + 2] = d[n + 1] + (IF rest[n + 2] = "(" THEN 1 ELSE IF rest[n + 2] = ")" THEN -1 ELSE 0)
      BY <2>1, <2>3
    <2> HIDE DEF n
    <2> QED
      BY <1>5, <2>2, <2>4
  <1>10. \A i \in 1 .. n + 1 : d[i] # 0
    <2> SUFFICES ASSUME NEW i \in 1 .. n + 1 PROVE d[i] # 0
      OBVIOUS
    <2>1. i - 1 \in 0 .. n /\ 1 + (i - 1) = i
      BY <1>1
    <2>2. d[i] = 1 + e[i - 1] /\ e[i - 1] \in Int /\ e[i - 1] >= 0
      BY <1>7, <1>8, <2>1
    <2> QED
      BY <2>2
  <1>11. n + 2 \in closes /\ closes \subseteq Nat /\ \A i \in closes : n + 2 <= i
    <2>1. n + 2 \in closes
      BY <1>1, <1>4, <1>5, <1>9 DEF d
    <2>2. closes \subseteq Nat /\ \A i \in closes : i \in 1 .. n + 3 /\ d[i] = 0
      BY <1>1, <1>4 DEF d
    <2>3. ASSUME NEW i \in closes PROVE n + 2 <= i
      <3>1. i \in 1 .. n + 3 /\ i \notin 1 .. n + 1
        BY <1>10, <2>2, <2>3
      <3> QED
        BY <1>1, <3>1
    <2> QED
      BY <2>1, <2>2, <2>3
  <1>12. 2 \in opens /\ opens \subseteq Nat /\ \A i \in opens : 2 <= i
    BY <1>1, <1>3
  <1> HIDE DEF opens, closes
  <1>13. start = 2
    <2>1. \A i \in opens : (\A j \in opens : i <= j) => i = 2
      BY <1>12
    <2> QED
      BY <1>12, <2>1
  <1>14. end = n + 2
    <2> DEFINE m == n + 2
    <2>1. m \in closes /\ closes \subseteq Nat /\ (\A i \in closes : m <= i) /\ m \in Nat
      BY <1>1, <1>11
    <2> HIDE DEF m
    <2>2. \A i \in closes : (\A j \in closes : i <= j) => i = m
      BY <2>1
    <2>3. end = m
      BY <2>1, <2>2
    <2> QED
      BY <2>3 DEF m
  <1>15. SubSeq(rest, 2, end - 1) = b
    <2> DEFINE hi == end - 1
    <2>1. hi = n + 1
      <3> HIDE DEF end
      <3> QED
        BY <1>1, <1>14
    <2> HIDE DEF hi
    <2>2. hi \in Int /\ 2 \in Int /\ \A i \in 2 .. hi : rest[i] \in Token
      BY <1>1, <1>4, <2>1
    <2>3. /\ SubSeq(rest, 2, hi) \in Seq(Token)
          /\ Len(SubSeq(rest, 2, hi)) = IF 2 <= hi THEN hi - 2 + 1 ELSE 0
          /\ \A i \in 1 .. hi - 2 + 1 : SubSeq(rest, 2, hi)[i] = rest[2 + i - 1]
      <3> HIDE DEF n
      <3> QED
        BY <2>2, SubSeqProperties
    <2> DEFINE x == SubSeq(rest, 2, hi)
    <2> HIDE DEF x
    <2>4. x \in Seq(Token) /\ Len(x) = n
      BY <1>1, <2>1, <2>3 DEF x
    <2>5. \A i \in 1 .. n : x[i] = b[i]
      <3> SUFFICES ASSUME NEW i \in 1 .. n PROVE x[i] = b[i]
        OBVIOUS
      <3>1. i \in 1 .. hi - 2 + 1 /\ 2 + i - 1 = 1 + i
        BY <1>1, <2>1
      <3>2. x[i] = rest[1 + i]
        BY <2>3, <3>1 DEF x
      <3> QED
        BY <1>5, <3>2
    <2>6. x = b
      BY <2>4, <2>5, SeqEqual
    <2> QED
      BY <2>6 DEF x, hi
  <1>16. opens # {} /\ closes # {}
    BY <1>11, <1>12
  <1>17. SubSeq(stmt, start, Len(stmt)) = rest
    BY <1>3, <1>13 DEF rest
  <1> DEFINE rst == SubSeq(stmt, start, Len(stmt))
             ends == {i \in DOMAIN rst : rst[i] = ")" /\ Depths(rst)[i] = 0}
  <1>18. ParenBody(stmt) =
           IF opens = {} \/ ends = {} THEN {}
           ELSE {SubSeq(rst, 2, (CHOOSE i \in ends : \A j \in ends : i <= j) - 1)}
    BY DEF ParenBody, opens
  <1> HIDE DEF rst
  <1>19. ParenBody(stmt) = IF opens = {} \/ closes = {} THEN {} ELSE {SubSeq(rest, 2, end - 1)}
    BY <1>17, <1>18 DEF closes, rst
  <1> HIDE DEF end
  <1>20. ParenBody(stmt) = {b}
    BY <1>15, <1>16, <1>19
  <1> QED
    BY <1>20 DEF stmt

-----------------------------------------------------------------------------
(* The converter reads a table *)

TableInv ==
  /\ defs \in Definitions \/ defs = << >>
  /\ \/ parsed = NotParsed
     \/ parsed.definitions = {TopLevelSplit(body) : body \in ParenBody(WrittenTable)}

\* Every definition of every table is found, whole and alone, if no string holds a parenthesis.
THEOREM BodyExactHolds == ParseSpec => []BodyExact
  <1>1. ParseInit => TableInv
    BY DEF ParseInit, TableInv
  <1>2. TableInv /\ [Parse]_scriptVars => TableInv'
    <2> SUFFICES ASSUME TableInv, [Parse]_scriptVars PROVE TableInv'
      OBVIOUS
    <2>1. CASE Parse
      <3>1. defs' = defs /\ parsed'.definitions = {TopLevelSplit(body) : body \in ParenBody(WrittenTable)}
        BY <2>1 DEF Parse
      <3>2. WrittenTable' = WrittenTable
        BY <3>1 DEF WrittenTable
      <3> QED
        BY <3>1, <3>2 DEF TableInv
    <2>2. CASE UNCHANGED scriptVars
      <3>1. defs' = defs /\ parsed' = parsed
        BY <2>2 DEF scriptVars
      <3>2. WrittenTable' = WrittenTable
        BY <3>1 DEF WrittenTable
      <3> QED
        BY <3>1, <3>2 DEF TableInv
    <2> QED
      BY <2>1, <2>2
  <1>3. TableInv => BodyExact
    <2> SUFFICES ASSUME TableInv, parsed # NotParsed, PlainStrings
                 PROVE  parsed.definitions = {[k \in DOMAIN defs |-> Stripped(WrittenAll(defs[k]))]}
      BY DEF BodyExact
    <2>1. parsed.definitions = {TopLevelSplit(body) : body \in ParenBody(WrittenTable)}
      BY DEF TableInv
    <2>2. /\ defs \in Seq(Seq(PieceSet))
          /\ \A k \in 1 .. Len(defs) : Sound(defs[k]) /\ Stripped(WrittenAll(defs[k])) # << >>
      <3>1. CASE defs = << >>
        BY <3>1
      <3>2. CASE defs \in Definitions
        <4>1. /\ defs \in Seq(Seq(PieceSet))
              /\ \A k \in DOMAIN defs :
                   /\ Stripped(WrittenAll(defs[k])) # << >>
                   /\ \A n \in DOMAIN defs[k] : Closed(Written(defs[k][n]))
          BY <3>2, DefinitionsAssumption
        <4>2. ASSUME NEW k \in 1 .. Len(defs)
              PROVE  Sound(defs[k]) /\ Stripped(WrittenAll(defs[k])) # << >>
          <5>1. defs[k] \in Seq(PieceSet) /\ k \in DOMAIN defs
            BY <4>1
          <5>2. DOMAIN defs[k] = 1 .. Len(defs[k])
            BY <5>1
          <5>3. \A n \in DOMAIN defs[k] : Plain(Written(defs[k][n]))
            BY <5>1 DEF PlainStrings
          <5> QED
            BY <4>1, <5>1, <5>2, <5>3 DEF Sound
        <4> QED
          BY <4>1, <4>2
      <3> QED
        BY <3>1, <3>2 DEF TableInv
    <2>3. WrittenTable = <<"keyword", "(">> \o BodyOf(defs) \o <<")", "text">>
      BY DEF WrittenTable, BodyOf, Row
    <2>4. /\ BodyOf(defs) \in Seq(Token) /\ Level(BodyOf(defs), 0, Len(BodyOf(defs)))
          /\ TopLevelSplit(BodyOf(defs)) = [k \in DOMAIN defs |-> Stripped(WrittenAll(defs[k]))]
      BY <2>2, BodySplit
    <2>5. ParenBody(WrittenTable) = {BodyOf(defs)}
      BY <2>3, <2>4, ParenBodyOf
    <2> QED
      BY <2>1, <2>4, <2>5
  <1> QED
    BY <1>1, <1>2, <1>3, PTL DEF ParseSpec
=============================================================================
