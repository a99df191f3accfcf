--------------------------- MODULE PacketCodecProofs ---------------------------
(***************************************************************************)
(* What is written is what is read, for every number and every packet: the *)
(* lemmas about the operators of PacketCodec that ParserProofs needs.      *)
(*                                                                         *)
(* Sums of widths and sequences of units are defined by recursion.  What   *)
(* such a definition yields follows by induction, which is used here in    *)
(* the form that a nonempty set of numbers has a least element.            *)
(***************************************************************************)
EXTENDS PacketCodec, SequencesExt, WellFoundedInduction, SequenceTheorems, TLAPS

-----------------------------------------------------------------------------
(* Induction, and functions that are defined by recursion.                 *)

\* A nonempty set of numbers has a least element.
LEMMA LeastNumber ==
  ASSUME NEW T \in SUBSET Nat, T # {}
  PROVE  \E n \in T : \A k \in T : n <= k
<1> DEFINE R == OpToRel(<, Nat)
<1>1. IsWellFoundedOn(R, Nat)
  BY NatLessThanWellFounded
<1>2. \A x, y \in Nat : <<x, y>> \in R <=> x < y
  BY DEF OpToRel
<1> HIDE DEF R
<1>3. PICK n \in T : \A y \in T : ~ (<<y, n>> \in R)
  BY <1>1, WFMin
<1>4. \A y \in T : ~ (y < n)
  BY <1>2, <1>3
<1>5. \A y \in T : n <= y
  BY <1>4
<1> QED
  BY <1>5

\* What holds at 0 and goes on holding up to n holds at all of 0..n.
LEMMA Reaches ==
  ASSUME NEW n \in Nat, NEW T, 0 \in T, \A i \in 0..(n - 1) : i \in T => i + 1 \in T
  PROVE  0..n \subseteq T
<1> SUFFICES ASSUME NEW m \in (0..n) \ T PROVE FALSE
  OBVIOUS
<1>1. PICK k \in (0..n) \ T : \A j \in (0..n) \ T : k <= j
  <2>1. (0..n) \ T \in SUBSET Nat /\ (0..n) \ T # {}
    OBVIOUS
  <2> QED
    BY <2>1, LeastNumber
<1>2. k - 1 \in 0..(n - 1) /\ (k - 1) + 1 = k
  <2>1. k # 0
    OBVIOUS
  <2> QED
    BY <2>1
<1>3. k - 1 \in T
  BY <1>1, <1>2
<1> QED
  BY <1>2, <1>3

\* f begins with `base` and goes on with step[i] at i.
GoesOn(f, n, S, base, step) ==
  /\ f \in [0..n -> S]
  /\ f[0] = base
  /\ \A i \in 1..n : f[i] = step[i][f[i - 1]]

\* There is a function that goes on from `base` by the given steps.
LEMMA RecursionExists ==
  ASSUME NEW n \in Nat, NEW S, NEW base \in S, NEW step \in [1..n -> [S -> S]]
  PROVE  \E f : GoesOn(f, n, S, base, step)
<1> DEFINE Good(k, f) == f[0] = base /\ \A i \in 1..k : f[i] = step[i][f[i - 1]]
           T == {k \in 0..n : \E f \in [0..k -> S] : Good(k, f)}
<1>1. 0 \in T
  <2> DEFINE h == [i \in 0..0 |-> base]
  <2>1. h \in [0..0 -> S] /\ Good(0, h)
    OBVIOUS
  <2> HIDE DEF h
  <2> QED
    BY <2>1
<1>2. ASSUME NEW k \in 0..(n - 1), k \in T PROVE k + 1 \in T
  <2>1. PICK f \in [0..k -> S] : Good(k, f)
    BY <1>2
  <2> DEFINE g == [i \in 0..(k + 1) |-> IF i <= k THEN f[i] ELSE step[k + 1][f[k]]]
  <2>2. k + 1 \in 1..n /\ k \in 0..k /\ k + 1 \in 0..n
    OBVIOUS
  <2>3. g \in [0..(k + 1) -> S]
    BY <2>2
  <2>4. \A i \in 1..(k + 1) : g[i] = step[i][g[i - 1]]
    <3> SUFFICES ASSUME NEW i \in 1..(k + 1) PROVE g[i] = step[i][g[i - 1]]
      OBVIOUS
    <3>1. CASE i <= k
      BY <2>1, <3>1
    <3>2. CASE i = k + 1
      BY <3>2
    <3> QED
      BY <3>1, <3>2
  <2>5. Good(k + 1, g)
    BY <2>1, <2>4
  <2> QED
    BY <2>2, <2>3, <2>5
<1> HIDE DEF T
<1>3. 0..n \subseteq T
  BY <1>1, <1>2, Reaches
<1>4. n \in T
  BY <1>3
<1> QED
  BY <1>4 DEF T, GoesOn

-----------------------------------------------------------------------------
(* Sums.                                                                   *)

\* The partial sums of Total.
LEMMA Sums ==
  ASSUME NEW w \in Seq(Nat)
  PROVE  \E f \in [0..Len(w) -> Nat] :
           /\ f[0] = 0 /\ (\A i \in 1..Len(w) : f[i] = f[i - 1] + w[i])
           /\ Total(w) = f[Len(w)]
<1> DEFINE n == Len(w)
           IsSum(f) == f = [i \in 0..n |-> IF i = 0 THEN 0 ELSE f[i - 1] + w[i]]
           step == [i \in 1..n |-> [x \in Nat |-> x + w[i]]]
<1>1. n \in Nat /\ \A i \in 1..n : w[i] \in Nat
  OBVIOUS
<1>2. step \in [1..n -> [Nat -> Nat]]
  BY <1>1
<1>3. PICK f \in [0..n -> Nat] : f[0] = 0 /\ \A i \in 1..n : f[i] = step[i][f[i - 1]]
  <2>1. n \in Nat /\ 0 \in Nat
    BY <1>1
  <2> HIDE DEF step, n
  <2>2. \E f : GoesOn(f, n, Nat, 0, step)
    BY ONLY <2>1, <1>2, RecursionExists
  <2> QED
    BY <2>2 DEF GoesOn
<1>4. \A i \in 1..n : f[i] = f[i - 1] + w[i]
  <2> SUFFICES ASSUME NEW i \in 1..n PROVE f[i] = f[i - 1] + w[i]
    OBVIOUS
  <2>1. i - 1 \in 0..n
    BY ONLY <1>1
  <2>2. f[i - 1] \in Nat
    BY ONLY <2>1
  <2> QED
    BY <1>3, <2>2
<1>5. IsSum(f)
  <2>1. \A i \in 0..n : f[i] = IF i = 0 THEN 0 ELSE f[i - 1] + w[i]
    BY <1>1, <1>3, <1>4
  <2> QED
    BY <2>1
<1>6. Total(w) = (CHOOSE g : IsSum(g))[n]
  BY DEF Total
<1>7. IsSum(CHOOSE g : IsSum(g))
  BY <1>5
<1>8. \A g : IsSum(g) => g = f
  <2> SUFFICES ASSUME NEW g, IsSum(g) PROVE g = f
    OBVIOUS
  <2>1. DOMAIN g = 0..n /\ g[0] = 0 /\ \A i \in 1..n : g[i] = g[i - 1] + w[i]
    BY <1>1
  <2> DEFINE T == {i \in 0..n : g[i] = f[i]}
  <2>2. 0 \in T
    BY <1>1, <1>3, <2>1
  <2>3. \A i \in 0..(n - 1) : i \in T => i + 1 \in T
    BY <1>1, <1>4, <2>1
  <2> HIDE DEF T
  <2>4. 0..n \subseteq T
    BY <1>1, <2>2, <2>3, Reaches
  <2>5. \A i \in 0..n : g[i] = f[i]
    BY <2>4 DEF T
  <2>6. g = [i \in 0..n |-> g[i]]
    BY <2>1
  <2> QED
    BY <2>5, <2>6
<1> HIDE DEF IsSum
<1>9. Total(w) = f[n]
  BY <1>6, <1>7, <1>8
<1> QED
  BY <1>3, <1>4, <1>9

\* A sum of numbers is a number.
LEMMA TotalNat ==
  ASSUME NEW w \in Seq(Nat)
  PROVE  Total(w) \in Nat
<1>1. Len(w) \in 0..Len(w)
  OBVIOUS
<1> QED
  BY <1>1, Sums

\* A sum is the first number and the sum of the rest.
LEMMA TotalFirst ==
  ASSUME NEW w \in Seq(Nat), w # <<>>
  PROVE  Total(w) = w[1] + Total(Tail(w))
<1> DEFINE v == Tail(w)
           n == Len(v)
<1>1. /\ v \in Seq(Nat) /\ n \in Nat /\ Len(w) = n + 1
      /\ \A i \in 1..n : v[i] = w[i + 1]
      /\ \A i \in 1..(n + 1) : w[i] \in Nat
  OBVIOUS
<1>2. PICK f \in [0..(n + 1) -> Nat] :
        /\ f[0] = 0 /\ (\A i \in 1..(n + 1) : f[i] = f[i - 1] + w[i])
        /\ Total(w) = f[n + 1]
  BY <1>1, Sums
<1>3. PICK g \in [0..n -> Nat] :
        /\ g[0] = 0 /\ (\A i \in 1..n : g[i] = g[i - 1] + v[i])
        /\ Total(v) = g[n]
  BY <1>1, Sums
<1> HIDE DEF v, n
<1> DEFINE T == {i \in 0..n : f[i + 1] = w[1] + g[i]}
<1>4. 0 \in T
  BY <1>1, <1>2, <1>3
<1>5. ASSUME NEW i \in 0..(n - 1), i \in T PROVE i + 1 \in T
  <2>1. i + 1 \in 1..n /\ i + 2 \in 1..(n + 1) /\ (i + 2) - 1 = i + 1 /\ (i + 1) - 1 = i
        /\ (i + 1) + 1 = i + 2 /\ i \in 0..n /\ i + 1 \in 0..n
    BY <1>1
  <2>2. f[i + 2] = f[i + 1] + w[i + 2]
    BY <1>2, <2>1
  <2>3. g[i + 1] = g[i] + v[i + 1]
    BY <1>3, <2>1
  <2>4. v[i + 1] = w[i + 2] /\ w[i + 2] \in Nat /\ g[i] \in Nat /\ w[1] \in Nat
    <3>1. 1 \in 1..(n + 1)
      BY <1>1
    <3>2. v[i + 1] = w[(i + 1) + 1]
      BY <1>1, <2>1
    <3> QED
      BY <1>1, <1>3, <2>1, <3>1, <3>2
  <2>5. f[i + 1] = w[1] + g[i]
    BY <1>5
  <2>6. f[i + 2] = w[1] + g[i + 1]
    BY <2>2, <2>3, <2>4, <2>5
  <2> QED
    BY <2>1, <2>6
<1> HIDE DEF T
<1>6. 0..n \subseteq T
  BY <1>1, <1>4, <1>5, Reaches
<1>7. n \in T
  BY <1>1, <1>6
<1> QED
  BY <1>2, <1>3, <1>7 DEF T, v

-----------------------------------------------------------------------------
(* Sequences of sequences.                                                 *)

\* The partial results of FlattenSeq.
LEMMA Flattens ==
  ASSUME NEW S, NEW ss \in Seq(Seq(S)), ss # <<>>
  PROVE  \E f \in [1..Len(ss) -> Seq(S)] :
           /\ f[1] = ss[1] /\ (\A i \in 2..Len(ss) : f[i] = f[i - 1] \o ss[i])
           /\ FlattenSeq(ss) = f[Len(ss)]
<1> DEFINE n == Len(ss)
           IsFlat(f) == f = [i \in 1..n |-> IF i = 1 THEN ss[i] ELSE f[i - 1] \o ss[i]]
           step == [i \in 1..(n - 1) |-> [x \in Seq(S) |-> x \o ss[i + 1]]]
<1>1. n \in Nat /\ n >= 1 /\ n - 1 \in Nat /\ \A i \in 1..n : ss[i] \in Seq(S)
  OBVIOUS
<1>0. PICK m \in Nat : m = n - 1
  BY <1>1
<1>n. \A i \in 1..n : i = 1 \/ i \in 2..n
  BY <1>1
<1>2. step \in [1..(n - 1) -> [Seq(S) -> Seq(S)]]
  <2>1. \A i \in 1..(n - 1) : i + 1 \in 1..n
    BY <1>1
  <2>2. \A i \in 1..(n - 1) : \A x \in Seq(S) : x \o ss[i + 1] \in Seq(S)
    BY <1>1, <2>1
  <2> QED
    BY <2>2
<1>3. PICK h : GoesOn(h, n - 1, Seq(S), ss[1], step)
  <2>1. n - 1 \in Nat /\ ss[1] \in Seq(S)
    BY <1>1
  <2> HIDE DEF step, n
  <2> QED
    BY ONLY <2>1, <1>2, RecursionExists
<1> DEFINE f == [i \in 1..n |-> h[i - 1]]
<1>4. f \in [1..n -> Seq(S)] /\ f[1] = ss[1] /\ \A i \in 2..n : f[i] = f[i - 1] \o ss[i]
  <2>1. h \in [0..(n - 1) -> Seq(S)] /\ h[0] = ss[1]
    BY <1>3 DEF GoesOn
  <2>2. f \in [1..n -> Seq(S)] /\ f[1] = ss[1]
    BY <1>1, <2>1
  <2>3. ASSUME NEW i \in 2..n PROVE f[i] = f[i - 1] \o ss[i]
    <3>1. i - 1 \in 1..(n - 1) /\ (i - 1) + 1 = i /\ i \in 1..n /\ i - 1 \in 1..n /\ (i - 1) - 1 \in 0..(n - 1)
      BY <1>1
    <3>2. h[i - 1] = step[i - 1][h[(i - 1) - 1]]
      BY <1>3, <3>1 DEF GoesOn
    <3>3. h[i - 1] = h[(i - 1) - 1] \o ss[i]
      BY <2>1, <3>1, <3>2
    <3> QED
      BY <3>1, <3>3
  <2> QED
    BY <2>2, <2>3
<1> HIDE DEF f, step
<1>5. IsFlat(f)
  <2>1. \A i \in 1..n : f[i] = IF i = 1 THEN ss[i] ELSE f[i - 1] \o ss[i]
    BY <1>n, <1>4
  <2> QED
    BY <1>4, <2>1
<1>6. FlattenSeq(ss) = (CHOOSE g : IsFlat(g))[n]
  BY <1>1 DEF FlattenSeq
<1>7. IsFlat(CHOOSE g : IsFlat(g))
  BY <1>5
<1>8. \A g : IsFlat(g) => g = f
  <2> SUFFICES ASSUME NEW g, IsFlat(g) PROVE g = f
    OBVIOUS
  <2>1. DOMAIN g = 1..n /\ g[1] = ss[1] /\ \A i \in 2..n : g[i] = g[i - 1] \o ss[i]
    <3>1. 1 \in 1..n /\ \A i \in 2..n : i \in 1..n /\ i # 1
      BY <1>1
    <3> QED
      BY <3>1
  <2> DEFINE T == {i \in 0..m : g[i + 1] = f[i + 1]}
  <2>2. 0 \in T
    BY <1>1, <1>4, <2>1
  <2>3. ASSUME NEW i \in 0..(m - 1), i \in T PROVE i + 1 \in T
    <3>1. i + 2 \in 2..n /\ (i + 2) - 1 = i + 1 /\ (i + 1) + 1 = i + 2 /\ i + 1 \in 0..m
      BY <1>1, <1>0
    <3>2. g[i + 2] = g[i + 1] \o ss[i + 2] /\ f[i + 2] = f[i + 1] \o ss[i + 2]
      BY <1>4, <2>1, <3>1
    <3>3. g[i + 1] = f[i + 1]
      BY <2>3
    <3> QED
      BY <3>1, <3>2, <3>3
  <2> HIDE DEF T
  <2>4. 0..m \subseteq T
    BY <2>2, <2>3, Reaches
  <2>5. \A i \in 1..n : g[i] = f[i]
    <3> SUFFICES ASSUME NEW i \in 1..n PROVE g[i] = f[i]
      OBVIOUS
    <3>1. i - 1 \in T /\ (i - 1) + 1 = i
      BY <1>0, <1>1, <2>4
    <3> QED
      BY <3>1 DEF T
  <2>6. g = [i \in 1..n |-> g[i]] /\ f = [i \in 1..n |-> f[i]]
    BY <1>4, <2>1
  <2> QED
    BY <2>5, <2>6
<1> HIDE DEF IsFlat
<1>9. FlattenSeq(ss) = f[n]
  BY <1>6, <1>7, <1>8
<1> QED
  BY <1>4, <1>9

\* A sequence of sequences begins with its first one.
LEMMA FlattenFirst ==
  ASSUME NEW S, NEW ss \in Seq(Seq(S)), ss # <<>>
  PROVE  /\ FlattenSeq(ss) = ss[1] \o FlattenSeq(Tail(ss))
         /\ ss[1] \in Seq(S) /\ FlattenSeq(Tail(ss)) \in Seq(S)
<1> DEFINE tt == Tail(ss)
           n == Len(tt)
<1>0. \A x, y, z \in Seq(S) : (x \o y) \o z = x \o (y \o z)
  <2> TAKE x, y, z \in Seq(S)
  <2> QED
    BY SMTT(30), ConcatAssociative
<1>1. /\ tt \in Seq(Seq(S)) /\ n \in Nat /\ Len(ss) = n + 1
      /\ \A i \in 1..n : tt[i] = ss[i + 1]
      /\ \A i \in 1..(n + 1) : ss[i] \in Seq(S)
  OBVIOUS
<1>2. PICK f \in [1..(n + 1) -> Seq(S)] :
        /\ f[1] = ss[1] /\ (\A i \in 2..(n + 1) : f[i] = f[i - 1] \o ss[i])
        /\ FlattenSeq(ss) = f[n + 1]
  <2>1. PICK f \in [1..Len(ss) -> Seq(S)] :
          /\ f[1] = ss[1] /\ (\A i \in 2..Len(ss) : f[i] = f[i - 1] \o ss[i])
          /\ FlattenSeq(ss) = f[Len(ss)]
    BY Flattens
  <2> QED
    BY <1>1, <2>1
<1>3. CASE tt = <<>>
  <2>1. FlattenSeq(tt) = <<>> /\ n = 0
    BY <1>3 DEF FlattenSeq
  <2>2. ss[1] \in Seq(S)
    BY <1>1
  <2> HIDE DEF tt, n
  <2>3. FlattenSeq(ss) = ss[1]
    BY <1>2, <2>1
  <2>4. <<>> \in Seq(S) /\ ss[1] \o <<>> = ss[1]
    BY <2>2
  <2> QED
    BY <2>1, <2>2, <2>3, <2>4 DEF tt
<1>4. CASE tt # <<>>
  <2>1. PICK g \in [1..n -> Seq(S)] :
          /\ g[1] = tt[1] /\ (\A i \in 2..n : g[i] = g[i - 1] \o tt[i])
          /\ FlattenSeq(tt) = g[n]
    BY <1>1, <1>4, Flattens
  <2>2. n >= 1
    BY <1>1, <1>4
  <2>0. PICK m \in Nat : n = m + 1
    <3>1. n - 1 \in Nat /\ n = (n - 1) + 1
      BY <1>1, <2>2
    <3> QED
      BY <3>1
  <2> HIDE DEF tt, n
  <2> DEFINE T == {i \in 0..m : f[i + 2] = ss[1] \o g[i + 1]}
  <2>3. 0 \in T
    <3>1. 2 \in 2..(n + 1) /\ 2 - 1 = 1 /\ 1 \in 1..n /\ 0 + 2 = 2 /\ 0 + 1 = 1 /\ 0 \in 0..m
      BY <1>1, <2>2
    <3>4. tt[1] = ss[1 + 1]
      BY ONLY <1>1, <3>1
    <3>5. f[2] = f[2 - 1] \o ss[2]
      BY <1>2, <3>1
    <3>2. f[2] = f[1] \o ss[2] /\ tt[1] = ss[2]
      BY <3>4, <3>5
    <3>3. f[2] = ss[1] \o g[1]
      BY <1>2, <2>1, <3>2
    <3> QED
      BY <3>1, <3>3
  <2>4. ASSUME NEW i \in 0..(m - 1), i \in T PROVE i + 1 \in T
    <3>1. /\ i + 3 \in 2..(n + 1) /\ (i + 3) - 1 = i + 2 /\ (i + 1) + 2 = i + 3
          /\ i + 2 \in 2..n /\ (i + 2) - 1 = i + 1 /\ (i + 1) + 1 = i + 2
          /\ i + 1 \in 0..m /\ i + 1 \in 1..n /\ i + 2 \in 1..n
          /\ (i + 2) + 1 = i + 3 /\ 1 \in 1..(n + 1) /\ i + 3 \in 1..(n + 1)
      BY <1>1, <2>0
    <3>2. f[i + 3] = f[i + 2] \o ss[i + 3]
      BY <1>2, <3>1
    <3>3. g[i + 2] = g[i + 1] \o ss[i + 3]
      BY <1>1, <2>1, <3>1
    <3>4. f[i + 2] = ss[1] \o g[i + 1]
      BY <2>4
    <3>5. ss[1] \in Seq(S) /\ g[i + 1] \in Seq(S) /\ ss[i + 3] \in Seq(S)
      BY <1>1, <2>1, <3>1
    <3>6. (ss[1] \o g[i + 1]) \o ss[i + 3] = ss[1] \o (g[i + 1] \o ss[i + 3])
      BY ONLY <3>5, <1>0
    <3>7. f[i + 3] = ss[1] \o g[i + 2]
      BY <3>2, <3>3, <3>4, <3>6
    <3> QED
      BY <3>1, <3>7
  <2> HIDE DEF T
  <2>5. 0..m \subseteq T
    BY <2>3, <2>4, Reaches
  <2>6. m \in T /\ m + 2 = n + 1 /\ m + 1 = n /\ n \in 1..n /\ 1 \in 1..(n + 1)
    BY <2>0, <2>5
  <2>7. f[n + 1] = ss[1] \o g[n]
    BY <2>6 DEF T
  <2> QED
    BY <1>1, <1>2, <2>1, <2>6, <2>7 DEF tt
<1> QED
  BY <1>3, <1>4

-----------------------------------------------------------------------------
(* Widths.                                                                 *)

IsUnit(u) == \E n \in Nat : DOMAIN u = 1..n /\ \A i \in 1..n : u[i].width \in Nat

\* The width of a unit sums up the widths of its fields.
LEMMA Widths ==
  ASSUME NEW u, NEW n \in Nat, DOMAIN u = 1..n, \A i \in 1..n : u[i].width \in Nat
  PROVE  \E f \in [0..n -> Nat] :
           /\ f[0] = 0 /\ (\A i \in 1..n : f[i] = f[i - 1] + u[i].width)
           /\ Width(u) = f[n]
<1> DEFINE w == [i \in 1..n |-> u[i].width]
<1>1. w \in Seq(Nat) /\ Len(w) = n /\ \A i \in 1..n : w[i] = u[i].width
  OBVIOUS
<1>2. Width(u) = Total(w)
  BY DEF Width
<1> HIDE DEF w
<1>3. PICK f \in [0..Len(w) -> Nat] :
           /\ f[0] = 0 /\ (\A i \in 1..Len(w) : f[i] = f[i - 1] + w[i])
           /\ Total(w) = f[Len(w)]
  BY <1>1, Sums
<1> QED
  BY <1>1, <1>2, <1>3

\* The width of a unit is a number.
LEMMA WidthNat ==
  ASSUME NEW u, IsUnit(u)
  PROVE  Width(u) \in Nat
<1>1. PICK n \in Nat : DOMAIN u = 1..n /\ \A i \in 1..n : u[i].width \in Nat
  BY DEF IsUnit
<1>2. PICK f \in [0..n -> Nat] : Width(u) = f[n]
  BY <1>1, Widths
<1>3. n \in 0..n
  OBVIOUS
<1> QED
  BY <1>2, <1>3

\* The width of a unit of one field.
LEMMA WidthOfOne ==
  ASSUME NEW a, a.width \in Nat
  PROVE  Width(<<a>>) = a.width
<1> DEFINE u == <<a>>
<1>1. DOMAIN u = 1..1 /\ u[1] = a
  OBVIOUS
<1> HIDE DEF u
<1>2. \A i \in 1..1 : u[i].width \in Nat
  BY <1>1
<1>3. PICK f \in [0..1 -> Nat] :
        f[0] = 0 /\ (\A i \in 1..1 : f[i] = f[i - 1] + u[i].width) /\ Width(u) = f[1]
  BY <1>1, <1>2, Widths
<1>4. f[1] = a.width
  BY <1>1, <1>3
<1> QED
  BY <1>3, <1>4 DEF u

\* The same for two fields.
LEMMA WidthOfTwo ==
  ASSUME NEW a, NEW b, a.width \in Nat, b.width \in Nat
  PROVE  Width(<<a, b>>) = a.width + b.width
<1> DEFINE u == <<a, b>>
<1>1. DOMAIN u = 1..2 /\ u[1] = a /\ u[2] = b
  OBVIOUS
<1> HIDE DEF u
<1>2. \A i \in 1..2 : u[i].width \in Nat
  BY <1>1
<1>3. PICK f \in [0..2 -> Nat] :
        f[0] = 0 /\ (\A i \in 1..2 : f[i] = f[i - 1] + u[i].width) /\ Width(u) = f[2]
  BY <1>1, <1>2, Widths
<1>4. f[1] = a.width /\ f[2] = f[1] + b.width
  BY <1>1, <1>3
<1> QED
  BY <1>3, <1>4 DEF u

\* The same for three fields.
LEMMA WidthOfThree ==
  ASSUME NEW a, NEW b, NEW c, a.width \in Nat, b.width \in Nat, c.width \in Nat
  PROVE  Width(<<a, b, c>>) = a.width + b.width + c.width
<1> DEFINE u == <<a, b, c>>
<1>1. DOMAIN u = 1..3 /\ u[1] = a /\ u[2] = b /\ u[3] = c
  OBVIOUS
<1> HIDE DEF u
<1>2. \A i \in 1..3 : u[i].width \in Nat
  BY <1>1
<1>3. PICK f \in [0..3 -> Nat] :
        f[0] = 0 /\ (\A i \in 1..3 : f[i] = f[i - 1] + u[i].width) /\ Width(u) = f[3]
  BY <1>1, <1>2, Widths
<1>4. f[1] = a.width /\ f[2] = f[1] + b.width /\ f[3] = f[2] + c.width
  BY <1>1, <1>3
<1> QED
  BY <1>3, <1>4 DEF u

\* The same for four fields.
LEMMA WidthOfFour ==
  ASSUME NEW a, NEW b, NEW c, NEW d,
         a.width \in Nat, b.width \in Nat, c.width \in Nat, d.width \in Nat
  PROVE  Width(<<a, b, c, d>>) = a.width + b.width + c.width + d.width
<1> DEFINE u == <<a, b, c, d>>
<1>1. DOMAIN u = 1..4 /\ u[1] = a /\ u[2] = b /\ u[3] = c /\ u[4] = d
  OBVIOUS
<1> HIDE DEF u
<1>2. \A i \in 1..4 : u[i].width \in Nat
  BY <1>1
<1>3. PICK f \in [0..4 -> Nat] :
        f[0] = 0 /\ (\A i \in 1..4 : f[i] = f[i - 1] + u[i].width) /\ Width(u) = f[4]
  BY <1>1, <1>2, Widths
<1>4. f[1] = a.width /\ f[2] = f[1] + b.width /\ f[3] = f[2] + c.width /\ f[4] = f[3] + d.width
  BY <1>1, <1>3
<1> QED
  BY <1>3, <1>4 DEF u

\* The same for five fields.
LEMMA WidthOfFive ==
  ASSUME NEW a, NEW b, NEW c, NEW d, NEW e,
         a.width \in Nat, b.width \in Nat, c.width \in Nat, d.width \in Nat, e.width \in Nat
  PROVE  Width(<<a, b, c, d, e>>) = a.width + b.width + c.width + d.width + e.width
<1> DEFINE u == <<a, b, c, d, e>>
<1>1. DOMAIN u = 1..5 /\ u[1] = a /\ u[2] = b /\ u[3] = c /\ u[4] = d /\ u[5] = e
  OBVIOUS
<1> HIDE DEF u
<1>2. \A i \in 1..5 : u[i].width \in Nat
  BY <1>1
<1>3. PICK f \in [0..5 -> Nat] :
        f[0] = 0 /\ (\A i \in 1..5 : f[i] = f[i - 1] + u[i].width) /\ Width(u) = f[5]
  BY <1>1, <1>2, Widths
<1>4. /\ f[1] = a.width /\ f[2] = f[1] + b.width /\ f[3] = f[2] + c.width
      /\ f[4] = f[3] + d.width /\ f[5] = f[4] + e.width
  BY <1>1, <1>3
<1> QED
  BY <1>3, <1>4 DEF u

\* The bytes of a sequence of units are those of the first one and of the rest.
LEMMA BytesFirst ==
  ASSUME NEW S, \A u \in S : IsUnit(u), NEW units \in Seq(S), units # <<>>
  PROVE  /\ Bytes(units) = Width(units[1]) + Bytes(Tail(units))
         /\ Width(units[1]) \in Nat /\ Bytes(Tail(units)) \in Nat
<1> DEFINE w == [i \in 1..Len(units) |-> Width(units[i])]
<1>1. Len(units) \in Nat /\ DOMAIN units = 1..Len(units) /\ \A i \in 1..Len(units) : Width(units[i]) \in Nat
  BY WidthNat
<1>2. w \in Seq(Nat) /\ w # <<>> /\ w[1] = Width(units[1]) /\ w[1] \in Nat
  BY <1>1
<1>3. Bytes(units) = Total(w)
  BY <1>1 DEF Bytes
<1>4. Bytes(Tail(units)) = Total(Tail(w))
  <2>1. DOMAIN Tail(units) = 1..(Len(units) - 1)
        /\ \A i \in 1..(Len(units) - 1) : Tail(units)[i] = units[i + 1]
    OBVIOUS
  <2>2. Tail(w) = [i \in 1..(Len(units) - 1) |-> Width(units[i + 1])]
    BY <1>1
  <2>3. [i \in DOMAIN Tail(units) |-> Width(Tail(units)[i])]
          = [i \in 1..(Len(units) - 1) |-> Width(units[i + 1])]
    BY <2>1
  <2> QED
    BY <2>2, <2>3 DEF Bytes
<1>5. Tail(w) \in Seq(Nat)
  BY <1>2
<1> HIDE DEF w
<1>6. Total(w) = w[1] + Total(Tail(w)) /\ Total(Tail(w)) \in Nat
  BY <1>2, <1>5, TotalFirst, TotalNat
<1> QED
  BY <1>2, <1>3, <1>4, <1>6

\* The bytes of a sequence of units are a number.
LEMMA BytesNat ==
  ASSUME NEW S, \A u \in S : IsUnit(u), NEW units \in Seq(S)
  PROVE  Bytes(units) \in Nat
<1> DEFINE w == [i \in DOMAIN units |-> Width(units[i])]
<1>1. w \in Seq(Nat)
  BY WidthNat
<1> QED
  BY <1>1, TotalNat DEF Bytes

-----------------------------------------------------------------------------
(* What is written is what is read.                                        *)

\* A number takes the width that is asked for.
LEMMA UintWidth ==
  \A n \in Nat, width \in Nat : Uint(n, width).width = width
BY DEF Uint, Field

\* The limits, by what the proofs need of them.
LEMMA Limits ==
  /\ MaxUint8 \in Nat /\ MaxUint16 \in Nat /\ MaxUint24 \in Nat
  /\ 17 < MaxUint8 /\ MaxUint8 < MaxUint16 /\ MaxUint16 < MaxUint24
  /\ \A n \in Nat : /\ n <= MaxUint8 => n % (MaxUint8 + 1) = n
                    /\ n <= MaxUint16 => n % (MaxUint16 + 1) = n
                    /\ n <= MaxUint24 => n % (MaxUint24 + 1) = n
BY SMT DEF MaxUint8, MaxUint16, MaxUint24

\* A number keeps its value in the bytes that are chosen for the size of a packet,
\* of an action or of data.
LEMMA PacketSizeFits ==
  ASSUME NEW n \in Nat
  PROVE  /\ PacketSizeBytes(n) \in {1, 2, 3, 4} /\ Uint(n, PacketSizeBytes(n)).value = n
         /\ (PacketSizeBytes(n) = 4 <=> n > MaxUint24)
<1>1. CASE n <= MaxUint8
  <2>1. n \notin (MaxUint8 + 1)..MaxUint16 /\ n \notin (MaxUint16 + 1)..MaxUint24
    BY SMT, <1>1, Limits
  <2>2. PacketSizeBytes(n) = 1
    BY SMT, <1>1, <2>1 DEF PacketSizeBytes
  <2> QED
    BY SMT, <1>1, <2>2, Limits DEF Uint, Field
<1>2. CASE n > MaxUint8 /\ n <= MaxUint16
  <2>1. n \in (MaxUint8 + 1)..MaxUint16 /\ ~ (n <= MaxUint8) /\ n \notin (MaxUint16 + 1)..MaxUint24
    BY SMT, <1>2, Limits
  <2>2. PacketSizeBytes(n) = 2
    BY SMT, <2>1 DEF PacketSizeBytes
  <2> QED
    BY SMT, <1>2, <2>2, Limits DEF Uint, Field
<1>3. CASE n > MaxUint16 /\ n <= MaxUint24
  <2>1. n \notin (MaxUint8 + 1)..MaxUint16 /\ ~ (n <= MaxUint8) /\ n \in (MaxUint16 + 1)..MaxUint24
    BY SMT, <1>3, Limits
  <2>2. PacketSizeBytes(n) = 3
    BY SMT, <2>1 DEF PacketSizeBytes
  <2> QED
    BY SMT, <1>3, <2>2, Limits DEF Uint, Field
<1>4. CASE n > MaxUint24
  <2>1. n \notin (MaxUint8 + 1)..MaxUint16 /\ ~ (n <= MaxUint8) /\ n \notin (MaxUint16 + 1)..MaxUint24
    BY SMT, <1>4, Limits
  <2>2. PacketSizeBytes(n) = 4
    BY SMT, <2>1 DEF PacketSizeBytes
  <2> QED
    BY SMT, <1>4, <2>2, Limits DEF Uint, Field
<1> QED
  BY SMT, <1>1, <1>2, <1>3, <1>4, Limits

\* The size of an action fits into the bytes that are chosen for it.
LEMMA NameSizeFits ==
  ASSUME NEW n \in Nat, n <= MaxUint16
  PROVE  getNameSizeBytes(n) \in {1, 2} /\ Uint(n, getNameSizeBytes(n)).value = n
BY SMT, Limits DEF getNameSizeBytes, Uint, Field

\* So does the size of data that a Message packet announces.
LEMMA DataSizeFits ==
  ASSUME NEW n \in Nat, n > 0
  PROVE  getDataSizeBytes(n) \in {1, 2, 6} /\ Uint(n, getDataSizeBytes(n)).value = n
<1>1. CASE n <= MaxUint8
  <2>1. n # 0 /\ n \in 1..MaxUint8 /\ n \notin (MaxUint8 + 1)..MaxUint16
    BY SMT, <1>1, Limits
  <2>2. getDataSizeBytes(n) = 1
    BY SMT, <2>1 DEF getDataSizeBytes
  <2> QED
    BY SMT, <1>1, <2>2, Limits DEF Uint, Field
<1>2. CASE n > MaxUint8 /\ n <= MaxUint16
  <2>1. n # 0 /\ n \notin 1..MaxUint8 /\ n \in (MaxUint8 + 1)..MaxUint16
    BY SMT, <1>2, Limits
  <2>2. getDataSizeBytes(n) = 2
    BY SMT, <2>1 DEF getDataSizeBytes
  <2>3. Uint(n, 2).value = n % (MaxUint16 + 1)
    BY DEF Uint, Field
  <2> QED
    BY SMT, <1>2, <2>2, <2>3, Limits
<1>3. CASE n > MaxUint16
  <2>1. n # 0 /\ n \notin 1..MaxUint8 /\ n \notin (MaxUint8 + 1)..MaxUint16
    BY SMT, <1>3, Limits
  <2>2. getDataSizeBytes(n) = 6
    BY SMT, <2>1 DEF getDataSizeBytes
  <2> QED
    BY SMT, <2>2 DEF Uint, Field
<1> QED
  BY SMT, <1>1, <1>2, <1>3, Limits

\* Every count of channels arrives as it was announced, except 256.
LEMMA HeaderUnderstood ==
  ASSUME NEW n \in 1..MaxChannels
  PROVE  /\ IsUnit(createProtocolHeader(n))
         /\ ReadHeader(createProtocolHeader(n)) = IF n = 256 THEN 0 ELSE n
<1>0. MaxChannels \in Nat /\ MaxChannels = 4096 /\ n \in Nat
  BY DEF MaxChannels
<1>1. CASE n = 1
  <2> DEFINE h == <<Field(1, "single")>>
  <2>1. createProtocolHeader(n) = h
    BY SMT, <1>0, <1>1 DEF createProtocolHeader
  <2>2. DOMAIN h = 1..1 /\ h[1].width = 1 /\ Head(h).value = "single"
    BY DEF Field
  <2> HIDE DEF h
  <2>3. IsUnit(h)
    BY <2>2 DEF IsUnit
  <2>4. ReadHeader(h) = 1
    BY SMT, <2>2 DEF ReadHeader
  <2>5. n # 256
    BY <1>1
  <2> QED
    BY <1>1, <2>1, <2>3, <2>4, <2>5
<1>2. CASE n >= 2 /\ n <= 256
  <2>1. n # 1 /\ n \in 2..256 /\ n \notin 257..(MaxChannels - 1)
    <3>1. n # 1 /\ n \in 2..256
      BY SMT, <1>0, <1>2
    <3>2. \A m \in Nat : ~ (n \in 257..m)
      BY SMT, <1>0, <1>2
    <3>3. MaxChannels - 1 \in Nat
      BY SMT, <1>0
    <3> QED
      BY <3>1, <3>2, <3>3
  <2>2. createProtocolHeader(n) = <<Field(1, "uint8"), Uint(n, 1)>>
    BY SMT, <2>1 DEF createProtocolHeader
  <2>3. Uint(n, 1) = Field(1, IF n = 256 THEN 0 ELSE n)
    <3>1. n % 256 = IF n = 256 THEN 0 ELSE n
      BY SMT, <1>0, <1>2
    <3>2. Uint(n, 1) = Field(1, n % 256)
      BY SMT DEF Uint, MaxUint8
    <3> QED
      BY <3>1, <3>2
  <2> DEFINE h == <<Field(1, "uint8"), Field(1, IF n = 256 THEN 0 ELSE n)>>
  <2>4. createProtocolHeader(n) = h
    BY <2>2, <2>3
  <2>5. DOMAIN h = 1..2 /\ h[1].width = 1 /\ h[2].width = 1 /\ Head(h).value = "uint8"
        /\ h[2].value = IF n = 256 THEN 0 ELSE n
    BY DEF Field
  <2> HIDE DEF h
  <2>6. IsUnit(h)
    BY <2>5 DEF IsUnit
  <2>7. ReadHeader(h) = h[2].value
    BY SMT, <2>5 DEF ReadHeader
  <2> QED
    BY <2>4, <2>5, <2>6, <2>7
<1>3. CASE n >= 257 /\ n <= MaxChannels - 1
  <2>1. n # 1 /\ n \notin 2..256 /\ n \in 257..(MaxChannels - 1)
    BY SMT, <1>0, <1>3
  <2>2. createProtocolHeader(n) = <<Field(1, "uint16"), Uint(n, 2)>>
    BY SMT, <2>1 DEF createProtocolHeader
  <2>3. Uint(n, 2) = Field(2, n)
    <3>1. n % 65536 = n
      BY SMT, <1>0, <1>3
    <3>2. Uint(n, 2) = Field(2, n % 65536)
      BY SMT DEF Uint, MaxUint16
    <3> QED
      BY <3>1, <3>2
  <2> DEFINE h == <<Field(1, "uint16"), Field(2, n)>>
  <2>4. createProtocolHeader(n) = h
    BY <2>2, <2>3
  <2>5. DOMAIN h = 1..2 /\ h[1].width = 1 /\ h[2].width = 2 /\ Head(h).value = "uint16"
        /\ h[2].value = n
    BY DEF Field
  <2> HIDE DEF h
  <2>6. IsUnit(h)
    BY <2>5 DEF IsUnit
  <2>7. ReadHeader(h) = h[2].value
    BY SMT, <2>5 DEF ReadHeader
  <2>8. n # 256
    BY <1>0, <1>3
  <2> QED
    BY <2>4, <2>5, <2>6, <2>7, <2>8
<1>4. CASE n = MaxChannels
  <2>1. n # 1 /\ n \notin 2..256 /\ n \notin 257..(MaxChannels - 1) /\ n # 256
    BY SMT, <1>0, <1>4
  <2> DEFINE h == <<Field(1, "max")>>
  <2>2. createProtocolHeader(n) = h
    BY SMT, <2>1 DEF createProtocolHeader
  <2>3. DOMAIN h = 1..1 /\ h[1].width = 1 /\ Head(h).value = "max"
    BY DEF Field
  <2> HIDE DEF h
  <2>4. IsUnit(h)
    BY <2>3 DEF IsUnit
  <2>5. ReadHeader(h) = MaxChannels
    BY SMT, <2>3 DEF ReadHeader
  <2> QED
    BY <1>4, <2>1, <2>2, <2>4, <2>5
<1>5. n = 1 \/ (n >= 2 /\ n <= 256) \/ (n >= 257 /\ n <= MaxChannels - 1) \/ n = MaxChannels
  <2>1. n \in Nat /\ n >= 1 /\ n <= MaxChannels
    BY SMT, <1>0
  <2> QED
    BY SMT, <1>0, <2>1
<1> QED
  BY <1>1, <1>2, <1>3, <1>4, <1>5

\* A switch packet leads to the channel it was made for.
LEMMA SwitchUnderstood ==
  ASSUME NEW c \in Nat
  PROVE  /\ IsUnit(createSwitchChannelPacket(c))
         /\ SwitchTarget(createSwitchChannelPacket(c)) = c
         /\ createSwitchChannelPacket(c)[1].value.type \in {"channelLow", "channelHigh"}
<1> USE DEF createSwitchChannelPacket, SwitchTarget, IsUnit, Field, Uint, MaxUint4, MaxUint8
<1>1. CASE c <= 15
  BY SMTT(30), <1>1
<1>2. CASE ~ (c <= 15)
  <2>1. c \div 256 \in Nat /\ c % 256 \in 0..255 /\ (c \div 256) * 256 + (c % 256) = c
    OBVIOUS
  <2> DEFINE h == <<Field(1, [type |-> "channelHigh", bits |-> c \div 256]), Field(1, c % 256)>>
  <2>2. createSwitchChannelPacket(c) = h
    BY <1>2
  <2>3. DOMAIN h = 1..2 /\ h[1].width = 1 /\ h[2].width = 1
        /\ Head(h).value.type = "channelHigh" /\ Head(h).value.bits = c \div 256
        /\ h[1].value.type = "channelHigh" /\ h[2].value = c % 256
    OBVIOUS
  <2> HIDE DEF h
  <2>4. IsUnit(h)
    BY <2>3
  <2>5. SwitchTarget(h) = (c \div 256) * 256 + (c % 256)
    BY <2>3
  <2>6. SwitchTarget(h) = c /\ h[1].value.type \in {"channelLow", "channelHigh"}
    BY <2>1, <2>3, <2>5
  <2> QED
    BY ONLY <2>2, <2>4, <2>6
<1> QED
  BY <1>1, <1>2

-----------------------------------------------------------------------------
(* The fields of each kind of packet.                                      *)

\* A signature with the size of its packet says both, whatever the size.
LEMMA SizedFields ==
  ASSUME NEW type, NEW stream, NEW n \in Nat
  PROVE  LET a == Signature(type, n, stream)
             b == Uint(n, PacketSizeBytes(n))
         IN
         /\ Sized(type, n, stream) = <<a, b>>
         /\ a.width = 1 /\ a.value.type = type /\ a.value.stream = stream
         /\ b.width \in {1, 2, 3, 4} /\ b.value = n
         /\ (b.width = 4 <=> n > MaxUint24)
<1> DEFINE b == Uint(n, PacketSizeBytes(n))
<1>1. PacketSizeBytes(n) \in {1, 2, 3, 4} /\ b.value = n
      /\ (PacketSizeBytes(n) = 4 <=> n > MaxUint24)
  BY PacketSizeFits
<1>2. b.width = PacketSizeBytes(n)
  BY <1>1, UintWidth
<1> QED
  BY <1>1, <1>2 DEF Sized, Signature, Field

\* A sequence that is made of two others, and where to find them in it.
LEMMA Joined ==
  ASSUME NEW S, NEW s \in Seq(S), NEW t \in Seq(S), NEW u \in Seq(S),
         Len(u) = Len(s) + Len(t),
         \A i \in 1..Len(s) : u[i] = s[i], \A i \in 1..Len(t) : u[Len(s) + i] = t[i]
  PROVE  s \o t = u /\ SubSeq(u, 1, Len(s)) = s /\ SubSeq(u, Len(s) + 1, Len(u)) = t
<1>0. Len(s) \in Nat /\ Len(t) \in Nat /\ \A i \in 1..Len(u) : u[i] \in S
  OBVIOUS
<1>1. s \o t = u
  <2>1. \A i \in 1..(Len(s) + Len(t)) : (s \o t)[i] = u[i]
    <3> SUFFICES ASSUME NEW i \in 1..(Len(s) + Len(t)) PROVE (s \o t)[i] = u[i]
      OBVIOUS
    <3>1. (s \o t)[i] = IF i <= Len(s) THEN s[i] ELSE t[i - Len(s)]
      BY ConcatProperties
    <3>2. CASE i <= Len(s)
      BY <1>0, <3>1, <3>2
    <3>3. CASE ~ (i <= Len(s))
      <4>1. i - Len(s) \in 1..Len(t) /\ Len(s) + (i - Len(s)) = i
        BY <1>0, <3>3
      <4> QED
        BY <3>1, <3>3, <4>1
    <3> QED
      BY <3>2, <3>3
  <2>2. s \o t \in Seq(S) /\ Len(s \o t) = Len(s) + Len(t)
    BY ConcatProperties
  <2> QED
    BY <2>1, <2>2, SeqEqual
<1>2. SubSeq(u, 1, Len(s)) = s
  <2> DEFINE v == SubSeq(u, 1, Len(s))
  <2>1. \A i \in 1..Len(s) : u[i] \in S
    BY <1>0
  <2>2. v \in Seq(S) /\ Len(v) = Len(s) /\ \A i \in 1..Len(s) : v[i] = u[i]
    <3>1. /\ v \in Seq(S) /\ Len(v) = (IF 1 <= Len(s) THEN Len(s) - 1 + 1 ELSE 0)
          /\ \A i \in 1..(Len(s) - 1 + 1) : v[i] = u[1 + i - 1]
      BY <1>0, <2>1, SubSeqProperties
    <3> HIDE DEF v
    <3> QED
      BY <1>0, <3>1
  <2> HIDE DEF v
  <2>3. v = s
    BY <2>2, SeqEqual
  <2> QED
    BY <2>3 DEF v
<1>3. SubSeq(u, Len(s) + 1, Len(u)) = t
  <2> DEFINE v == SubSeq(u, Len(s) + 1, Len(u))
  <2>1. \A i \in (Len(s) + 1)..Len(u) : u[i] \in S
    BY <1>0
  <2>2. v \in Seq(S) /\ Len(v) = Len(t) /\ \A i \in 1..Len(t) : v[i] = u[Len(s) + i]
    <3>1. /\ v \in Seq(S)
          /\ Len(v) = (IF Len(s) + 1 <= Len(u) THEN Len(u) - (Len(s) + 1) + 1 ELSE 0)
          /\ \A i \in 1..(Len(u) - (Len(s) + 1) + 1) : v[i] = u[Len(s) + 1 + i - 1]
      BY <1>0, <2>1, SubSeqProperties
    <3>2. \A i \in 1..Len(t) : i \in 1..(Len(u) - (Len(s) + 1) + 1) /\ Len(s) + 1 + i - 1 = Len(s) + i
      BY <1>0
    <3>3. Len(v) = Len(t)
      BY <1>0, <3>1
    <3> HIDE DEF v
    <3> QED
      BY <3>1, <3>2, <3>3
  <2> HIDE DEF v
  <2>3. v = t
    BY <2>2, SeqEqual
  <2> QED
    BY <2>3 DEF v
<1> QED
  BY <1>1, <1>2, <1>3

\* The end of a stream is one byte.
LEMMA EndFields ==
  ASSUME NEW p, p.kind = "end"
  PROVE  /\ IsUnit(PacketFields(p)) /\ Width(PacketFields(p)) = 1
         /\ PacketFields(p)[1].value.type = "end"
<1> DEFINE a == Field(1, [type |-> "end"])
<1>1. PacketFields(p) = <<a>>
  BY DEF PacketFields
<1>2. a.width = 1 /\ a.value.type = "end"
  BY DEF Field
<1> HIDE DEF a
<1>3. IsUnit(<<a>>)
  BY <1>2 DEF IsUnit
<1> QED
  BY <1>1, <1>2, <1>3, WidthOfOne

\* A fast reply is a unit that the parser tells by its first byte.
LEMMA FastReplyFields ==
  ASSUME NEW p, p.kind = "fastReply"
  PROVE  IsUnit(PacketFields(p)) /\ PacketFields(p)[1].value.type = "fastReply"
<1> DEFINE a == Field(1, [type |-> "fastReply"])
           b == Uint(17, 1)
           c == Field(17, p.of)
<1>1. PacketFields(p) = <<a, b, c>>
  BY DEF PacketFields
<1>2. a.width = 1 /\ a.value.type = "fastReply" /\ b.width = 1 /\ c.width = 17
  BY UintWidth DEF Field
<1> HIDE DEF a, b, c
<1>3. IsUnit(<<a, b, c>>)
  <2> DEFINE u == <<a, b, c>>
  <2>1. DOMAIN u = 1..3 /\ u[1] = a /\ u[2] = b /\ u[3] = c
    OBVIOUS
  <2> HIDE DEF u
  <2>2. \A i \in 1..3 : u[i].width \in Nat
    BY <1>2, <2>1
  <2>3. IsUnit(u)
    BY <2>1, <2>2 DEF IsUnit
  <2> QED
    BY <2>3 DEF u
<1> QED
  BY <1>1, <1>2, <1>3

\* A part of a message: its size says how many bytes come after the ones that
\* are read at once.
LEMMA PartFields ==
  ASSUME NEW p, p.kind \in {"data", "chunk"}, p.size \in Nat
  PROVE  LET f == PacketFields(p) IN
         /\ IsUnit(f) /\ f[1].value.type = p.kind /\ f[2].value = p.size
         /\ (f[2].width = 4 <=> p.size > MaxUint24)
         /\ Width(SubSeq(f, 1, 2)) \in Nat
         /\ Width(f) = Width(SubSeq(f, 1, 2)) + p.size
<1> DEFINE f == PacketFields(p)
<1> DEFINE a == Signature(p.kind, p.size, FALSE)
           b == Uint(p.size, PacketSizeBytes(p.size))
<1>1. /\ Sized(p.kind, p.size, FALSE) = <<a, b>>
      /\ a.width = 1 /\ a.value.type = p.kind
      /\ b.width \in {1, 2, 3, 4} /\ b.value = p.size
      /\ (b.width = 4 <=> p.size > MaxUint24)
  <2> DEFINE no == FALSE
             kind == p.kind
             n == p.size
  <2>1. n \in Nat
    OBVIOUS
  <2> HIDE DEF no, kind, n
  <2>2. LET x == Signature(kind, n, no)
            y == Uint(n, PacketSizeBytes(n))
        IN  /\ Sized(kind, n, no) = <<x, y>>
            /\ x.width = 1 /\ x.value.type = kind
            /\ y.width \in {1, 2, 3, 4} /\ y.value = n
            /\ (y.width = 4 <=> n > MaxUint24)
    BY <2>1, SizedFields
  <2> QED
    BY ONLY <2>2 DEF no, kind, n
<1>2. f = <<a, b>> \o IF p.size = 0 THEN <<>> ELSE <<Field(p.size, p.of)>>
  BY <1>1 DEF PacketFields
<1> HIDE DEF a, b
<1>w. a.width \in Nat /\ b.width \in Nat
  BY <1>1
<1> SUFFICES /\ IsUnit(f) /\ f[1].value.type = p.kind /\ f[2].value = p.size
             /\ (f[2].width = 4 <=> p.size > MaxUint24)
             /\ Width(SubSeq(f, 1, 2)) \in Nat
             /\ Width(f) = Width(SubSeq(f, 1, 2)) + p.size
  OBVIOUS
<1>3. CASE p.size = 0
  <2> DEFINE u == <<a, b>>
  <2>1. f = u
    <3>1. <<a, b>> \o <<>> = <<a, b>>
      OBVIOUS
    <3> QED
      BY <1>2, <1>3, <3>1
  <2>2. DOMAIN u = 1..2 /\ Len(u) = 2 /\ u[1] = a /\ u[2] = b /\ u \in Seq({a, b})
    OBVIOUS
  <2>3. Width(u) = a.width + b.width
    BY <1>w, WidthOfTwo
  <2>6. SubSeq(u, 1, 2) = u
    <3>1. <<>> \in Seq({a, b}) /\ Len(<<>>) = 0
      OBVIOUS
    <3> HIDE DEF u
    <3>2. Len(u) = Len(u) + Len(<<>>) /\ \A i \in 1..Len(<<>>) : u[Len(u) + i] = <<>>[i]
      BY <2>2, <3>1
    <3>3. SubSeq(u, 1, Len(u)) = u
      BY <2>2, <3>1, <3>2, Joined
    <3> QED
      BY <2>2, <3>3
  <2> HIDE DEF u, f
  <2>4. \A i \in 1..2 : u[i].width \in Nat
    BY <1>w, <2>2
  <2>5. IsUnit(u)
    BY <2>2, <2>4 DEF IsUnit
  <2>7. u[1].value.type = p.kind /\ u[2].value = p.size
    BY <1>1, <2>2
  <2>8. u[2].width = 4 <=> p.size > MaxUint24
    BY <1>1, <2>2
  <2>9. Width(u) \in Nat /\ Width(u) = Width(u) + p.size
    BY <1>w, <1>3, <2>3
  <2> QED
    BY ONLY <2>1, <2>5, <2>6, <2>7, <2>8, <2>9
<1>4. CASE p.size # 0
  <2> DEFINE c == Field(p.size, p.of)
             u == <<a, b, c>>
             v == <<a, b>>
  <2>c. c.width = p.size
    BY DEF Field
  <2>d. f = v \o <<c>>
    BY <1>2, <1>4
  <2> HIDE DEF c
  <2>2. DOMAIN u = 1..3 /\ Len(u) = 3 /\ u[1] = a /\ u[2] = b /\ u[3] = c
    OBVIOUS
  <2>1. f = u /\ SubSeq(u, 1, 2) = v
    <3> DEFINE S == {a, b, c}
               w == <<c>>
    <3>1. v \in Seq(S) /\ w \in Seq(S) /\ u \in Seq(S)
      OBVIOUS
    <3>2. Len(v) = 2 /\ Len(w) = 1 /\ v[1] = a /\ v[2] = b /\ w[1] = c
      OBVIOUS
    <3>3. f = v \o w
      BY <2>d
    <3> HIDE DEF S, u, v, w, f
    <3>4. /\ Len(u) = Len(v) + Len(w) /\ \A i \in 1..Len(v) : u[i] = v[i]
          /\ \A i \in 1..Len(w) : u[Len(v) + i] = w[i]
      BY <2>2, <3>2
    <3>5. v \o w = u /\ SubSeq(u, 1, Len(v)) = v
      BY <3>1, <3>4, Joined
    <3> QED
      BY <3>2, <3>3, <3>5
  <2>3. Width(u) = a.width + b.width + c.width
    BY <1>w, <2>c, WidthOfThree
  <2>4. Width(v) = a.width + b.width
    BY <1>w, WidthOfTwo
  <2> HIDE DEF u, v, f
  <2>5. \A i \in 1..3 : u[i].width \in Nat
    BY <1>w, <2>2, <2>c
  <2>6. IsUnit(u)
    BY <2>2, <2>5 DEF IsUnit
  <2>7. u[1].value.type = p.kind /\ u[2].value = p.size
    BY <1>1, <2>2
  <2>8. u[2].width = 4 <=> p.size > MaxUint24
    BY <1>1, <2>2
  <2>9. Width(v) \in Nat /\ Width(u) = Width(v) + p.size
    BY <1>w, <2>c, <2>3, <2>4
  <2> QED
    BY ONLY <2>1, <2>6, <2>7, <2>8, <2>9
<1> QED
  BY <1>3, <1>4

\* A message: the message reader asks for the bytes that were written, gets what
\* was put into them, and the size in front of it counts all of them.
LEMMA MessageFields ==
  ASSUME NEW p, p.kind = "message", p.size \in Nat, p.size <= MaxUint16, p.data \in Nat
  PROVE  LET f == PacketFields(p)
             body == SubSeq(f, 3, Len(f))
         IN
         /\ IsUnit(f) /\ f[1].value.type = "message" /\ f[1].value.stream = p.stream
         /\ f[4].value = p.of /\ f[5].value = p.size
         /\ HeaderDataSize(f) = p.data
         /\ HeaderLayout(f) = [i \in DOMAIN body |-> body[i].width]
         /\ Width(body) = f[2].value
<1> DEFINE f == PacketFields(p)
           body == SubSeq(f, 3, Len(f))
           ns == getNameSizeBytes(p.size)
           ds == getDataSizeBytes(p.data)
           c == Field(1, [name |-> ns, data |-> ds])
           d == Field(16, p.of)
           e == Uint(p.size, ns)
           g == Field(p.size, p.of)
           h == Uint(p.data, ds)
<1>0. ns \in {1, 2} /\ e.value = p.size /\ e.width = ns
  BY NameSizeFits, UintWidth
<1>1. c.width = 1 /\ c.value.name = ns /\ c.value.data = ds /\ d.width = 16 /\ d.value = p.of
      /\ g.width = p.size
  BY DEF Field
<1>2. IF p.data = 0 THEN ds = 0 ELSE ds \in {1, 2, 6} /\ h.value = p.data /\ h.width = ds
  <2>1. CASE p.data = 0
    <3>1. getDataSizeBytes(0) = 0
      BY SMT, Limits DEF getDataSizeBytes
    <3> QED
      BY <2>1, <3>1
  <2>2. CASE p.data # 0
    <3>1. p.data \in Nat /\ p.data > 0
      BY <2>2
    <3>2. ds \in {1, 2, 6} /\ h.value = p.data
      BY <3>1, DataSizeFits
    <3> QED
      BY <2>2, <3>1, <3>2, UintWidth
  <2> QED
    BY <2>1, <2>2
<1>3. MessageSize(p) = 17 + ns + p.size + ds /\ MessageSize(p) \in Nat
  BY <1>0, <1>2 DEF MessageSize
<1> DEFINE a == Signature("message", MessageSize(p), p.stream)
           b == Uint(MessageSize(p), PacketSizeBytes(MessageSize(p)))
<1>4. /\ Sized("message", MessageSize(p), p.stream) = <<a, b>>
      /\ a.width = 1 /\ a.value.type = "message" /\ a.value.stream = p.stream
      /\ b.width \in {1, 2, 3, 4} /\ b.value = MessageSize(p)
  BY <1>3, SizedFields
<1>5. f = <<a, b>> \o <<c, d, e, g>> \o IF p.data = 0 THEN <<>> ELSE <<h>>
  BY <1>4 DEF PacketFields
<1> HIDE DEF f, ns, ds, a, b, c, d, e, g, h
<1>6. CASE p.data = 0
  <2> DEFINE u == <<a, b, c, d, e, g>>
             v == <<c, d, e, g>>
             x == <<1, 16, ns, p.size>>
  <2>2. /\ DOMAIN u = 1..6 /\ Len(u) = 6 /\ u[1] = a /\ u[2] = b /\ u[3] = c /\ u[4] = d
        /\ u[5] = e /\ u[6] = g
    OBVIOUS
  <2>1. f = u /\ SubSeq(u, 3, 6) = v
    <3> DEFINE S == {a, b, c, d, e, g}
               w == <<a, b>>
    <3>1. v \in Seq(S) /\ w \in Seq(S) /\ u \in Seq(S)
      OBVIOUS
    <3>2. /\ Len(v) = 4 /\ v[1] = c /\ v[2] = d /\ v[3] = e /\ v[4] = g
          /\ Len(w) = 2 /\ w[1] = a /\ w[2] = b
      OBVIOUS
    <3>3. f = w \o v \o <<>>
      BY <1>5, <1>6
    <3> HIDE DEF S, u, v, w, f
    <3>4. /\ Len(u) = Len(w) + Len(v) /\ \A i \in 1..Len(w) : u[i] = w[i]
          /\ \A i \in 1..Len(v) : u[Len(w) + i] = v[i]
      BY <2>2, <3>2
    <3>5. w \o v = u /\ SubSeq(u, Len(w) + 1, Len(u)) = v
      BY <3>1, <3>4, Joined
    <3>6. u \o <<>> = u
      BY <3>1, ConcatEmptySeq
    <3> QED
      BY <2>2, <3>2, <3>3, <3>5, <3>6
  <2>3. DOMAIN v = 1..4 /\ v[1] = c /\ v[2] = d /\ v[3] = e /\ v[4] = g
    OBVIOUS
  <2>4. Width(v) = 17 + ns + p.size
    <3>1. Width(v) = c.width + d.width + e.width + g.width
      BY <1>0, <1>1, WidthOfFour
    <3> QED
      BY <1>0, <1>1, <3>1
  <2>5. x \o <<>> = x /\ DOMAIN x = 1..4 /\ x[1] = 1 /\ x[2] = 16 /\ x[3] = ns /\ x[4] = p.size
    OBVIOUS
  <2>h. HeaderLayout(u) = <<1, 16, u[3].value.name, u[5].value>> \o <<>>
    BY <1>1, <1>2, <1>6, <2>2 DEF HeaderLayout
  <2>6. HeaderLayout(u) = x
    BY <1>0, <1>1, <2>2, <2>5, <2>h
  <2> HIDE DEF u, v, x
  <2>7. [i \in DOMAIN v |-> v[i].width] = x
    <3>1. \A i \in 1..4 : v[i].width = x[i]
      BY <1>0, <1>1, <2>3, <2>5
    <3>2. x = [i \in 1..4 |-> x[i]]
      BY <2>5 DEF x
    <3> QED
      BY <2>3, <3>1, <3>2
  <2>8. IsUnit(u)
    <3>1. \A i \in 1..6 : u[i].width \in Nat
      BY <1>0, <1>1, <1>4, <2>2
    <3> QED
      BY <2>2, <3>1 DEF IsUnit
  <2>9. HeaderDataSize(u) = 0
    BY <1>1, <1>2, <1>6, <2>2 DEF HeaderDataSize
  <2>10. u[2].value = Width(v)
    BY <1>0, <1>2, <1>3, <1>4, <1>6, <2>2, <2>4
  <2> QED
    BY <1>0, <1>1, <1>4, <1>6, <2>1, <2>2, <2>6, <2>7, <2>8, <2>9, <2>10 DEF f
<1>7. CASE p.data # 0
  <2> DEFINE u == <<a, b, c, d, e, g, h>>
             v == <<c, d, e, g, h>>
             x == <<1, 16, ns, p.size, ds>>
  <2>2. /\ DOMAIN u = 1..7 /\ Len(u) = 7 /\ u[1] = a /\ u[2] = b /\ u[3] = c /\ u[4] = d
        /\ u[5] = e /\ u[6] = g /\ u[7] = h
    OBVIOUS
  <2>1. f = u /\ SubSeq(u, 3, 7) = v
    <3> DEFINE S == {a, b, c, d, e, g, h}
               w == <<a, b>>
               x1 == <<c, d, e, g>>
               x2 == <<h>>
    <3>1. v \in Seq(S) /\ w \in Seq(S) /\ u \in Seq(S) /\ x1 \in Seq(S) /\ x2 \in Seq(S)
      OBVIOUS
    <3>2. /\ Len(v) = 5 /\ v[1] = c /\ v[2] = d /\ v[3] = e /\ v[4] = g /\ v[5] = h
          /\ Len(w) = 2 /\ w[1] = a /\ w[2] = b /\ Len(x2) = 1 /\ x2[1] = h
      OBVIOUS
    <3>3. Len(x1) = 4 /\ x1[1] = c /\ x1[2] = d /\ x1[3] = e /\ x1[4] = g
      OBVIOUS
    <3>4. f = (w \o x1) \o x2
      BY <1>5, <1>7
    <3>a. \A x3, y3, z3 \in Seq(S) : (x3 \o y3) \o z3 = x3 \o (y3 \o z3)
      BY SMTT(30), ConcatAssociative
    <3> HIDE DEF S, u, v, w, x1, x2, f
    <3>5. /\ Len(u) = Len(w) + Len(v) /\ \A i \in 1..Len(w) : u[i] = w[i]
          /\ \A i \in 1..Len(v) : u[Len(w) + i] = v[i]
      BY <2>2, <3>2
    <3>6. w \o v = u /\ SubSeq(u, Len(w) + 1, Len(u)) = v
      BY <3>1, <3>5, Joined
    <3>7. /\ Len(v) = Len(x1) + Len(x2) /\ \A i \in 1..Len(x1) : v[i] = x1[i]
          /\ \A i \in 1..Len(x2) : v[Len(x1) + i] = x2[i]
      BY <3>2, <3>3
    <3>8. x1 \o x2 = v
      BY <3>1, <3>7, Joined
    <3>9. (w \o x1) \o x2 = w \o (x1 \o x2)
      BY ONLY <3>1, <3>a
    <3> QED
      BY <2>2, <3>2, <3>4, <3>6, <3>8, <3>9
  <2>3. DOMAIN v = 1..5 /\ v[1] = c /\ v[2] = d /\ v[3] = e /\ v[4] = g /\ v[5] = h
    OBVIOUS
  <2>4. Width(v) = 17 + ns + p.size + ds
    <3>1. Width(v) = c.width + d.width + e.width + g.width + h.width
      BY <1>0, <1>1, <1>2, <1>7, WidthOfFive
    <3> QED
      BY <1>0, <1>1, <1>2, <1>7, <3>1
  <2>5. DOMAIN x = 1..5 /\ x[1] = 1 /\ x[2] = 16 /\ x[3] = ns /\ x[4] = p.size /\ x[5] = ds
    OBVIOUS
  <2>j. <<1, 16, ns, p.size>> \o <<ds>> = x
    <3> DEFINE S == {1, 16, ns, p.size, ds}
               x1 == <<1, 16, ns, p.size>>
               x2 == <<ds>>
    <3>1. x \in Seq(S) /\ x1 \in Seq(S) /\ x2 \in Seq(S) /\ Len(x) = 5 /\ Len(x2) = 1 /\ x2[1] = ds
      OBVIOUS
    <3>2. Len(x1) = 4 /\ x1[1] = 1 /\ x1[2] = 16 /\ x1[3] = ns /\ x1[4] = p.size
      OBVIOUS
    <3> HIDE DEF S, x, x1, x2
    <3>3. /\ Len(x) = Len(x1) + Len(x2) /\ \A i \in 1..Len(x1) : x[i] = x1[i]
          /\ \A i \in 1..Len(x2) : x[Len(x1) + i] = x2[i]
      BY <2>5, <3>1, <3>2
    <3>4. x1 \o x2 = x
      BY <3>1, <3>3, Joined
    <3> QED
      BY <3>4 DEF x1, x2
  <2>h. HeaderLayout(u) = <<1, 16, u[3].value.name, u[5].value>> \o <<u[3].value.data>>
    <3>1. ds # 0
      BY <1>2, <1>7
    <3> QED
      BY <1>1, <2>2, <3>1 DEF HeaderLayout
  <2>6. HeaderLayout(u) = x
    BY <1>0, <1>1, <2>2, <2>5, <2>h, <2>j
  <2> HIDE DEF u, v, x
  <2>7. [i \in DOMAIN v |-> v[i].width] = x
    <3>1. \A i \in 1..5 : v[i].width = x[i]
      BY <1>0, <1>1, <1>2, <1>7, <2>3, <2>5
    <3>2. x = [i \in 1..5 |-> x[i]]
      BY <2>5 DEF x
    <3> QED
      BY <2>3, <3>1, <3>2
  <2>8. IsUnit(u)
    <3>1. \A i \in 1..7 : u[i].width \in Nat
      BY <1>0, <1>1, <1>2, <1>4, <1>7, <2>2
    <3> QED
      BY <2>2, <3>1 DEF IsUnit
  <2>9. HeaderDataSize(u) = p.data
    <3>1. ds # 0 /\ h.value = p.data
      BY <1>2, <1>7
    <3> QED
      BY <1>1, <2>2, <3>1 DEF HeaderDataSize
  <2>10. u[2].value = Width(v)
    BY <1>0, <1>2, <1>3, <1>4, <1>7, <2>2, <2>4
  <2> QED
    BY <1>0, <1>1, <1>4, <1>7, <2>1, <2>2, <2>6, <2>7, <2>8, <2>9, <2>10 DEF f
<1> QED
  BY <1>6, <1>7 DEF f
=============================================================================
