------------------------------- MODULE DataLemmas -------------------------------
(***************************************************************************)
(* Facts about naturals, sequences and finite counts that the proofs of    *)
(* several components cite.  Nothing here is about the program.  Induction *)
(* is stated over a set rather than over a predicate, from the fact that < *)
(* is well founded on the naturals: a set can be instantiated by the       *)
(* provers where an operator cannot.                                       *)
(***************************************************************************)
EXTENDS Integers, Sequences, FiniteSets, SequencesExt,
        WellFoundedInduction, FunctionTheorems, FiniteSetTheorems,
        SequenceTheorems, TLAPS

--------------------------------------------------------------------------------
(* Naturals                                                                *)

\* LEMMA: a set of naturals that is not empty has a least member.
LEMMA LeastElement ==
    ASSUME NEW S, S \subseteq Nat, S # {}
    PROVE  \E n \in S : \A m \in S : n <= m
<1>. DEFINE R == OpToRel(<, Nat)
<1>1. IsWellFoundedOn(R, Nat)
  BY NatLessThanWellFounded
<1>2. \A x, y \in Nat : y < x => <<y, x>> \in R
  BY DEF OpToRel
<1>. HIDE DEF R
<1>3. PICK x \in S : \A y \in S : <<y, x>> \notin R
  BY <1>1, WFMin
<1>4. \A y \in S : ~(y < x)
  BY <1>2, <1>3
<1>5. \A y \in S : x <= y
  BY <1>4
<1>. QED BY <1>5

\* LEMMA: induction over the naturals, for the members of a set.
LEMMA Induction ==
    ASSUME NEW S, 0 \in S, \A n \in Nat : n \in S => n + 1 \in S
    PROVE  Nat \subseteq S
<1>. DEFINE T == Nat \ S
<1>1. SUFFICES ASSUME T # {} PROVE FALSE
  OBVIOUS
<1>2. T \subseteq Nat
  OBVIOUS
<1>3. PICK n \in T : \A m \in T : n <= m
  BY <1>1, <1>2, LeastElement
<1>4. n \in Nat /\ n # 0
  BY <1>3
<1>. DEFINE p == n - 1
<1>5. p \in Nat /\ n = p + 1 /\ ~(n <= p)
  BY <1>4
<1>6. p \in S
  BY <1>3, <1>5
<1>. HIDE DEF p
<1>. QED BY <1>3, <1>5, <1>6

\* LEMMA: a finite set of naturals below a bound has a greatest member.
LEMMA GreatestElement ==
    ASSUME NEW b \in Nat, NEW S, S \subseteq 0..b, S # {}
    PROVE  \E n \in S : \A m \in S : m <= n
<1>. DEFINE T == {b - n : n \in S}
<1>1. T \subseteq Nat /\ T # {}
  <2>1. \A n \in S : b - n \in Nat
    OBVIOUS
  <2>2. PICK n \in S : TRUE
    OBVIOUS
  <2>3. b - n \in T
    BY <2>2
  <2>. QED BY <2>1, <2>3
<1>2. PICK t \in T : \A m \in T : t <= m
  BY <1>1, LeastElement
<1>3. PICK n \in S : t = b - n
  BY <1>2
<1>4. ASSUME NEW m \in S PROVE m <= n
  BY <1>2, <1>3
<1>. QED BY <1>4

--------------------------------------------------------------------------------
(* Sequences                                                               *)

\* LEMMA: what appending leaves of a sequence.
LEMMA Appended ==
    ASSUME NEW S, NEW s \in Seq(S), NEW e \in S
    PROVE  /\ Append(s, e) \in Seq(S)
           /\ Len(Append(s, e)) = Len(s) + 1 /\ Len(s) \in Nat
           /\ DOMAIN s = 1..Len(s) /\ DOMAIN Append(s, e) = 1..(Len(s) + 1)
           /\ DOMAIN Append(s, e) = DOMAIN s \cup {Len(s) + 1} /\ Len(s) + 1 \notin DOMAIN s
           /\ \A i \in DOMAIN s : Append(s, e)[i] = s[i]
           /\ Append(s, e)[Len(s) + 1] = e
           /\ s \o <<e>> = Append(s, e)
OBVIOUS

\* The positions of a sequence that hold a member of a set.
Positions(s, U) == {i \in DOMAIN s : s[i] \in U}

\* LEMMA: one more element is one more position, if it is in the set.
LEMMA PositionsAppend ==
    ASSUME NEW S, NEW s \in Seq(S), NEW e \in S, NEW U
    PROVE  /\ IsFiniteSet(Positions(s, U)) /\ Cardinality(Positions(s, U)) \in Nat
           /\ e \in U => Cardinality(Positions(Append(s, e), U)) = Cardinality(Positions(s, U)) + 1
           /\ e \notin U => Positions(Append(s, e), U) = Positions(s, U)
<1>. DEFINE n == Len(s) + 1
            after == Append(s, e)
<1>1. /\ DOMAIN after = DOMAIN s \cup {n} /\ n \notin DOMAIN s
      /\ after[n] = e /\ \A i \in DOMAIN s : after[i] = s[i]
  BY Appended
<1>2. IsFiniteSet(Positions(s, U))
  <2>1. Positions(s, U) \subseteq 1..Len(s) /\ Len(s) \in Nat
    BY DEF Positions
  <2>2. IsFiniteSet(1..Len(s))
    BY <2>1, FS_Interval
  <2>. QED BY <2>1, <2>2, FS_Subset
<1>3. Cardinality(Positions(s, U)) \in Nat
  BY <1>2, FS_CardinalityType
<1>. HIDE DEF n, after
<1>4. ASSUME e \in U
      PROVE  Cardinality(Positions(after, U)) = Cardinality(Positions(s, U)) + 1
  <2>1. Positions(after, U) = Positions(s, U) \cup {n} /\ n \notin Positions(s, U)
    BY <1>1, <1>4 DEF Positions
  <2>. QED BY <1>2, <2>1, FS_AddElement
<1>5. ASSUME e \notin U
      PROVE  Positions(after, U) = Positions(s, U)
  BY <1>1, <1>5 DEF Positions
<1>. QED BY <1>2, <1>3, <1>4, <1>5 DEF after

\* LEMMA: how many positions there are is a number.
LEMMA PositionsCount ==
    ASSUME NEW S, NEW s \in Seq(S)
    PROVE  \A U : IsFiniteSet(Positions(s, U)) /\ Cardinality(Positions(s, U)) \in Nat
<1>. SUFFICES ASSUME NEW U
              PROVE  IsFiniteSet(Positions(s, U)) /\ Cardinality(Positions(s, U)) \in Nat
  OBVIOUS
<1>1. Positions(s, U) \subseteq 1..Len(s) /\ Len(s) \in Nat
  BY DEF Positions
<1>2. IsFiniteSet(1..Len(s))
  BY <1>1, FS_Interval
<1>3. IsFiniteSet(Positions(s, U))
  BY <1>1, <1>2, FS_Subset
<1>. QED BY <1>3, FS_CardinalityType

\* LEMMA: a sequence that holds none of a set adds no position.
LEMMA PositionsConcat ==
    ASSUME NEW S, NEW s \in Seq(S), NEW t \in Seq(S), NEW U, \A k \in DOMAIN t : t[k] \notin U
    PROVE  Positions(s \o t, U) = Positions(s, U)
<1>1. /\ DOMAIN s = 1..Len(s) /\ DOMAIN t = 1..Len(t) /\ Len(s) \in Nat /\ Len(t) \in Nat
      /\ DOMAIN (s \o t) = 1..(Len(s) + Len(t))
      /\ \A i \in 1..Len(s) : (s \o t)[i] = s[i]
      /\ \A i \in 1..Len(t) : (s \o t)[Len(s) + i] = t[i]
  OBVIOUS
<1>2. ASSUME NEW i \in DOMAIN (s \o t), i \notin DOMAIN s PROVE (s \o t)[i] \notin U
  <2>1. PICK k \in 1..Len(t) : i = Len(s) + k
    <3>1. i - Len(s) \in 1..Len(t) /\ i = Len(s) + (i - Len(s))
      BY <1>1, <1>2
    <3>. QED BY <3>1
  <2>. QED BY <1>1, <2>1
<1>3. DOMAIN s \subseteq DOMAIN (s \o t)
  BY <1>1
<1>. QED BY <1>1, <1>2, <1>3 DEF Positions
NumberOf(s, U) == Cardinality(Positions(s, U))

\* LEMMA: the count of a sequence that grows by one.
LEMMA NumberAppend ==
    ASSUME NEW S, NEW s \in Seq(S), NEW e \in S, NEW U
    PROVE  /\ NumberOf(s, U) \in Nat
           /\ NumberOf(Append(s, e), U) = NumberOf(s, U) + IF e \in U THEN 1 ELSE 0
BY PositionsAppend DEF NumberOf

\* LEMMA: the count of nothing, of one, and none of what is not there.
LEMMA NumberSmall ==
    ASSUME NEW S, NEW s \in Seq(S), NEW U
    PROVE  /\ NumberOf(s, U) \in Nat
           /\ NumberOf(<< >>, U) = 0
           /\ \A e : NumberOf(<<e>>, U) = IF e \in U THEN 1 ELSE 0
           /\ NumberOf(s, U) = 0 <=> \A i \in DOMAIN s : s[i] \notin U
<1>1. IsFiniteSet(Positions(s, U)) /\ NumberOf(s, U) \in Nat
  BY PositionsCount DEF NumberOf
<1>2. NumberOf(<< >>, U) = 0
  <2>1. Positions(<< >>, U) = {}
    BY DEF Positions
  <2>. QED BY <2>1, FS_EmptySet DEF NumberOf
<1>3. ASSUME NEW e PROVE NumberOf(<<e>>, U) = IF e \in U THEN 1 ELSE 0
  <2>1. CASE e \in U
    <3>1. Positions(<<e>>, U) = {1}
      BY <2>1 DEF Positions
    <3>. QED BY <2>1, <3>1, FS_Singleton DEF NumberOf
  <2>2. CASE e \notin U
    <3>1. Positions(<<e>>, U) = {}
      BY <2>2 DEF Positions
    <3>. QED BY <2>2, <3>1, FS_EmptySet DEF NumberOf
  <2>. QED BY <2>1, <2>2
<1>4. NumberOf(s, U) = 0 <=> Positions(s, U) = {}
  BY <1>1, FS_EmptySet DEF NumberOf
<1>. QED BY <1>1, <1>2, <1>3, <1>4 DEF Positions

\* LEMMA: the count of two sequences in a row is the sum of the two.
LEMMA NumberConcat ==
    ASSUME NEW S, NEW s \in Seq(S), NEW t \in Seq(S), NEW U
    PROVE  NumberOf(s \o t, U) = NumberOf(s, U) + NumberOf(t, U)
<1>. DEFINE m == Len(s)
            Shifted == {m + k : k \in Positions(t, U)}
<1>1. /\ DOMAIN s = 1..m /\ DOMAIN t = 1..Len(t) /\ m \in Nat /\ Len(t) \in Nat
      /\ DOMAIN (s \o t) = 1..(m + Len(t))
      /\ \A i \in 1..m : (s \o t)[i] = s[i]
      /\ \A i \in 1..Len(t) : (s \o t)[m + i] = t[i]
  OBVIOUS
<1>. HIDE DEF m
<1>2. IsFiniteSet(Positions(s, U)) /\ IsFiniteSet(Positions(t, U))
  BY PositionsCount
<1>3. Positions(s, U) \subseteq 1..m /\ Positions(t, U) \subseteq 1..Len(t)
  BY <1>1 DEF Positions
<1>4. Positions(s \o t, U) = Positions(s, U) \cup Shifted
  <2>1. ASSUME NEW i \in DOMAIN (s \o t), i \notin 1..m
        PROVE  \E k \in 1..Len(t) : i = m + k
    <3>1. i - m \in 1..Len(t) /\ i = m + (i - m)
      BY <1>1, <2>1
    <3>. QED BY <3>1
  <2>2. ASSUME NEW i \in Positions(s \o t, U) PROVE i \in Positions(s, U) \cup Shifted
    <3>1. CASE i \in 1..m
      BY <1>1, <2>2, <3>1 DEF Positions
    <3>2. CASE i \notin 1..m
      <4>1. PICK k \in 1..Len(t) : i = m + k
        BY <2>1, <2>2, <3>2 DEF Positions
      <4>2. k \in Positions(t, U)
        BY <1>1, <2>2, <4>1 DEF Positions
      <4>. QED BY <4>1, <4>2
    <3>. QED BY <3>1, <3>2
  <2>3. ASSUME NEW i \in Positions(s, U) PROVE i \in Positions(s \o t, U)
    BY <1>1, <2>3 DEF Positions
  <2>4. ASSUME NEW k \in Positions(t, U) PROVE m + k \in Positions(s \o t, U)
    <3>1. k \in 1..Len(t) /\ t[k] \in U
      BY <1>1, <2>4 DEF Positions
    <3>2. m + k \in 1..(m + Len(t)) /\ (s \o t)[m + k] \in U
      BY <1>1, <3>1
    <3>. QED BY <1>1, <3>2 DEF Positions
  <2>. QED BY <2>2, <2>3, <2>4
<1>5. IsFiniteSet(Shifted) /\ Cardinality(Shifted) = Cardinality(Positions(t, U))
  <2>. DEFINE f == [k \in Positions(t, U) |-> m + k]
  <2>1. f \in Bijection(Positions(t, U), Shifted)
    <3>1. \A k, n \in Positions(t, U) : f[k] = f[n] => k = n
      BY <1>1, <1>3
    <3>2. \A i \in Shifted : \E k \in Positions(t, U) : f[k] = i
      OBVIOUS
    <3>3. f \in [Positions(t, U) -> Shifted]
      OBVIOUS
    <3>. QED BY <3>1, <3>2, <3>3, Fun_IsBij
  <2>2. ExistsBijection(Positions(t, U), Shifted)
    BY <2>1 DEF ExistsBijection
  <2>. QED BY <1>2, <2>2, FS_Bijection
<1>6. Positions(s, U) \cap Shifted = {}
  BY <1>1, <1>3
<1>7. Positions(s, U) \cup Shifted = Positions(s \o t, U)
  BY <1>4
<1>8. Cardinality(Positions(s \o t, U)) = Cardinality(Positions(s, U)) + Cardinality(Positions(t, U))
  <2>. DEFINE a == Cardinality(Positions(s, U))
              b == Cardinality(Positions(t, U))
              c == Cardinality(Positions(s \o t, U))
  <2>1. Cardinality(Positions(s, U) \cup Shifted)
           = a + Cardinality(Shifted) - Cardinality(Positions(s, U) \cap Shifted)
    BY <1>2, <1>5, FS_Union
  <2>2. Cardinality(Positions(s, U) \cap Shifted) = 0
    BY <1>6, FS_EmptySet
  <2>3. a \in Nat /\ b \in Nat /\ Cardinality(Shifted) = b
    BY <1>2, <1>5, FS_CardinalityType
  <2>4. Cardinality(Positions(s, U) \cup Shifted) = c
    BY <1>7
  <2>5. c = a + b - 0
    <3>. HIDE DEF a, b, c, Shifted
    <3>. QED BY <2>1, <2>2, <2>3, <2>4
  <2>. HIDE DEF a, b, c
  <2>6. c = a + b
    BY <2>3, <2>5
  <2>. QED BY <2>6 DEF a, b, c
<1>. QED BY <1>8 DEF NumberOf

--------------------------------------------------------------------------------
(* Sequences of sequences                                                  *)

\* LEMMA: FlattenSeq is what its recursion says: the prefixes of the result,
\* each the one before it and the next sequence.
LEMMA Flattened ==
    ASSUME NEW ss, Len(ss) \in Nat, Len(ss) # 0
    PROVE  \E g : /\ \A i \in 1..Len(ss) : g[i] = IF i = 1 THEN ss[i] ELSE g[i - 1] \o ss[i]
                  /\ FlattenSeq(ss) = g[Len(ss)]
<1>. DEFINE n == Len(ss)
            Rec(g, m) == g = [i \in 1..m |-> IF i = 1 THEN ss[i] ELSE g[i - 1] \o ss[i]]
            Reached == {m \in Nat : \E g : Rec(g, m)}
<1>1. 0 \in Reached
  <2>. DEFINE g == [i \in 1..0 |-> ss[i]]
  <2>1. Rec(g, 0)
    OBVIOUS
  <2>. QED BY <2>1
<1>2. ASSUME NEW m \in Nat, m \in Reached PROVE m + 1 \in Reached
  <2>1. PICK g : Rec(g, m)
    BY <1>2
  <2>. DEFINE h == [i \in 1..(m + 1) |-> IF i <= m THEN g[i]
                                        ELSE IF i = 1 THEN ss[i] ELSE g[i - 1] \o ss[i]]
  <2>2. \A i \in 1..m : g[i] = IF i = 1 THEN ss[i] ELSE g[i - 1] \o ss[i]
    BY <2>1
  <2>3. \A i \in 1..m : h[i] = g[i]
    OBVIOUS
  <2>4. ASSUME NEW i \in 1..(m + 1)
        PROVE  h[i] = IF i = 1 THEN ss[i] ELSE h[i - 1] \o ss[i]
    <3>1. i # 1 => i - 1 \in 1..m
      OBVIOUS
    <3>2. CASE i <= m
      <4>1. i \in 1..m
        BY <3>2
      <4>. HIDE DEF h
      <4>. QED BY <2>2, <2>3, <3>1, <4>1
    <3>3. CASE ~(i <= m)
      <4>1. h[i] = IF i = 1 THEN ss[i] ELSE g[i - 1] \o ss[i]
        BY <3>3
      <4>. HIDE DEF h
      <4>. QED BY <2>3, <3>1, <4>1
    <3>. QED BY <3>2, <3>3
  <2>5. h = [i \in 1..(m + 1) |-> h[i]]
    OBVIOUS
  <2>6. Rec(h, m + 1)
    <3>. HIDE DEF h
    <3>. QED BY <2>4, <2>5
  <2>. HIDE DEF h, Rec
  <2>. QED BY <2>6
<1>3. Nat \subseteq Reached
  <2>. HIDE DEF Reached
  <2>. QED BY <1>1, <1>2, Induction
<1>4. \E g : Rec(g, n)
  BY <1>3
<1>. DEFINE g == CHOOSE g : Rec(g, n)
<1>5. Rec(g, n)
  <2>. HIDE DEF Rec
  <2>. QED BY <1>4
<1>6. FlattenSeq(ss) = g[n]
  BY DEF FlattenSeq
<1>. HIDE DEF g
<1>7. \A i \in 1..n : g[i] = IF i = 1 THEN ss[i] ELSE g[i - 1] \o ss[i]
  BY <1>5
<1>. QED BY <1>6, <1>7

\* LEMMA: sequences of members of S flatten to one, and the count of it is the
\* sum of theirs, written as the function f of its partial sums.
LEMMA FlattenCount ==
    ASSUME NEW S, NEW ss \in Seq(Seq(S)), NEW U, NEW f, f[0] = 0,
           \A i \in 1..Len(ss) : f[i] = f[i - 1] + NumberOf(ss[i], U)
    PROVE  FlattenSeq(ss) \in Seq(S) /\ NumberOf(FlattenSeq(ss), U) = f[Len(ss)]
<1>1. Len(ss) \in Nat /\ \A i \in 1..Len(ss) : ss[i] \in Seq(S)
  OBVIOUS
<1>2. CASE Len(ss) = 0
  <2>1. FlattenSeq(ss) = << >>
    BY <1>2 DEF FlattenSeq
  <2>2. << >> \in Seq(S) /\ NumberOf(<< >>, U) = 0
    BY NumberSmall
  <2>. QED BY <1>2, <2>1, <2>2
<1>3. CASE Len(ss) # 0
  <2>1. PICK g : /\ \A i \in 1..Len(ss) : g[i] = IF i = 1 THEN ss[i] ELSE g[i - 1] \o ss[i]
                 /\ FlattenSeq(ss) = g[Len(ss)]
    BY <1>1, <1>3, Flattened
  <2>. DEFINE Right == {m \in Nat : m \in 1..Len(ss) => g[m] \in Seq(S) /\ NumberOf(g[m], U) = f[m]}
  <2>2. 0 \in Right
    OBVIOUS
  <2>3. ASSUME NEW m \in Nat, m \in Right PROVE m + 1 \in Right
    <3>. SUFFICES ASSUME m + 1 \in 1..Len(ss)
                  PROVE  g[m + 1] \in Seq(S) /\ NumberOf(g[m + 1], U) = f[m + 1]
      OBVIOUS
    <3>1. /\ ss[m + 1] \in Seq(S) /\ f[m + 1] = f[m] + NumberOf(ss[m + 1], U)
          /\ NumberOf(ss[m + 1], U) \in Nat
      <4>1. (m + 1) - 1 = m /\ ss[m + 1] \in Seq(S)
        BY <1>1
      <4>2. f[m + 1] = f[(m + 1) - 1] + NumberOf(ss[m + 1], U)
        OBVIOUS
      <4>. QED BY <4>1, <4>2, NumberSmall
    <3>2. CASE m = 0
      <4>1. g[m + 1] = ss[m + 1]
        BY <2>1, <3>2
      <4>. QED BY <3>1, <3>2, <4>1
    <3>3. CASE m # 0
      <4>1. m \in 1..Len(ss) /\ g[m] \in Seq(S) /\ NumberOf(g[m], U) = f[m]
        BY <2>3, <3>3
      <4>2. g[m + 1] = g[m] \o ss[m + 1]
        <5>1. m + 1 # 1 /\ (m + 1) - 1 = m
          BY <3>3
        <5>. QED BY <2>1, <5>1
      <4>. QED BY <3>1, <4>1, <4>2, NumberConcat
    <3>. QED BY <3>2, <3>3
  <2>4. Nat \subseteq Right
    <3>. HIDE DEF Right
    <3>. QED BY <2>2, <2>3, Induction
  <2>5. Len(ss) \in Right /\ Len(ss) \in 1..Len(ss)
    BY <1>1, <1>3, <2>4
  <2>. QED BY <2>1, <2>5
<1>. QED BY <1>2, <1>3

\* LEMMA: sequences none of which, or one of which, holds what is counted.
LEMMA FlattenOne ==
    ASSUME NEW S, NEW ss \in Seq(Seq(S)), NEW U,
           NEW j, \A i \in DOMAIN ss : i # j => NumberOf(ss[i], U) = 0
    PROVE  /\ FlattenSeq(ss) \in Seq(S)
           /\ NumberOf(FlattenSeq(ss), U) = IF j \in DOMAIN ss THEN NumberOf(ss[j], U) ELSE 0
<1>. DEFINE n == IF j \in DOMAIN ss THEN NumberOf(ss[j], U) ELSE 0
            f == [i \in 0..Len(ss) |-> IF j \in DOMAIN ss /\ i >= j THEN n ELSE 0]
<1>1. Len(ss) \in Nat /\ DOMAIN ss = 1..Len(ss) /\ \A i \in 1..Len(ss) : ss[i] \in Seq(S)
  OBVIOUS
<1>2. n \in Nat
  BY <1>1, NumberSmall
<1>3. f[0] = 0 /\ f[Len(ss)] = n
  BY <1>1
<1>4. ASSUME NEW i \in 1..Len(ss) PROVE f[i] = f[i - 1] + NumberOf(ss[i], U)
  <2>1. i - 1 \in 0..Len(ss) /\ i \in 0..Len(ss)
    BY <1>1
  <2>2. CASE j \in DOMAIN ss /\ i = j
    <3>1. f[i] = n /\ f[i - 1] = 0 /\ NumberOf(ss[i], U) = n
      BY <1>1, <2>1, <2>2
    <3>. HIDE DEF f, n
    <3>. QED BY <1>2, <3>1
  <2>3. CASE ~(j \in DOMAIN ss /\ i = j)
    <3>1. NumberOf(ss[i], U) = 0
      BY <1>1, <2>3
    <3>2. f[i] = f[i - 1]
      <4>1. j \in DOMAIN ss => (i >= j <=> i - 1 >= j)
        BY <1>1, <2>3
      <4>. QED BY <2>1, <4>1
    <3>3. f[i] \in Nat
      <4>. HIDE DEF n
      <4>. QED BY <1>2, <2>1
    <3>. HIDE DEF f
    <3>. QED BY <3>1, <3>2, <3>3
  <2>. QED BY <2>2, <2>3
<1>. HIDE DEF f, n
<1>5. FlattenSeq(ss) \in Seq(S) /\ NumberOf(FlattenSeq(ss), U) = f[Len(ss)]
  BY <1>3, <1>4, FlattenCount
<1>. QED BY <1>3, <1>5 DEF n

\* The sequences ss hold one member of U each where s has a member of V.
Alike(ss, U, s, V) ==
    Len(s) = Len(ss) /\ \A i \in DOMAIN s : NumberOf(ss[i], U) = IF s[i] \in V THEN 1 ELSE 0

\* LEMMA: sequences each of which holds one of what is counted where s does.
LEMMA FlattenLike ==
    ASSUME NEW S, NEW ss \in Seq(Seq(S)), NEW U, NEW T, NEW s \in Seq(T), NEW V, Alike(ss, U, s, V)
    PROVE  NumberOf(FlattenSeq(ss), U) = NumberOf(s, V)
<1>. Len(s) = Len(ss) /\ \A i \in DOMAIN s : NumberOf(ss[i], U) = IF s[i] \in V THEN 1 ELSE 0
  BY DEF Alike
<1>. DEFINE f == [i \in 0..Len(s) |-> NumberOf(SubSeq(s, 1, i), V)]
<1>1. Len(s) \in Nat /\ DOMAIN s = 1..Len(s) /\ SubSeq(s, 1, 0) = << >> /\ SubSeq(s, 1, Len(s)) = s
  OBVIOUS
<1>2. f[0] = 0 /\ f[Len(ss)] = NumberOf(s, V)
  <2>1. 0 \in 0..Len(s) /\ Len(s) \in 0..Len(s)
    BY <1>1
  <2>2. f[0] = NumberOf(SubSeq(s, 1, 0), V) /\ f[Len(s)] = NumberOf(SubSeq(s, 1, Len(s)), V)
    BY <2>1
  <2>3. NumberOf(<< >>, V) = 0
    BY NumberSmall
  <2>. HIDE DEF f
  <2>. QED BY <1>1, <2>2, <2>3
<1>3. ASSUME NEW i \in 1..Len(ss) PROVE f[i] = f[i - 1] + NumberOf(ss[i], U)
  <2>1. i \in 0..Len(s) /\ i - 1 \in 0..Len(s) /\ s[i] \in T /\ i \in DOMAIN s
    BY <1>1
  <2>2. PICK p : p = SubSeq(s, 1, i - 1)
    OBVIOUS
  <2>3. PICK q : q = SubSeq(s, 1, i)
    OBVIOUS
  <2>4. /\ p \in Seq(T) /\ q \in Seq(T) /\ Len(p) = i - 1 /\ Len(q) = i
        /\ \A k \in 1..(i - 1) : p[k] = s[k]
        /\ \A k \in 1..i : q[k] = s[k]
    BY <1>1, <2>2, <2>3
  <2>5. Append(p, s[i]) = q
    <3>1. /\ Append(p, s[i]) \in Seq(T) /\ Len(Append(p, s[i])) = i
          /\ \A k \in 1..i : Append(p, s[i])[k] = s[k]
      BY <2>1, <2>4
    <3>. QED BY <2>4, <3>1, SeqEqual
  <2>6. NumberOf(q, V) = NumberOf(p, V) + IF s[i] \in V THEN 1 ELSE 0
    <3>1. p \in Seq(T) /\ s[i] \in T
      BY <2>1, <2>4
    <3>2. \A e \in T : NumberOf(Append(p, e), V) = NumberOf(p, V) + IF e \in V THEN 1 ELSE 0
      BY <3>1, NumberAppend
    <3>3. NumberOf(Append(p, s[i]), V) = NumberOf(p, V) + IF s[i] \in V THEN 1 ELSE 0
      BY <3>1, <3>2, Zenon
    <3>. QED BY <2>5, <3>3, Zenon
  <2>7. f[i] = NumberOf(q, V) /\ f[i - 1] = NumberOf(p, V)
    BY <2>1, <2>2, <2>3
  <2>8. NumberOf(ss[i], U) = IF s[i] \in V THEN 1 ELSE 0
    BY <2>1
  <2>. HIDE DEF f
  <2>. QED BY <2>6, <2>7, <2>8
<1>. HIDE DEF f
<1>4. FlattenSeq(ss) \in Seq(S) /\ NumberOf(FlattenSeq(ss), U) = f[Len(ss)]
  <2>1. f[0] = 0
    BY <1>2
  <2>. QED BY <1>3, <2>1, FlattenCount
<1>. QED BY <1>2, <1>4

\* LEMMA: sequences none of which holds what is counted.
LEMMA FlattenNone ==
    ASSUME NEW S, NEW ss \in Seq(Seq(S)), NEW U, \A i \in DOMAIN ss : NumberOf(ss[i], U) = 0
    PROVE  FlattenSeq(ss) \in Seq(S) /\ NumberOf(FlattenSeq(ss), U) = 0
<1>1. 0 \notin DOMAIN ss
  OBVIOUS
<1>. QED BY <1>1, FlattenOne

\* LEMMA: what there is one of is at one position.
LEMMA NumberOne ==
    ASSUME NEW S, NEW s \in Seq(S), NEW U, NumberOf(s, U) = 1
    PROVE  \E j \in DOMAIN s : \A k \in DOMAIN s : s[k] \in U <=> k = j
<1>1. IsFiniteSet(Positions(s, U)) /\ Cardinality(Positions(s, U)) = 1
  BY PositionsCount DEF NumberOf
<1>2. PICK j : Positions(s, U) = {j}
  BY <1>1, FS_Singleton
<1>3. j \in DOMAIN s /\ \A k \in DOMAIN s : s[k] \in U <=> k = j
  BY <1>2, Zenon DEF Positions
<1>. QED BY <1>3, Zenon

\* LEMMA: what two sequences hold, their concatenation holds.
LEMMA ConcatAll ==
    ASSUME NEW S, NEW s \in Seq(S), NEW t \in Seq(S), NEW G,
           \A i \in DOMAIN s : s[i] \in G, \A i \in DOMAIN t : t[i] \in G
    PROVE  s \o t \in Seq(S) /\ \A i \in DOMAIN (s \o t) : (s \o t)[i] \in G
<1>1. /\ DOMAIN s = 1..Len(s) /\ DOMAIN t = 1..Len(t) /\ Len(s) \in Nat /\ Len(t) \in Nat
      /\ DOMAIN (s \o t) = 1..(Len(s) + Len(t)) /\ s \o t \in Seq(S)
      /\ \A i \in 1..(Len(s) + Len(t)) : (s \o t)[i] = IF i <= Len(s) THEN s[i] ELSE t[i - Len(s)]
  OBVIOUS
<1>2. ASSUME NEW i \in 1..(Len(s) + Len(t)) PROVE (s \o t)[i] \in G
  <2>1. CASE i <= Len(s)
    BY <1>1, <2>1
  <2>2. CASE ~(i <= Len(s))
    <3>1. i - Len(s) \in 1..Len(t)
      BY <1>1, <2>2
    <3>. QED BY <1>1, <2>2, <3>1
  <2>. QED BY <2>1, <2>2
<1>. QED BY <1>1, <1>2

--------------------------------------------------------------------------------
(* Flattening the prefixes of a sequence of sequences                      *)

\* LEMMA: each prefix flattens to what the one before it does and the next
\* sequence.
LEMMA FlattenPrefix ==
    ASSUME NEW S, NEW ss \in Seq(Seq(S))
    PROVE  /\ FlattenSeq(SubSeq(ss, 1, 0)) = << >>
           /\ FlattenSeq(SubSeq(ss, 1, Len(ss))) = FlattenSeq(ss)
           /\ \A m \in 0..Len(ss) : FlattenSeq(SubSeq(ss, 1, m)) \in Seq(S)
           /\ \A m \in 1..Len(ss) :
                 FlattenSeq(SubSeq(ss, 1, m)) = FlattenSeq(SubSeq(ss, 1, m - 1)) \o ss[m]
<1>1. Len(ss) \in Nat /\ \A i \in 1..Len(ss) : ss[i] \in Seq(S)
  OBVIOUS
<1>2. FlattenSeq(<< >>) = << >>
  BY DEF FlattenSeq
<1>3. SubSeq(ss, 1, 0) = << >> /\ SubSeq(ss, 1, Len(ss)) = ss
  OBVIOUS
<1>4. ASSUME NEW m \in 0..Len(ss)
      PROVE  /\ SubSeq(ss, 1, m) \in Seq(Seq(S)) /\ Len(SubSeq(ss, 1, m)) = m
             /\ \A i \in 1..m : SubSeq(ss, 1, m)[i] = ss[i]
  BY <1>1
<1>5. ASSUME NEW m \in 1..Len(ss)
      PROVE  FlattenSeq(SubSeq(ss, 1, m)) = FlattenSeq(SubSeq(ss, 1, m - 1)) \o ss[m]
  <2>. DEFINE p == SubSeq(ss, 1, m - 1)
              q == SubSeq(ss, 1, m)
  <2>1. m \in Nat /\ m # 0 /\ m \in 0..Len(ss) /\ m - 1 \in 0..Len(ss)
    BY <1>1
  <2>2. /\ Len(p) = m - 1 /\ \A i \in 1..(m - 1) : p[i] = ss[i]
        /\ Len(q) = m /\ \A i \in 1..m : q[i] = ss[i]
    BY <1>4, <2>1
  <2>. HIDE DEF p, q
  <2>3. PICK h : /\ \A i \in 1..m : h[i] = IF i = 1 THEN q[i] ELSE h[i - 1] \o q[i]
                 /\ FlattenSeq(q) = h[m]
    BY <2>1, <2>2, Flattened
  <2>4. h[m] = IF m = 1 THEN ss[m] ELSE h[m - 1] \o ss[m]
    BY <2>1, <2>2, <2>3
  <2>5. CASE m = 1
    <3>1. p = << >>
      BY <1>3, <2>5 DEF p
    <3>2. << >> \o ss[m] = ss[m]
      BY <1>1
    <3>. QED BY <1>2, <2>3, <2>4, <2>5, <3>1, <3>2 DEF q, p
  <2>6. CASE m # 1
    <3>0. m - 1 \in Nat /\ m - 1 # 0
      BY <2>1, <2>6
    <3>1. PICK g : /\ \A i \in 1..(m - 1) : g[i] = IF i = 1 THEN p[i] ELSE g[i - 1] \o p[i]
                   /\ FlattenSeq(p) = g[m - 1]
      <4>1. PICK u : u = m - 1
        OBVIOUS
      <4>2. u \in Nat /\ u # 0 /\ Len(p) = u
        BY <2>2, <3>0, <4>1
      <4>3. PICK g : /\ \A i \in 1..u : g[i] = IF i = 1 THEN p[i] ELSE g[i - 1] \o p[i]
                     /\ FlattenSeq(p) = g[u]
        BY <4>2, Flattened
      <4>. QED BY <4>1, <4>3
    <3>. DEFINE T == {i \in Nat : i \in 1..(m - 1) => g[i] = h[i]}
    <3>2. 0 \in T
      OBVIOUS
    <3>3. ASSUME NEW i \in Nat, i \in T PROVE i + 1 \in T
      <4>1. SUFFICES ASSUME i + 1 \in 1..(m - 1) PROVE g[i + 1] = h[i + 1]
        OBVIOUS
      <4>2. i + 1 \in 1..m /\ p[i + 1] = q[i + 1]
        <5>1. i + 1 \in 1..m
          BY <2>1, <4>1
        <5>. QED BY <2>2, <4>1, <5>1
      <4>3. CASE i = 0
        <5>1. i + 1 = 1
          BY <4>3
        <5>. QED BY <2>3, <3>1, <4>1, <4>2, <5>1
      <4>4. CASE i # 0
        <5>1. i \in 1..(m - 1) /\ i + 1 # 1 /\ (i + 1) - 1 = i
          BY <3>0, <4>1, <4>4
        <5>2. g[i] = h[i]
          BY <3>3, <5>1
        <5>. QED BY <2>3, <3>1, <4>1, <4>2, <5>1, <5>2
      <4>. QED BY <4>3, <4>4
    <3>4. Nat \subseteq T
      <4>. HIDE DEF T
      <4>. QED BY <3>2, <3>3, Induction
    <3>5. g[m - 1] = h[m - 1]
      BY <3>0, <3>4
    <3>. QED BY <2>3, <2>4, <2>6, <3>1, <3>5 DEF p, q
  <2>. QED BY <2>5, <2>6
<1>6. ASSUME NEW m \in 0..Len(ss) PROVE FlattenSeq(SubSeq(ss, 1, m)) \in Seq(S)
  <2>. DEFINE T == {k \in Nat : k \in 0..Len(ss) => FlattenSeq(SubSeq(ss, 1, k)) \in Seq(S)}
  <2>1. 0 \in T
    <3>1. FlattenSeq(SubSeq(ss, 1, 0)) = << >>
      BY <1>2, <1>3
    <3>2. << >> \in Seq(S)
      OBVIOUS
    <3>3. FlattenSeq(SubSeq(ss, 1, 0)) \in Seq(S)
      BY <3>1, <3>2
    <3>. QED BY <3>3
  <2>2. ASSUME NEW k \in Nat, k \in T PROVE k + 1 \in T
    <3>1. SUFFICES ASSUME k + 1 \in 0..Len(ss)
                   PROVE  FlattenSeq(SubSeq(ss, 1, k + 1)) \in Seq(S)
      OBVIOUS
    <3>2. k \in 0..Len(ss) /\ k + 1 \in 1..Len(ss) /\ (k + 1) - 1 = k
      BY <1>1, <3>1
    <3>3. FlattenSeq(SubSeq(ss, 1, k)) \in Seq(S)
      BY <2>2, <3>2
    <3>4. FlattenSeq(SubSeq(ss, 1, k + 1)) = FlattenSeq(SubSeq(ss, 1, k)) \o ss[k + 1]
      BY <1>5, <3>2
    <3>5. ss[k + 1] \in Seq(S)
      BY <1>1, <3>2
    <3>6. \A a, b \in Seq(S) : a \o b \in Seq(S)
      OBVIOUS
    <3>7. FlattenSeq(SubSeq(ss, 1, k)) \o ss[k + 1] \in Seq(S)
      BY <3>3, <3>5, <3>6
    <3>. QED BY <3>4, <3>7
  <2>3. Nat \subseteq T
    <3>. HIDE DEF T
    <3>. QED BY <2>1, <2>2, Induction
  <2>. QED BY <1>1, <2>3
<1>. QED BY <1>2, <1>3, <1>5, <1>6

\* LEMMA: where element k of sequence i is in the flat one.
LEMMA FlattenAt ==
    ASSUME NEW S, NEW ss \in Seq(Seq(S)), NEW i \in DOMAIN ss, NEW k \in DOMAIN ss[i]
    PROVE  LET a == Len(FlattenSeq(SubSeq(ss, 1, i - 1)))
           IN  /\ a \in Nat /\ k \in Nat /\ k >= 1
               /\ a + k \in DOMAIN FlattenSeq(ss) /\ FlattenSeq(ss)[a + k] = ss[i][k]
               /\ a + k <= Len(FlattenSeq(SubSeq(ss, 1, i)))
<1>1. PICK F : F = [m \in 0..Len(ss) |-> FlattenSeq(SubSeq(ss, 1, m))]
  OBVIOUS
<1>2. /\ F[Len(ss)] = FlattenSeq(ss)
      /\ \A m \in 0..Len(ss) : F[m] \in Seq(S) /\ F[m] = FlattenSeq(SubSeq(ss, 1, m))
      /\ \A m \in 1..Len(ss) : F[m] = F[m - 1] \o ss[m]
  <2>1. Len(ss) \in Nat
    OBVIOUS
  <2>2. \A m \in 0..Len(ss) : F[m] = FlattenSeq(SubSeq(ss, 1, m))
    BY <1>1
  <2>3. /\ FlattenSeq(SubSeq(ss, 1, Len(ss))) = FlattenSeq(ss)
        /\ \A m \in 0..Len(ss) : FlattenSeq(SubSeq(ss, 1, m)) \in Seq(S)
        /\ \A m \in 1..Len(ss) :
              FlattenSeq(SubSeq(ss, 1, m)) = FlattenSeq(SubSeq(ss, 1, m - 1)) \o ss[m]
    BY FlattenPrefix
  <2>4. ASSUME NEW m \in 1..Len(ss) PROVE F[m] = F[m - 1] \o ss[m]
    <3>1. m \in 0..Len(ss) /\ m - 1 \in 0..Len(ss)
      BY <2>1
    <3>. QED BY <2>2, <2>3, <3>1
  <2>5. Len(ss) \in 0..Len(ss)
    BY <2>1
  <2>. QED BY <2>2, <2>3, <2>4, <2>5
<1>3. /\ Len(ss) \in Nat /\ i \in 1..Len(ss) /\ i - 1 \in 0..Len(ss) /\ i \in 0..Len(ss)
      /\ \A m \in 1..Len(ss) : ss[m] \in Seq(S)
  OBVIOUS
<1>4. ss[i] \in Seq(S) /\ k \in 1..Len(ss[i]) /\ F[i - 1] \in Seq(S)
  BY <1>2, <1>3
<1>. DEFINE a == Len(F[i - 1])
            T == {m \in Nat : m \in i..Len(ss) => a + k \in 1..Len(F[m]) /\ F[m][a + k] = ss[i][k]}
<1>5. a \in Nat /\ k \in Nat /\ k >= 1
  BY <1>4
<1>6. a + k \in 1..Len(F[i]) /\ F[i][a + k] = ss[i][k]
  <2>1. F[i] = F[i - 1] \o ss[i]
    BY <1>2, <1>3
  <2>. QED BY <1>4, <1>5, <2>1
<1>7. 0 \in T
  BY <1>3
<1>8. ASSUME NEW m \in Nat, m \in T PROVE m + 1 \in T
  <2>1. SUFFICES ASSUME m + 1 \in i..Len(ss)
                 PROVE  a + k \in 1..Len(F[m + 1]) /\ F[m + 1][a + k] = ss[i][k]
    OBVIOUS
  <2>2. CASE m + 1 = i
    BY <1>6, <2>2
  <2>3. CASE m + 1 # i
    <3>1. /\ m \in i..Len(ss) /\ m + 1 \in 1..Len(ss) /\ (m + 1) - 1 = m /\ m \in 0..Len(ss)
      BY <1>3, <2>1, <2>3
    <3>2. a + k \in 1..Len(F[m]) /\ F[m][a + k] = ss[i][k]
      BY <1>8, <3>1
    <3>3. F[m + 1] = F[m] \o ss[m + 1] /\ F[m] \in Seq(S) /\ ss[m + 1] \in Seq(S)
      BY <1>2, <1>3, <3>1
    <3>4. \A s, t \in Seq(S), q \in Nat :
             q \in 1..Len(s) => q \in 1..Len(s \o t) /\ (s \o t)[q] = s[q]
      OBVIOUS
    <3>5. a + k \in Nat
      BY <1>5
    <3>. HIDE DEF a
    <3>6. PICK s \in Seq(S), t \in Seq(S) : s = F[m] /\ t = ss[m + 1]
      BY <3>3
    <3>7. a + k \in 1..Len(s) /\ s[a + k] = ss[i][k]
      BY <3>2, <3>6
    <3>8. a + k \in 1..Len(s \o t) /\ (s \o t)[a + k] = ss[i][k]
      BY <3>4, <3>5, <3>7
    <3>. QED BY <3>3, <3>6, <3>8
  <2>. QED BY <2>2, <2>3
<1>9. Nat \subseteq T
  <2>. HIDE DEF T
  <2>. QED BY <1>7, <1>8, Induction
<1>10. a + k \in 1..Len(F[Len(ss)]) /\ F[Len(ss)][a + k] = ss[i][k]
  BY <1>3, <1>9
<1>11. a = Len(FlattenSeq(SubSeq(ss, 1, i - 1))) /\ F[i] = FlattenSeq(SubSeq(ss, 1, i))
  BY <1>2, <1>3
<1>12. FlattenSeq(ss) \in Seq(S)
  BY <1>2, <1>3
<1>13. a + k <= Len(F[i])
  BY <1>6
<1>. HIDE DEF a
<1>. QED BY <1>2, <1>5, <1>10, <1>11, <1>12, <1>13

\* LEMMA: every position of the flat sequence is one of a sequence.
LEMMA FlattenFrom ==
    ASSUME NEW S, NEW ss \in Seq(Seq(S)), NEW at \in DOMAIN FlattenSeq(ss)
    PROVE  \E i \in DOMAIN ss : at \in Len(FlattenSeq(SubSeq(ss, 1, i - 1))) + 1
                                         .. Len(FlattenSeq(SubSeq(ss, 1, i)))
<1>1. PICK f : f = [m \in 0..Len(ss) |-> Len(FlattenSeq(SubSeq(ss, 1, m)))]
  OBVIOUS
<1>2. Len(ss) \in Nat /\ DOMAIN ss = 1..Len(ss)
  OBVIOUS
<1>3. \A m \in 0..Len(ss) : f[m] \in Nat /\ f[m] = Len(FlattenSeq(SubSeq(ss, 1, m)))
  <2>1. \A m \in 0..Len(ss) : FlattenSeq(SubSeq(ss, 1, m)) \in Seq(S)
    BY FlattenPrefix
  <2>2. \A t \in Seq(S) : Len(t) \in Nat
    OBVIOUS
  <2>. QED BY <1>1, <2>1, <2>2
<1>4. f[0] = 0
  <2>1. FlattenSeq(SubSeq(ss, 1, 0)) = << >>
    BY FlattenPrefix
  <2>2. 0 \in 0..Len(ss)
    BY <1>2
  <2>. QED BY <1>3, <2>1, <2>2
<1>5. at \in Nat /\ at >= 1 /\ at <= f[Len(ss)]
  <2>1. FlattenSeq(SubSeq(ss, 1, Len(ss))) = FlattenSeq(ss)
    BY FlattenPrefix
  <2>2. Len(ss) \in 0..Len(ss)
    BY <1>2
  <2>3. FlattenSeq(SubSeq(ss, 1, Len(ss))) \in Seq(S)
    BY <2>2, FlattenPrefix
  <2>4. at \in 1..Len(FlattenSeq(ss))
    BY <2>1, <2>3
  <2>. QED BY <1>3, <2>1, <2>2, <2>4
<1>. DEFINE R == {m \in 0..Len(ss) : at <= f[m]}
<1>6. R \subseteq Nat /\ R # {}
  BY <1>2, <1>5
<1>7. PICK i \in R : \A m \in R : i <= m
  BY <1>6, LeastElement
<1>8. i \in 1..Len(ss) /\ i - 1 \in 0..Len(ss) /\ i - 1 \notin R
  BY <1>2, <1>4, <1>5, <1>7
<1>9. at \in f[i - 1] + 1 .. f[i]
  <2>1. f[i - 1] \in Nat /\ f[i] \in Nat /\ at <= f[i] /\ ~(at <= f[i - 1])
    BY <1>3, <1>7, <1>8
  <2>. QED BY <1>5, <2>1
<1>. QED BY <1>2, <1>3, <1>7, <1>8, <1>9

\* Sequence t is the elements of e at those of the first n positions that are
\* in G, in order; h says where each was.
Keeps(h, t, e, G, n) ==
    /\ \A k \in DOMAIN t : h[k] \in 1..n /\ h[k] \in G /\ t[k] = e[h[k]]
    /\ \A j, k \in DOMAIN t : j < k => h[j] < h[k]
    /\ \A i \in 1..n : i \in G => \E k \in DOMAIN t : h[k] = i

\* LEMMA: keeping the elements at the positions of a set keeps their order.
LEMMA Picked ==
    ASSUME NEW S, NEW n \in Nat, NEW e, NEW G, \A i \in 1..n : i \in G => e[i] \in S,
           NEW ss \in Seq(Seq(S)), Len(ss) = n,
           \A i \in 1..n : ss[i] = IF i \in G THEN <<e[i]>> ELSE << >>
    PROVE  FlattenSeq(ss) \in Seq(S) /\ \E h : Keeps(h, FlattenSeq(ss), e, G, n)
<1>1. ss \in Seq(Seq(S)) /\ Len(ss) = n
  OBVIOUS
<1>2. PICK F : F = [m \in 0..n |-> FlattenSeq(SubSeq(ss, 1, m))]
  OBVIOUS
<1>3. /\ FlattenSeq(SubSeq(ss, 1, 0)) = << >> /\ FlattenSeq(SubSeq(ss, 1, n)) = FlattenSeq(ss)
      /\ \A m \in 0..n : FlattenSeq(SubSeq(ss, 1, m)) \in Seq(S)
      /\ \A m \in 1..n : FlattenSeq(SubSeq(ss, 1, m)) = FlattenSeq(SubSeq(ss, 1, m - 1)) \o ss[m]
  BY <1>1, FlattenPrefix
<1>4. \A m \in 0..n : F[m] = FlattenSeq(SubSeq(ss, 1, m)) /\ F[m] \in Seq(S)
  BY <1>2, <1>3
<1>5. F[0] = << >> /\ F[n] = FlattenSeq(ss)
  BY <1>3, <1>4
<1>6. ASSUME NEW m \in 1..n
      PROVE  F[m - 1] \in Seq(S) /\ F[m] = IF m \in G THEN Append(F[m - 1], e[m]) ELSE F[m - 1]
  <2>1. m \in 0..n /\ m - 1 \in 0..n
    OBVIOUS
  <2>2. F[m] = F[m - 1] \o ss[m] /\ F[m - 1] \in Seq(S)
    BY <1>3, <1>4, <2>1
  <2>3. ss[m] = IF m \in G THEN <<e[m]>> ELSE << >>
    OBVIOUS
  <2>4. CASE m \in G
    <3>1. e[m] \in S
      BY <2>4
    <3>2. PICK u, x : u = F[m - 1] /\ x = e[m]
      OBVIOUS
    <3>3. u \in Seq(S) /\ x \in S /\ F[m] = u \o <<x>>
      BY <2>2, <2>3, <2>4, <3>1, <3>2
    <3>4. u \o <<x>> = Append(u, x)
      BY <3>3, Appended
    <3>. QED BY <2>2, <2>4, <3>2, <3>3, <3>4
  <2>5. CASE m \notin G
    <3>1. PICK u : u = F[m - 1]
      OBVIOUS
    <3>2. u \in Seq(S) /\ F[m] = u \o << >>
      BY <2>2, <2>3, <2>5, <3>1
    <3>3. u \o << >> = u
      BY <3>2
    <3>. QED BY <2>2, <2>5, <3>1, <3>2, <3>3
  <2>. QED BY <2>2, <2>4, <2>5
<1>. DEFINE T == {m \in Nat : m \in 0..n => \E h : Keeps(h, F[m], e, G, m)}
<1>7. 0 \in T
  <2>1. Keeps(<< >>, F[0], e, G, 0)
    BY <1>5 DEF Keeps
  <2>. QED BY <2>1
<1>8. ASSUME NEW m \in Nat, m \in T PROVE m + 1 \in T
  <2>1. SUFFICES ASSUME m + 1 \in 0..n PROVE \E h : Keeps(h, F[m + 1], e, G, m + 1)
    OBVIOUS
  <2>2. m \in 0..n /\ m + 1 \in 1..n /\ (m + 1) - 1 = m
    BY <2>1
  <2>3. PICK h : Keeps(h, F[m], e, G, m)
    BY <1>8, <2>2
  <2>4. F[m] \in Seq(S) /\ F[m + 1] = IF m + 1 \in G THEN Append(F[m], e[m + 1]) ELSE F[m]
    BY <1>6, <2>2
  <2>5. CASE m + 1 \notin G
    <3>1. F[m + 1] = F[m]
      BY <2>4, <2>5
    <3>2. Keeps(h, F[m + 1], e, G, m + 1)
      BY <2>3, <2>5, <3>1 DEF Keeps
    <3>. QED BY <3>2
  <2>6. CASE m + 1 \in G
    <3>. DEFINE l == Len(F[m]) + 1
                g == [k \in 1..l |-> IF k = l THEN m + 1 ELSE h[k]]
    <3>1. e[m + 1] \in S
      BY <2>2, <2>6
    <3>2. /\ DOMAIN F[m + 1] = 1..l /\ l \in Nat /\ DOMAIN F[m] = 1..(l - 1)
          /\ \A k \in 1..(l - 1) : F[m + 1][k] = F[m][k]
          /\ F[m + 1][l] = e[m + 1]
      BY <2>4, <2>6, <3>1
    <3>3. /\ \A k \in 1..(l - 1) : g[k] = h[k]
          /\ l \in 1..l /\ g[l] = m + 1
      BY <3>2
    <3>. HIDE DEF l, g
    <3>4. /\ \A k \in 1..(l - 1) : h[k] \in 1..m /\ h[k] \in G /\ F[m][k] = e[h[k]]
          /\ \A j, k \in 1..(l - 1) : j < k => h[j] < h[k]
          /\ \A i \in 1..m : i \in G => \E k \in 1..(l - 1) : h[k] = i
      BY <2>3, <3>2 DEF Keeps
    <3>5. ASSUME NEW k \in 1..l
          PROVE  g[k] \in 1..(m + 1) /\ g[k] \in G /\ F[m + 1][k] = e[g[k]]
      <4>1. CASE k = l
        BY <2>6, <3>2, <3>3, <4>1
      <4>2. CASE k # l
        <5>1. k \in 1..(l - 1)
          BY <3>2, <4>2
        <5>2. g[k] = h[k]
          BY <3>3, <5>1
        <5>3. h[k] \in 1..m /\ h[k] \in G /\ F[m][k] = e[h[k]]
          BY <3>4, <5>1
        <5>4. F[m + 1][k] = F[m][k]
          BY <3>2, <5>1
        <5>5. h[k] \in 1..(m + 1)
          BY <5>3
        <5>. QED BY <5>2, <5>3, <5>4, <5>5
      <4>. QED BY <4>1, <4>2
    <3>6. ASSUME NEW j \in 1..l, NEW k \in 1..l, j < k PROVE g[j] < g[k]
      <4>1. j \in 1..(l - 1)
        BY <3>2, <3>6
      <4>2. CASE k = l
        <5>1. h[j] \in 1..m /\ g[j] = h[j] /\ g[k] = m + 1
          BY <3>3, <3>4, <4>1, <4>2
        <5>. QED BY <5>1
      <4>3. CASE k # l
        <5>1. k \in 1..(l - 1)
          BY <3>2, <4>3
        <5>. QED BY <3>3, <3>4, <3>6, <4>1, <5>1
      <4>. QED BY <4>2, <4>3
    <3>7. ASSUME NEW i \in 1..(m + 1), i \in G PROVE \E k \in 1..l : g[k] = i
      <4>1. CASE i = m + 1
        BY <3>3, <4>1
      <4>2. CASE i # m + 1
        <5>1. i \in 1..m
          BY <4>2
        <5>2. PICK k \in 1..(l - 1) : h[k] = i
          BY <3>4, <3>7, <5>1
        <5>3. k \in 1..l
          BY <3>2
        <5>. QED BY <3>3, <5>2, <5>3
      <4>. QED BY <4>1, <4>2
    <3>8. Keeps(g, F[m + 1], e, G, m + 1)
      BY <3>2, <3>5, <3>6, <3>7 DEF Keeps
    <3>. QED BY <3>8
  <2>. QED BY <2>5, <2>6
<1>9. Nat \subseteq T
  <2>. HIDE DEF T
  <2>. QED BY <1>7, <1>8, Induction
<1>10. n \in 0..n
  OBVIOUS
<1>11. \E h : Keeps(h, F[n], e, G, n)
  BY <1>9, <1>10
<1>12. FlattenSeq(ss) \in Seq(S)
  BY <1>4, <1>5, <1>10
<1>. QED BY <1>5, <1>11, <1>12

--------------------------------------------------------------------------------
(* Where the members of a flattened sequence come from                     *)

\* Member i of the flattened ss is member f[i] of ss[g[i]]; every member of
\* every part is there, and they keep their order.
Sources(g, f, ss) ==
    /\ \A i \in DOMAIN FlattenSeq(ss) :
          g[i] \in DOMAIN ss /\ f[i] \in DOMAIN ss[g[i]] /\ FlattenSeq(ss)[i] = ss[g[i]][f[i]]
    /\ \A n \in DOMAIN ss : \A k \in DOMAIN ss[n] :
          \E i \in DOMAIN FlattenSeq(ss) : g[i] = n /\ f[i] = k
    /\ \A i, j \in DOMAIN FlattenSeq(ss) :
          i < j => g[i] < g[j] \/ (g[i] = g[j] /\ f[i] < f[j])

\* LEMMA: a function on 0..n that never decreases from one to the next never
\* decreases at all.
LEMMA Ascending ==
    ASSUME NEW n \in Nat, NEW a, \A m \in 0..n : a[m] \in Nat,
           \A m \in 1..n : a[m - 1] <= a[m]
    PROVE  \A m, k \in 0..n : m <= k => a[m] <= a[k]
<1>. DEFINE S == {d \in Nat : \A m \in 0..n : m + d <= n => a[m] <= a[m + d]}
<1>1. 0 \in S
  <2>1. \A m \in 0..n : m + 0 = m
    OBVIOUS
  <2>. QED BY <2>1
<1>2. ASSUME NEW d \in Nat, d \in S PROVE d + 1 \in S
  <2>1. ASSUME NEW m \in 0..n, m + (d + 1) <= n PROVE a[m] <= a[m + (d + 1)]
    <3>1. m + d \in 0..n /\ m + (d + 1) \in 1..n /\ (m + (d + 1)) - 1 = m + d /\ m + d <= n
      BY <2>1
    <3>2. a[m] <= a[m + d]
      BY <1>2, <3>1
    <3>3. a[m + d] <= a[m + (d + 1)]
      BY <3>1
    <3>4. a[m] \in Nat /\ a[m + d] \in Nat /\ a[m + (d + 1)] \in Nat
      BY <3>1
    <3>. QED BY <3>2, <3>3, <3>4
  <2>. QED BY <2>1
<1>. HIDE DEF S
<1>3. Nat \subseteq S
  BY <1>1, <1>2, Induction
<1>4. ASSUME NEW m \in 0..n, NEW k \in 0..n, m <= k PROVE a[m] <= a[k]
  <2>1. k - m \in Nat /\ m + (k - m) = k /\ k <= n
    BY <1>4
  <2>2. k - m \in S
    BY <1>3, <2>1
  <2>. QED BY <2>1, <2>2 DEF S
<1>. QED BY <1>4

\* LEMMA: a flattened sequence has its sources.
LEMMA FlattenSources ==
    ASSUME NEW S, NEW ss \in Seq(Seq(S))
    PROVE  FlattenSeq(ss) \in Seq(S) /\ \E g, f : Sources(g, f, ss)
<1>1. PICK a : a = [m \in 0..Len(ss) |-> Len(FlattenSeq(SubSeq(ss, 1, m)))]
  OBVIOUS
<1>2. PICK t : t = FlattenSeq(ss)
  OBVIOUS
<1>3. Len(ss) \in Nat /\ DOMAIN ss = 1..Len(ss) /\ \A n \in 1..Len(ss) : ss[n] \in Seq(S)
  OBVIOUS
<1>4. /\ FlattenSeq(SubSeq(ss, 1, 0)) = << >>
      /\ FlattenSeq(SubSeq(ss, 1, Len(ss))) = t
      /\ \A m \in 0..Len(ss) : FlattenSeq(SubSeq(ss, 1, m)) \in Seq(S)
      /\ \A m \in 1..Len(ss) :
            FlattenSeq(SubSeq(ss, 1, m)) = FlattenSeq(SubSeq(ss, 1, m - 1)) \o ss[m]
  BY <1>2, FlattenPrefix
<1>5. t \in Seq(S) /\ Len(t) \in Nat /\ DOMAIN t = 1..Len(t)
  <2>1. Len(ss) \in 0..Len(ss)
    BY <1>3
  <2>2. t \in Seq(S)
    BY <1>4, <2>1
  <2>. QED BY <2>2
<1>6. /\ \A m \in 0..Len(ss) : a[m] \in Nat /\ a[m] = Len(FlattenSeq(SubSeq(ss, 1, m)))
      /\ a[0] = 0 /\ a[Len(ss)] = Len(t)
  <2>1. \A m \in 0..Len(ss) : a[m] = Len(FlattenSeq(SubSeq(ss, 1, m)))
    BY <1>1
  <2>2. \A u \in Seq(S) : Len(u) \in Nat
    OBVIOUS
  <2>3. Len(ss) \in 0..Len(ss) /\ 0 \in 0..Len(ss)
    BY <1>3
  <2>4. \A m \in 0..Len(ss) : a[m] \in Nat
    BY <1>4, <2>1, <2>2
  <2>5. a[Len(ss)] = Len(t)
    BY <1>4, <2>1, <2>3
  <2>6. a[0] = 0
    BY <1>4, <2>1, <2>3
  <2>. QED BY <2>1, <2>4, <2>5, <2>6
<1>7. ASSUME NEW m \in 1..Len(ss)
      PROVE  /\ a[m] = a[m - 1] + Len(ss[m]) /\ Len(ss[m]) \in Nat /\ DOMAIN ss[m] = 1..Len(ss[m])
             /\ m \in 0..Len(ss) /\ m - 1 \in 0..Len(ss) /\ m \in Nat
  <2>1. m \in 0..Len(ss) /\ m - 1 \in 0..Len(ss) /\ m \in Nat
    BY <1>3
  <2>2. ss[m] \in Seq(S)
    BY <1>3
  <2>3. FlattenSeq(SubSeq(ss, 1, m)) = FlattenSeq(SubSeq(ss, 1, m - 1)) \o ss[m]
        /\ FlattenSeq(SubSeq(ss, 1, m - 1)) \in Seq(S)
    BY <1>4, <2>1
  <2>4. a[m] = Len(FlattenSeq(SubSeq(ss, 1, m))) /\ a[m - 1] = Len(FlattenSeq(SubSeq(ss, 1, m - 1)))
    BY <1>6, <2>1
  <2>5. \A u, v \in Seq(S) : Len(u \o v) = Len(u) + Len(v)
    OBVIOUS
  <2>6. a[m] = a[m - 1] + Len(ss[m])
    BY <2>2, <2>3, <2>4, <2>5
  <2>. QED BY <2>1, <2>2, <2>6
<1>8. \A m, k \in 0..Len(ss) : m <= k => a[m] <= a[k]
  <2>1. \A m \in 0..Len(ss) : a[m] \in Nat
    BY <1>6
  <2>2. ASSUME NEW m \in 1..Len(ss) PROVE a[m - 1] <= a[m]
    <3>1. a[m] = a[m - 1] + Len(ss[m]) /\ Len(ss[m]) \in Nat /\ a[m - 1] \in Nat
      BY <1>6, <1>7
    <3>. QED BY <3>1
  <2>3. Len(ss) \in Nat
    BY <1>3
  <2>. QED BY <2>1, <2>2, <2>3, Ascending
<1>. DEFINE In(i, n) == a[n - 1] < i /\ i <= a[n]
<1>9. ASSUME NEW i \in DOMAIN t PROVE \E n \in 1..Len(ss) : In(i, n)
  <2>1. i \in DOMAIN FlattenSeq(ss)
    BY <1>2
  <2>2. PICK n \in DOMAIN ss : i \in Len(FlattenSeq(SubSeq(ss, 1, n - 1))) + 1
                                       .. Len(FlattenSeq(SubSeq(ss, 1, n)))
    BY <2>1, FlattenFrom
  <2>3. n \in 1..Len(ss) /\ n \in 0..Len(ss) /\ n - 1 \in 0..Len(ss)
    BY <1>3, <1>7
  <2>4. a[n] = Len(FlattenSeq(SubSeq(ss, 1, n))) /\ a[n - 1] = Len(FlattenSeq(SubSeq(ss, 1, n - 1)))
        /\ a[n] \in Nat /\ a[n - 1] \in Nat
    BY <1>6, <2>3
  <2>5. i \in (a[n - 1] + 1)..a[n]
    BY <2>2, <2>4
  <2>6. a[n - 1] < i /\ i <= a[n]
    <3>1. PICK p, q : p = a[n - 1] /\ q = a[n]
      OBVIOUS
    <3>2. p \in Nat /\ q \in Nat /\ i \in (p + 1)..q
      BY <2>4, <2>5, <3>1
    <3>3. p < i /\ i <= q
      BY <3>2
    <3>. QED BY <3>1, <3>3
  <2>. QED BY <2>3, <2>6
<1>10. ASSUME NEW i \in Nat, NEW j \in Nat, NEW n \in 1..Len(ss), NEW m \in 1..Len(ss),
              In(i, n), In(j, m), i <= j
       PROVE  n <= m
  <2>1. SUFFICES ASSUME m < n PROVE FALSE
    BY <1>7
  <2>2. m \in 0..Len(ss) /\ n - 1 \in 0..Len(ss) /\ m \in Nat /\ n \in Nat
    BY <1>7
  <2>3. m <= n - 1
    BY <2>1, <2>2
  <2>4. a[m] <= a[n - 1] /\ a[m] \in Nat /\ a[n - 1] \in Nat
    BY <1>6, <1>8, <2>2, <2>3
  <2>5. a[n - 1] < i /\ j <= a[m]
    BY <1>10
  <2>. QED BY <1>10, <2>4, <2>5
<1>. HIDE DEF In
<1>11. PICK g : g = [i \in DOMAIN t |-> CHOOSE n \in 1..Len(ss) : In(i, n)]
  OBVIOUS
<1>12. PICK f : f = [i \in DOMAIN t |-> i - a[g[i] - 1]]
  OBVIOUS
<1>13. ASSUME NEW i \in DOMAIN t
       PROVE  /\ g[i] \in 1..Len(ss) /\ In(i, g[i]) /\ f[i] = i - a[g[i] - 1]
              /\ i \in Nat
  <2>1. g[i] = CHOOSE n \in 1..Len(ss) : In(i, n)
    BY <1>11
  <2>2. f[i] = i - a[g[i] - 1]
    BY <1>12
  <2>3. i \in Nat
    BY <1>5
  <2>. QED BY <1>9, <2>1, <2>2, <2>3
<1>14. ASSUME NEW i \in DOMAIN t
       PROVE  g[i] \in DOMAIN ss /\ f[i] \in DOMAIN ss[g[i]] /\ t[i] = ss[g[i]][f[i]]
  <2>1. PICK n : n = g[i]
    OBVIOUS
  <2>2. PICK k : k = f[i]
    OBVIOUS
  <2>3. n \in 1..Len(ss) /\ n \in DOMAIN ss /\ In(i, n) /\ k = i - a[n - 1] /\ i \in Nat
    BY <1>3, <1>13, <2>1, <2>2
  <2>4. /\ a[n] = a[n - 1] + Len(ss[n]) /\ Len(ss[n]) \in Nat /\ DOMAIN ss[n] = 1..Len(ss[n])
        /\ a[n - 1] \in Nat /\ a[n - 1] = Len(FlattenSeq(SubSeq(ss, 1, n - 1)))
    BY <1>6, <1>7, <2>3
  <2>5. a[n - 1] < i /\ i <= a[n]
    BY <2>3 DEF In
  <2>6. k \in 1..Len(ss[n]) /\ a[n - 1] + k = i
    <3>1. PICK p, q : p = a[n - 1] /\ q = Len(ss[n])
      OBVIOUS
    <3>2. p \in Nat /\ q \in Nat /\ p < i /\ i <= p + q /\ i \in Nat /\ k = i - p
      BY <2>3, <2>4, <2>5, <3>1
    <3>3. i - p \in 1..q /\ p + (i - p) = i
      <4>1. i - p >= 1 /\ i - p <= q /\ i - p \in Int
        BY <3>2
      <4>. QED BY <3>2, <4>1
    <3>. QED BY <3>1, <3>2, <3>3
  <2>7. k \in DOMAIN ss[n]
    BY <2>4, <2>6
  <2>8. FlattenSeq(ss)[Len(FlattenSeq(SubSeq(ss, 1, n - 1))) + k] = ss[n][k]
    BY <2>3, <2>7, FlattenAt
  <2>9. t[i] = ss[n][k]
    BY <1>2, <2>4, <2>6, <2>8
  <2>. QED BY <2>1, <2>2, <2>3, <2>7, <2>9
<1>15. ASSUME NEW n \in DOMAIN ss, NEW k \in DOMAIN ss[n]
       PROVE  \E i \in DOMAIN t : g[i] = n /\ f[i] = k
  <2>1. n \in 1..Len(ss)
    BY <1>3
  <2>2. /\ a[n] = a[n - 1] + Len(ss[n]) /\ Len(ss[n]) \in Nat /\ k \in 1..Len(ss[n])
        /\ a[n - 1] \in Nat /\ a[n - 1] = Len(FlattenSeq(SubSeq(ss, 1, n - 1)))
    BY <1>6, <1>7, <2>1
  <2>3. PICK i : i = a[n - 1] + k
    OBVIOUS
  <2>4. Len(FlattenSeq(SubSeq(ss, 1, n - 1))) + k \in DOMAIN FlattenSeq(ss)
    BY FlattenAt
  <2>5. i \in DOMAIN t
    BY <1>2, <2>2, <2>3, <2>4
  <2>6. In(i, n) /\ i \in Nat
    BY <2>2, <2>3 DEF In
  <2>7. g[i] \in 1..Len(ss) /\ In(i, g[i]) /\ f[i] = i - a[g[i] - 1]
    BY <1>13, <2>5
  <2>8. g[i] = n
    <3>1. i <= i
      BY <2>6
    <3>2. n <= g[i] /\ g[i] <= n
      BY <1>10, <2>1, <2>6, <2>7, <3>1
    <3>. QED BY <2>1, <2>7, <3>2
  <2>9. f[i] = k
    <3>1. PICK p : p = a[n - 1]
      OBVIOUS
    <3>2. p \in Nat /\ k \in Nat /\ i = p + k /\ f[i] = i - p
      <4>1. p \in Nat /\ k \in Nat
        BY <2>2, <3>1
      <4>2. i = p + k
        BY <2>3, <3>1
      <4>3. f[i] = i - p
        BY <2>7, <2>8, <3>1
      <4>. QED BY <4>1, <4>2, <4>3
    <3>. QED BY <3>2
  <2>. QED BY <2>5, <2>8, <2>9
<1>16. ASSUME NEW i \in DOMAIN t, NEW j \in DOMAIN t, i < j
       PROVE  g[i] < g[j] \/ (g[i] = g[j] /\ f[i] < f[j])
  <2>1. /\ g[i] \in 1..Len(ss) /\ In(i, g[i]) /\ f[i] = i - a[g[i] - 1] /\ i \in Nat
        /\ g[j] \in 1..Len(ss) /\ In(j, g[j]) /\ f[j] = j - a[g[j] - 1] /\ j \in Nat
    BY <1>13
  <2>2. i <= j
    BY <1>16, <2>1
  <2>3. g[i] <= g[j]
    BY <1>10, <2>1, <2>2
  <2>4. CASE g[i] = g[j]
    <3>1. PICK b : b = a[g[i] - 1]
      OBVIOUS
    <3>2. b \in Nat
      BY <1>6, <1>7, <2>1, <3>1
    <3>3. f[i] = i - b /\ f[j] = j - b
      BY <2>1, <2>4, <3>1
    <3>4. f[i] < f[j]
      BY <1>16, <2>1, <3>2, <3>3
    <3>. QED BY <2>4, <3>4
  <2>5. CASE g[i] # g[j]
    BY <2>1, <2>3, <2>5
  <2>. QED BY <2>4, <2>5
<1>17. Sources(g, f, ss)
  BY <1>2, <1>14, <1>15, <1>16 DEF Sources
<1>. QED BY <1>2, <1>5, <1>17
\* g[k] is step k of n, from a member of S to one.
Steps(g, n, S) == \A k \in 1..n : \A s \in S : g[k][s] \in S

\* LEMMA: a recursion on a position, one step at a time, is defined everywhere.
LEMMA StepsDefine ==
    ASSUME NEW S, NEW e \in S, NEW n \in Nat, NEW g, Steps(g, n, S)
    PROVE  \E u \in [0..n -> S] : u[0] = e /\ \A k \in 1..n : u[k] = g[k][u[k - 1]]
<1>. DEFINE Upto(u, m) == u[0] = e /\ \A k \in 1..n : k <= m => u[k] = g[k][u[k - 1]]
            Known == {m \in Nat : \E u \in [0..n -> S] : Upto(u, m)}
<1>0. \A k \in 1..n : \A s \in S : g[k][s] \in S
  BY DEF Steps
<1>1. 0 \in Known
  <2>1. [k \in 0..n |-> e] \in [0..n -> S] /\ Upto([k \in 0..n |-> e], 0)
    OBVIOUS
  <2>. QED BY <2>1
<1>2. ASSUME NEW m \in Nat, m \in Known PROVE m + 1 \in Known
  <2>1. PICK u \in [0..n -> S] : Upto(u, m)
    BY <1>2
  <2>2. CASE m + 1 > n
    <3>1. Upto(u, m + 1)
      BY <2>1, <2>2
    <3>. QED BY <3>1
  <2>3. CASE m + 1 <= n
    <3>. DEFINE w == [k \in 0..n |-> IF k = m + 1 THEN g[m + 1][u[m]] ELSE u[k]]
    <3>1. w \in [0..n -> S]
      <4>1. u[m] \in S /\ m + 1 \in 1..n
        BY <2>3
      <4>. QED BY <1>0, <4>1
    <3>2. w[0] = e
      BY <2>1
    <3>3. ASSUME NEW k \in 1..n, k <= m + 1 PROVE w[k] = g[k][w[k - 1]]
      <4>1. k - 1 \in 0..n /\ k - 1 # m + 1 /\ w[k - 1] = u[k - 1]
        BY <3>3
      <4>2. CASE k = m + 1
        BY <4>1, <4>2
      <4>3. CASE k # m + 1
        BY <2>1, <3>3, <4>1, <4>3
      <4>. QED BY <4>2, <4>3
    <3>. HIDE DEF w
    <3>4. Upto(w, m + 1)
      BY <3>2, <3>3
    <3>. HIDE DEF Upto
    <3>5. \E h \in [0..n -> S] : Upto(h, m + 1)
      BY <3>1, <3>4
    <3>6. m + 1 \in Nat
      OBVIOUS
    <3>. QED BY <3>5, <3>6, Zenon
  <2>4. m + 1 > n \/ m + 1 <= n
    OBVIOUS
  <2>. HIDE DEF Known
  <2>. QED BY <2>2, <2>3, <2>4
<1>3. n \in Known
  <2>. HIDE DEF Known
  <2>. QED BY <1>1, <1>2, Induction
<1>. QED BY <1>3

\* Each of n words leads to one further on, or to none.
Jumps(n, word, next) == DOMAIN word = 1..n /\ \A i \in 1..n : next[i] \in 1..n => i < next[i]

\* Position i of f is word i and, if it leads on, what is at the position it
\* leads to.
Chained(f, n, word, next) ==
    f = [i \in 1..n |-> IF next[i] \in 1..n THEN word[i] \o f[next[i]] ELSE word[i]]

\* LEMMA: a recursion from the end, by jumps ahead, is defined everywhere.
LEMMA JumpsDefine ==
    ASSUME NEW n \in Nat, NEW word, NEW next, Jumps(n, word, next)
    PROVE  \E f : Chained(f, n, word, next)
<1>. DEFINE At(f, i) == f[i] = IF next[i] \in 1..n THEN word[i] \o f[next[i]] ELSE word[i]
            Behind(f, m) == \A i \in 1..n : n - i < m => At(f, i)
            Known == {m \in Nat : \E f : Behind(f, m)}
<1>1. 0 \in Known
  <2>1. ASSUME NEW i \in 1..n PROVE ~(n - i < 0)
    OBVIOUS
  <2>. QED BY <2>1
<1>2. ASSUME NEW m \in Nat, m \in Known PROVE m + 1 \in Known
  <2>1. PICK f : Behind(f, m)
    BY <1>2
  <2>. DEFINE h == [i \in 1..n |-> IF n - i < m THEN f[i]
                                  ELSE IF next[i] \in 1..n THEN word[i] \o f[next[i]] ELSE word[i]]
  <2>2. ASSUME NEW i \in 1..n, n - i < m + 1 PROVE At(h, i)
    <3>1. CASE next[i] \in 1..n
      <4>1. PICK k \in 1..n : k = next[i]
        BY <3>1
      <4>2. i < k
        BY <3>1, <4>1 DEF Jumps
      <4>3. n - k < m
        BY <2>2, <4>2
      <4>4. h[k] = f[k]
        BY <4>3
      <4>5. h[i] = word[i] \o f[k]
        <5>1. CASE n - i < m
          BY <2>1, <3>1, <4>1, <5>1
        <5>2. CASE ~(n - i < m)
          BY <3>1, <4>1, <5>2
        <5>. QED BY <5>1, <5>2
      <4>. QED BY <3>1, <4>1, <4>4, <4>5
    <3>2. CASE next[i] \notin 1..n
      BY <2>1, <3>2
    <3>. QED BY <3>1, <3>2
  <2>. HIDE DEF h, At
  <2>3. \E g : Behind(g, m + 1)
    BY <2>2
  <2>4. m + 1 \in Nat
    OBVIOUS
  <2>. HIDE DEF Behind
  <2>. QED BY <2>3, <2>4, Zenon
<1>3. n + 1 \in Known
  <2>. HIDE DEF Known
  <2>. QED BY <1>1, <1>2, Induction
<1>4. PICK f : Behind(f, n + 1)
  BY <1>3
<1>. DEFINE g == [i \in 1..n |-> f[i]]
<1>5. ASSUME NEW i \in 1..n PROVE At(g, i)
  <2>1. At(f, i)
    BY <1>4
  <2>. QED BY <2>1
<1>6. g = [i \in 1..n |-> g[i]]
  OBVIOUS
<1>. HIDE DEF g
<1>. QED BY <1>5, <1>6 DEF Chained

\* Where each sequence of ss ends in its concatenation t, up to end[i].
Ends(end, t, ss) ==
    /\ end \in [0..Len(ss) -> Nat] /\ end[0] = 0 /\ end[Len(ss)] = Len(t)
    /\ \A i \in 1..Len(ss) : end[i] = end[i - 1] + Len(ss[i])
    /\ \A i \in 1..Len(ss) : \A k \in 1..Len(ss[i]) : t[end[i - 1] + k] = ss[i][k]
    /\ \A x \in 1..Len(t) : \E i \in 1..Len(ss) : x \in end[i - 1] + 1 .. end[i]

\* LEMMA: a concatenation has them.
LEMMA FlattenPlaces ==
    ASSUME NEW S, NEW ss \in Seq(Seq(S))
    PROVE  FlattenSeq(ss) \in Seq(S) /\ \E end : Ends(end, FlattenSeq(ss), ss)
<1>1. PICK t : t = FlattenSeq(ss)
  OBVIOUS
<1>2. PICK n \in Nat : n = Len(ss) /\ DOMAIN ss = 1..n /\ \A i \in 1..n : ss[i] \in Seq(S)
  OBVIOUS
<1>3. PICK F : F = [m \in 0..n |-> FlattenSeq(SubSeq(ss, 1, m))]
  OBVIOUS
<1>4. /\ F[0] = << >> /\ F[n] = t /\ \A m \in 0..n : F[m] \in Seq(S)
      /\ \A m \in 1..n : F[m] = F[m - 1] \o ss[m]
  <2>1. \A m \in 0..n : F[m] = FlattenSeq(SubSeq(ss, 1, m))
    BY <1>3
  <2>2. 0 \in 0..n /\ n \in 0..n /\ \A m \in 1..n : m \in 0..n /\ m - 1 \in 0..n
    OBVIOUS
  <2>. QED BY <1>1, <1>2, <2>1, <2>2, FlattenPrefix
<1>5. PICK end : end = [m \in 0..n |-> Len(F[m])]
  OBVIOUS
<1>6. end \in [0..n -> Nat] /\ end[0] = 0 /\ end[n] = Len(t) /\ t \in Seq(S)
  BY <1>4, <1>5
<1>7. ASSUME NEW i \in 1..n PROVE end[i] = end[i - 1] + Len(ss[i])
  <2>1. i \in 0..n /\ i - 1 \in 0..n
    OBVIOUS
  <2>2. F[i - 1] \in Seq(S) /\ ss[i] \in Seq(S) /\ F[i] = F[i - 1] \o ss[i]
    BY <1>2, <1>4, <2>1
  <2>3. Len(F[i]) = Len(F[i - 1]) + Len(ss[i])
    BY <2>2
  <2>. QED BY <1>5, <2>1, <2>3
<1>8. ASSUME NEW i \in 1..n, NEW k \in 1..Len(ss[i]) PROVE t[end[i - 1] + k] = ss[i][k]
  <2>1. i \in DOMAIN ss /\ k \in DOMAIN ss[i]
    BY <1>2
  <2>2. end[i - 1] = Len(FlattenSeq(SubSeq(ss, 1, i - 1)))
    <3>1. i - 1 \in 0..n
      OBVIOUS
    <3>. QED BY <1>3, <1>5, <3>1
  <2>. QED BY <1>1, <2>1, <2>2, FlattenAt
<1>9. ASSUME NEW x \in 1..Len(t) PROVE \E i \in 1..n : x \in end[i - 1] + 1 .. end[i]
  <2>1. x \in DOMAIN FlattenSeq(ss)
    BY <1>1, <1>6
  <2>2. PICK i \in DOMAIN ss : x \in Len(FlattenSeq(SubSeq(ss, 1, i - 1))) + 1
                                     .. Len(FlattenSeq(SubSeq(ss, 1, i)))
    BY <2>1, FlattenFrom
  <2>3. i \in 1..n /\ i \in 0..n /\ i - 1 \in 0..n
    BY <1>2, <2>2
  <2>4. /\ end[i - 1] = Len(FlattenSeq(SubSeq(ss, 1, i - 1)))
        /\ end[i] = Len(FlattenSeq(SubSeq(ss, 1, i)))
    BY <1>3, <1>5, <2>3
  <2>. QED BY <2>2, <2>3, <2>4
<1>. QED BY <1>1, <1>2, <1>6, <1>7, <1>8, <1>9 DEF Ends
================================================================================
