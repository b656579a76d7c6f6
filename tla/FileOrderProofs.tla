---------------------------- MODULE FileOrderProofs ----------------------------
(***************************************************************************)
(* The order fagenrules merges rules.d/ in, as module FileOrder has it from *)
(* rules_d.rs, is a strict total order on the names, whatever bytes they   *)
(* hold; the merged listing is sorted by it; and the name recommended for  *)
(* a new file sorts ahead of the file it is for.                           *)
(***************************************************************************)
EXTENDS FileOrder, DataLemmas

String == Seq(Nat)

--------------------------------------------------------------------------------
(* Runs of bytes                                                           *)

\* LEMMA: the least member of a set of naturals.
LEMMA SmallestIs ==
    ASSUME NEW S, S \subseteq Nat, S # {}
    PROVE  Smallest(S) \in S /\ \A n \in S : Smallest(S) <= n
BY LeastElement DEF Smallest

\* LEMMA: where a run ends: behind bytes of the set, and ahead of none.
LEMMA PastRunIs ==
    ASSUME NEW s \in String, NEW i \in 1..Len(s) + 1, NEW U
    PROVE  /\ PastRun(s, i, U) \in i..Len(s) + 1
           /\ \A k \in i..PastRun(s, i, U) - 1 : k \in 1..Len(s) /\ s[k] \in U
           /\ PastRun(s, i, U) <= Len(s) => s[PastRun(s, i, U)] \notin U
<1>. DEFINE S == {k \in i..Len(s) + 1 : k > Len(s) \/ s[k] \notin U}
<1>1. Len(s) \in Nat
  BY DEF String
<1>2. S \subseteq Nat /\ Len(s) + 1 \in S
  BY <1>1
<1>3. PICK p : p = Smallest(S)
  OBVIOUS
<1>4. p \in S /\ \A k \in S : p <= k
  BY <1>2, <1>3, SmallestIs
<1>5. ASSUME NEW k \in i..p - 1 PROVE k \in 1..Len(s) /\ s[k] \in U
  BY <1>1, <1>4
<1>. QED BY <1>1, <1>3, <1>4, <1>5 DEF PastRun

\* LEMMA: a part of a byte string.
LEMMA PartIs ==
    ASSUME NEW s \in String, NEW i \in 1..Len(s) + 1, NEW j \in i - 1..Len(s)
    PROVE  /\ SubSeq(s, i, j) \in String /\ Len(SubSeq(s, i, j)) = 1 + j - i
           /\ \A k \in 1..1 + j - i : SubSeq(s, i, j)[k] = s[i + k - 1]
<1>1. \A k \in i..j : s[k] \in Nat
  BY DEF String
<1>. QED BY <1>1, SubSeqProperties DEF String

\* LEMMA: the digits at a place: bytes of the string, the first of them no zero.
LEMMA DigitsIs ==
    ASSUME NEW s \in String, NEW i \in 1..Len(s) + 1
    PROVE  Digits(s, i) \in String
<1>. DEFINE p == PastRun(s, i, {Zero})
            q == PastRun(s, i, Zero..57)
<1>1. p \in i..Len(s) + 1 /\ q \in i..Len(s) + 1 /\ Len(s) \in Nat
  BY PastRunIs DEF String
<1>2. p <= q
  <2>1. CASE q > Len(s)
    BY <1>1, <2>1
  <2>2. CASE q <= Len(s)
    <3>1. s[q] \notin Zero..57 /\ s[q] # Zero
      BY <2>2, PastRunIs DEF Zero
    <3>2. \A k \in i..p - 1 : s[k] \in {Zero}
      BY PastRunIs
    <3>3. ~(q \in i..p - 1)
      BY <3>1, <3>2
    <3>. QED BY <1>1, <3>3
  <2>. QED BY <1>1, <2>1, <2>2
<1>3. p \in 1..Len(s) + 1 /\ q - 1 \in p - 1..Len(s)
  BY <1>1, <1>2
<1>. QED BY <1>3, PartIs DEF Digits

--------------------------------------------------------------------------------
(* Byte order                                                              *)

\* Byte k is the first in which a and b differ, and says a is less.
Decides(a, b, k) ==
    /\ k \in 1..Len(b) /\ k <= Len(a) + 1
    /\ \A m \in 1..k - 1 : a[m] = b[m]
    /\ k <= Len(a) => a[k] < b[k]

\* LEMMA: two sequences are equal when their bytes are.
LEMMA SameBytes ==
    ASSUME NEW a \in String, NEW b \in String, Len(a) = Len(b),
           \A m \in 1..Len(a) : a[m] = b[m]
    PROVE  a = b
BY DEF String

\* LEMMA: byte order has one witness.
LEMMA ByteLessIs ==
    ASSUME NEW a \in String, NEW b \in String
    PROVE  ByteLess(a, b) <=> \E k \in 1..Len(b) : Decides(a, b, k)
<1>0. Len(a) \in Nat /\ Len(b) \in Nat /\ DOMAIN a = 1..Len(a) /\ DOMAIN b = 1..Len(b)
  BY DEF String
<1>1. ASSUME NEW k \in 0..Len(a), k <= Len(b)
      PROVE  SubSeq(a, 1, k) = SubSeq(b, 1, k) <=> \A m \in 1..k : a[m] = b[m]
  <2>1. /\ SubSeq(a, 1, k) \in String /\ Len(SubSeq(a, 1, k)) = k
        /\ \A m \in 1..k : SubSeq(a, 1, k)[m] = a[m]
    BY <1>0, <1>1, PartIs
  <2>2. /\ SubSeq(b, 1, k) \in String /\ Len(SubSeq(b, 1, k)) = k
        /\ \A m \in 1..k : SubSeq(b, 1, k)[m] = b[m]
    BY <1>0, <1>1, PartIs
  <2>. QED BY <2>1, <2>2, SameBytes
<1>2. IsStrictPrefix(a, b) <=> Len(a) < Len(b) /\ \A m \in 1..Len(a) : a[m] = b[m]
  <2>1. IsPrefix(a, b) <=> Len(a) <= Len(b) /\ \A m \in 1..Len(a) : a[m] = b[m]
    BY <1>0, <1>1 DEF IsPrefix
  <2>2. Len(a) = Len(b) /\ (\A m \in 1..Len(a) : a[m] = b[m]) => a = b
    BY SameBytes
  <2>3. a = b => Len(a) = Len(b)
    OBVIOUS
  <2>4. IsStrictPrefix(a, b) <=> IsPrefix(a, b) /\ ~(a = b)
    BY DEF IsStrictPrefix
  <2>. DEFINE Same == \A m \in 1..Len(a) : a[m] = b[m]
              Equal == a = b
  <2>5. Equal <=> Len(a) = Len(b) /\ Same
    BY <2>2, <2>3
  <2>6. IsPrefix(a, b) <=> Len(a) <= Len(b) /\ Same
    BY <2>1
  <2>7. IsStrictPrefix(a, b) <=> IsPrefix(a, b) /\ ~Equal
    BY <2>4
  <2>. HIDE DEF Same, Equal
  <2>8. IsStrictPrefix(a, b) <=> Len(a) < Len(b) /\ Same
    <3>1. \A m, n \in Nat : m < n <=> m <= n /\ ~(m = n)
      OBVIOUS
    <3>2. Len(a) < Len(b) <=> Len(a) <= Len(b) /\ ~(Len(a) = Len(b))
      BY <1>0, <3>1, Zenon
    <3>. QED BY <2>5, <2>6, <2>7, <3>2, Zenon
  <2>. QED BY <2>8 DEF Same
<1>3. ASSUME NEW k \in DOMAIN a \cap DOMAIN b
      PROVE  SubSeq(a, 1, k - 1) = SubSeq(b, 1, k - 1) /\ a[k] < b[k] <=> Decides(a, b, k)
  <2>1. k - 1 \in 0..Len(a) /\ k - 1 <= Len(b)
    BY <1>0
  <2>. QED BY <1>0, <1>1, <2>1 DEF Decides
<1>4. IsStrictPrefix(a, b) <=> Len(a) + 1 \in 1..Len(b) /\ Decides(a, b, Len(a) + 1)
  BY <1>0, <1>2 DEF Decides
<1>5. \A k \in 1..Len(b) : Decides(a, b, k) => k \in DOMAIN a \cap DOMAIN b \/ k = Len(a) + 1
  BY <1>0 DEF Decides
<1>6. ASSUME ByteLess(a, b) PROVE \E k \in 1..Len(b) : Decides(a, b, k)
  BY <1>0, <1>3, <1>4, <1>6 DEF ByteLess
<1>7. ASSUME NEW k \in 1..Len(b), Decides(a, b, k) PROVE ByteLess(a, b)
  <2>1. CASE k = Len(a) + 1
    BY <1>4, <1>7, <2>1 DEF ByteLess
  <2>2. CASE k \in DOMAIN a \cap DOMAIN b
    BY <1>3, <1>7, <2>2 DEF ByteLess
  <2>. QED BY <1>5, <1>7, <2>1, <2>2
<1>. QED BY <1>6, <1>7

\* LEMMA: byte order is a strict total order.
LEMMA ByteOrder ==
    /\ \A a, b \in String : ~(ByteLess(a, b) /\ ByteLess(b, a))
    /\ \A a, b \in String : a = b \/ ByteLess(a, b) \/ ByteLess(b, a)
    /\ \A a, b, c \in String : ByteLess(a, b) /\ ByteLess(b, c) => ByteLess(a, c)
<1>0. \A a \in String : Len(a) \in Nat /\ DOMAIN a = 1..Len(a) /\ \A k \in 1..Len(a) : a[k] \in Nat
  BY DEF String
<1>1. ASSUME NEW a \in String, NEW b \in String, ByteLess(a, b), ByteLess(b, a)
      PROVE  FALSE
  <2>1. PICK k \in 1..Len(b) : Decides(a, b, k)
    BY <1>1, ByteLessIs
  <2>2. PICK l \in 1..Len(a) : Decides(b, a, l)
    BY <1>1, ByteLessIs
  <2>3. CASE k = l
    BY <1>0, <2>1, <2>2, <2>3 DEF Decides
  <2>4. CASE k < l
    BY <1>0, <2>1, <2>2, <2>4 DEF Decides
  <2>5. CASE l < k
    BY <1>0, <2>1, <2>2, <2>5 DEF Decides
  <2>. QED BY <1>0, <2>3, <2>4, <2>5
<1>2. ASSUME NEW a \in String, NEW b \in String, a # b
      PROVE  ByteLess(a, b) \/ ByteLess(b, a)
  <2>. DEFINE D == {k \in 1..Len(a) : k <= Len(b) /\ a[k] # b[k]}
  <2>1. CASE D = {}
    <3>1. Len(a) # Len(b)
      BY <1>0, <1>2, <2>1, SameBytes
    <3>2. CASE Len(a) < Len(b)
      <4>0. \A m \in 1..Len(a) : a[m] = b[m]
        BY <1>0, <2>1, <3>2
      <4>1. Decides(a, b, Len(a) + 1)
        BY <1>0, <3>2, <4>0 DEF Decides
      <4>. QED BY <1>0, <3>2, <4>1, ByteLessIs
    <3>3. CASE Len(b) < Len(a)
      <4>0. \A m \in 1..Len(b) : a[m] = b[m]
        BY <1>0, <2>1, <3>3
      <4>1. Decides(b, a, Len(b) + 1)
        BY <1>0, <3>3, <4>0 DEF Decides
      <4>. QED BY <1>0, <3>3, <4>1, ByteLessIs
    <3>. QED BY <1>0, <3>1, <3>2, <3>3
  <2>2. CASE D # {}
    <3>1. D \subseteq Nat
      BY <1>0
    <3>2. PICK k \in D : \A m \in D : k <= m
      BY <2>2, <3>1, LeastElement
    <3>3. \A m \in 1..k - 1 : a[m] = b[m]
      BY <1>0, <3>2
    <3>4. Decides(a, b, k) \/ Decides(b, a, k)
      BY <1>0, <3>2, <3>3 DEF Decides
    <3>. QED BY <1>0, <3>2, <3>4, ByteLessIs
  <2>. QED BY <2>1, <2>2
<1>3. ASSUME NEW a \in String, NEW b \in String, NEW c \in String, ByteLess(a, b), ByteLess(b, c)
      PROVE  ByteLess(a, c)
  <2>1. PICK k \in 1..Len(b) : Decides(a, b, k)
    BY <1>3, ByteLessIs
  <2>2. PICK l \in 1..Len(c) : Decides(b, c, l)
    BY <1>3, ByteLessIs
  <2>3. CASE k <= l
    <3>1. Decides(a, c, k)
      BY <1>0, <2>1, <2>2, <2>3 DEF Decides
    <3>. QED BY <1>0, <2>1, <2>2, <2>3, <3>1, ByteLessIs DEF Decides
  <2>4. CASE l < k
    <3>1. Decides(a, c, l)
      BY <1>0, <2>1, <2>2, <2>4 DEF Decides
    <3>. QED BY <3>1, ByteLessIs
  <2>. QED BY <1>0, <2>3, <2>4
<1>. QED BY <1>1, <1>2, <1>3

\* Comparing by Cmp(a, b), Cmp(b, c) and Cmp(a, c), the three agree.
Agree(ab, bc, ac) ==
    /\ ab <= 0 /\ bc <= 0 => ac <= 0
    /\ ab <= 0 /\ bc <= 0 /\ ac = 0 => ab = 0 /\ bc = 0
    /\ ab = 0 /\ bc = 0 => ac = 0

\* LEMMA: so does the comparison of two numbers without leading zeros.
LEMMA NumberOrder ==
    /\ \A a, b \in String : /\ ByNumber(a, b) \in {-1, 0, 1} /\ ByNumber(b, a) = -ByNumber(a, b)
                            /\ ByNumber(a, b) = 0 => a = b
    /\ \A a \in String : ByNumber(a, a) = 0
    /\ \A a, b, c \in String : Agree(ByNumber(a, b), ByNumber(b, c), ByNumber(a, c))
<1>1. \A a \in String : Len(a) \in Nat
  BY DEF String
<1>2. ASSUME NEW a \in String, NEW b \in String
      PROVE  /\ ByNumber(a, b) = -1 <=> Len(a) < Len(b) \/ (Len(a) = Len(b) /\ ByteLess(a, b))
             /\ ByNumber(a, b) = 0 <=> a = b
             /\ ByNumber(a, b) = 1 <=> Len(b) < Len(a) \/ (Len(a) = Len(b) /\ ByteLess(b, a))
             /\ ByNumber(a, b) \in {-1, 0, 1}
  <2>1. CASE Len(a) < Len(b)
    <3>1. ByNumber(a, b) = -1 /\ a # b
      BY <1>1, <2>1 DEF ByNumber, Sign
    <3>. QED BY <1>1, <2>1, <3>1
  <2>2. CASE Len(b) < Len(a)
    <3>1. ByNumber(a, b) = 1 /\ a # b
      BY <1>1, <2>2 DEF ByNumber, Sign
    <3>. QED BY <1>1, <2>2, <3>1
  <2>3. CASE Len(a) = Len(b)
    <3>1. ~(Len(a) < Len(b)) /\ ~(Len(b) < Len(a))
      BY <1>1, <2>3
    <3>2. CASE a = b
      <4>1. ByNumber(a, b) = 0
        BY <3>2 DEF ByNumber
      <4>2. ~ByteLess(a, b) /\ ~ByteLess(b, a)
        BY <3>2, ByteOrder
      <4>. QED BY <3>1, <3>2, <4>1, <4>2
    <3>3. CASE a # b /\ ByteLess(a, b)
      <4>1. ByNumber(a, b) = -1
        BY <2>3, <3>3 DEF ByNumber
      <4>2. ~ByteLess(b, a)
        BY <3>3, ByteOrder
      <4>. QED BY <2>3, <3>1, <3>3, <4>1, <4>2
    <3>4. CASE a # b /\ ~ByteLess(a, b)
      <4>1. ByNumber(a, b) = 1
        BY <2>3, <3>4 DEF ByNumber
      <4>2. ByteLess(b, a)
        BY <3>4, ByteOrder
      <4>. QED BY <2>3, <3>1, <3>4, <4>1, <4>2
    <3>. QED BY <3>2, <3>3, <3>4
  <2>. QED BY <1>1, <2>1, <2>2, <2>3
<1>3. ASSUME NEW a \in String, NEW b \in String
      PROVE  /\ ByNumber(a, b) \in {-1, 0, 1} /\ ByNumber(b, a) = -ByNumber(a, b)
             /\ ByNumber(a, b) = 0 => a = b
  BY <1>1, <1>2
<1>4. ASSUME NEW a \in String, NEW b \in String, NEW c \in String
      PROVE  Agree(ByNumber(a, b), ByNumber(b, c), ByNumber(a, c))
  <2>. DEFINE Lt(x, y) == Len(x) < Len(y) \/ (Len(x) = Len(y) /\ ByteLess(x, y))
  <2>1. Lt(a, b) /\ Lt(b, c) => Lt(a, c)
    BY <1>1, ByteOrder
  <2>2. /\ ByNumber(a, b) = -1 <=> Lt(a, b)
        /\ ByNumber(b, c) = -1 <=> Lt(b, c)
        /\ ByNumber(a, c) = -1 <=> Lt(a, c)
    BY <1>2
  <2>. HIDE DEF Lt
  <2>3. /\ ByNumber(a, b) <= 0 <=> Lt(a, b) \/ a = b
        /\ ByNumber(b, c) <= 0 <=> Lt(b, c) \/ b = c
        /\ ByNumber(a, c) <= 0 <=> Lt(a, c) \/ a = c
    BY <1>2, <2>2
  <2>4. /\ ~(Lt(a, b) /\ a = b) /\ ~(Lt(b, c) /\ b = c) /\ ~(Lt(a, c) /\ a = c)
        /\ ByNumber(a, b) = 0 <=> a = b
        /\ ByNumber(b, c) = 0 <=> b = c
        /\ ByNumber(a, c) = 0 <=> a = c
    BY <1>2, <2>2
  <2>. QED BY <2>1, <2>3, <2>4 DEF Agree
<1>. QED BY <1>2, <1>3, <1>4

--------------------------------------------------------------------------------
(* verrevcmp                                                               *)

\* The places the two cursors can stand at, and what is left of the names.
Places(s, t) == (1..Len(s) + 1) \X (1..Len(t) + 1)
Left(s, t, at) == (Len(s) + 1 - at[1]) + (Len(t) + 1 - at[2])

OnNumbers(s, t, at) == {Order(s, at[1]), Order(t, at[2])} \subseteq {DigitRank, EndRank}
PastNumbers(s, t, at) == <<PastRun(s, at[1], Zero..57), PastRun(t, at[2], Zero..57)>>

\* One pass of the loop, c being the result from each later place.
Compared(s, t, at, c) ==
    IF OnNumbers(s, t, at)
    THEN IF Digits(s, at[1]) # Digits(t, at[2]) THEN ByNumber(Digits(s, at[1]), Digits(t, at[2]))
         ELSE IF PastNumbers(s, t, at) = at THEN 0 ELSE c[PastNumbers(s, t, at)]
    ELSE IF Order(s, at[1]) # Order(t, at[2]) THEN Sign(Order(s, at[1]), Order(t, at[2]))
    ELSE c[<<at[1] + 1, at[2] + 1>>]

\* LEMMA: the classes of a byte: only the end of the name has the end's, and
\* the class of a byte that is no digit tells the byte.
LEMMA OrderIs ==
    ASSUME NEW s \in String, NEW i \in 1..Len(s) + 1
    PROVE  /\ Order(s, i) \in Nat /\ Len(s) \in Nat
           /\ Order(s, i) = EndRank <=> i = Len(s) + 1
           /\ Order(s, i) = DigitRank <=> i <= Len(s) /\ s[i] \in Zero..57
<1>1. Len(s) \in Nat /\ (i <= Len(s) => s[i] \in Nat)
  BY DEF String
<1>2. CASE i > Len(s)
  BY <1>1, <1>2 DEF Order, EndRank, DigitRank
<1>3. CASE i <= Len(s)
  <2>1. CASE s[i] = Tilde
    BY <1>1, <1>3, <2>1 DEF Order, EndRank, DigitRank, Tilde, Zero
  <2>2. CASE s[i] # Tilde /\ IsDigit(s[i])
    BY <1>1, <1>3, <2>2 DEF Order, EndRank, DigitRank, IsDigit
  <2>3. CASE s[i] # Tilde /\ ~IsDigit(s[i])
    <3>1. Order(s, i) = s[i] + 256 \/ Order(s, i) = s[i] + 512
      BY <1>1, <1>3, <2>3 DEF Order
    <3>. QED BY <1>1, <1>3, <2>3, <3>1 DEF EndRank, DigitRank, IsDigit
  <2>. QED BY <2>1, <2>2, <2>3
<1>. QED BY <1>1, <1>2, <1>3

\* LEMMA: every pass but the last leaves less of the names.
LEMMA PassShortens ==
    ASSUME NEW s \in String, NEW t \in String, NEW at \in Places(s, t)
    PROVE  /\ Left(s, t, at) \in Nat
           /\ PastNumbers(s, t, at) \in Places(s, t)
           /\ PastNumbers(s, t, at) # at => Left(s, t, PastNumbers(s, t, at)) < Left(s, t, at)
           /\ ~OnNumbers(s, t, at) /\ Order(s, at[1]) = Order(t, at[2]) =>
                 /\ <<at[1] + 1, at[2] + 1>> \in Places(s, t)
                 /\ Left(s, t, <<at[1] + 1, at[2] + 1>>) < Left(s, t, at)
<1>1. PICK i \in 1..Len(s) + 1, j \in 1..Len(t) + 1 : at = <<i, j>>
  BY DEF Places
<1>2. Len(s) \in Nat /\ Len(t) \in Nat /\ at[1] = i /\ at[2] = j
  BY <1>1 DEF String
<1>3. PICK p, q : p = PastRun(s, i, Zero..57) /\ q = PastRun(t, j, Zero..57)
  OBVIOUS
<1>4. p \in i..Len(s) + 1 /\ q \in j..Len(t) + 1
  BY <1>3, PastRunIs
<1>5. PastNumbers(s, t, at) = <<p, q>>
  BY <1>2, <1>3 DEF PastNumbers
<1>6. Left(s, t, at) = (Len(s) + 1 - i) + (Len(t) + 1 - j)
  BY <1>2 DEF Left
<1>7. Left(s, t, at) \in Nat
  BY <1>2, <1>6
<1>8. <<p, q>> \in Places(s, t)
  BY <1>2, <1>4 DEF Places
<1>9. ASSUME <<p, q>> # at
      PROVE  Left(s, t, <<p, q>>) < Left(s, t, at)
  <2>1. p # i \/ q # j
    BY <1>1, <1>9
  <2>2. Left(s, t, <<p, q>>) = (Len(s) + 1 - p) + (Len(t) + 1 - q)
    BY DEF Left
  <2>. QED BY <1>2, <1>4, <1>6, <2>1, <2>2
<1>10. ASSUME ~OnNumbers(s, t, at), Order(s, at[1]) = Order(t, at[2])
       PROVE  /\ <<i + 1, j + 1>> \in Places(s, t)
              /\ Left(s, t, <<i + 1, j + 1>>) < Left(s, t, at)
  <2>1. Order(s, i) # EndRank /\ Order(t, j) # EndRank
    BY <1>2, <1>10 DEF OnNumbers
  <2>2. i <= Len(s) /\ j <= Len(t)
    BY <1>2, <2>1, OrderIs
  <2>3. Left(s, t, <<i + 1, j + 1>>) = (Len(s) + 1 - (i + 1)) + (Len(t) + 1 - (j + 1))
    BY DEF Left
  <2>. QED BY <1>2, <1>6, <2>2, <2>3 DEF Places
<1>. QED BY <1>2, <1>5, <1>7, <1>8, <1>9, <1>10

\* LEMMA: a pass looks at later places only.
LEMMA LooksAhead ==
    ASSUME NEW s \in String, NEW t \in String, NEW at \in Places(s, t), NEW c, NEW d,
           \A q \in Places(s, t) : Left(s, t, q) < Left(s, t, at) => c[q] = d[q]
    PROVE  Compared(s, t, at, c) = Compared(s, t, at, d)
<1>1. CASE OnNumbers(s, t, at)
  <2>1. PastNumbers(s, t, at) # at => c[PastNumbers(s, t, at)] = d[PastNumbers(s, t, at)]
    BY PassShortens
  <2>. QED BY <1>1, <2>1 DEF Compared
<1>2. CASE ~OnNumbers(s, t, at)
  <2>1. Order(s, at[1]) = Order(t, at[2]) =>
           c[<<at[1] + 1, at[2] + 1>>] = d[<<at[1] + 1, at[2] + 1>>]
    BY <1>2, PassShortens
  <2>. QED BY <1>2, <2>1 DEF Compared
<1>. QED BY <1>1, <1>2

\* The function c has the result from every place.
Compares(s, t, c) == \A at \in Places(s, t) : c[at] = Compared(s, t, at, c)

\* LEMMA: the loop ends: its recursion defines the result from every place.
LEMMA VerrevcmpIs ==
    ASSUME NEW s \in String, NEW t \in String
    PROVE  \E c : Compares(s, t, c) /\ Verrevcmp(s, t) = c[<<1, 1>>]
<1>. DEFINE Knows(c, m) == \A at \in Places(s, t) :
                              Left(s, t, at) < m => c[at] = Compared(s, t, at, c)
            Known == {m \in Nat : \E c : Knows(c, m)}
<1>1. \A at \in Places(s, t) : Left(s, t, at) \in Nat
  BY PassShortens
<1>2. 0 \in Known
  <2>1. \A c : Knows(c, 0)
    BY <1>1
  <2>. QED BY <2>1
<1>3. ASSUME NEW m \in Nat, m \in Known PROVE m + 1 \in Known
  <2>1. PICK c : Knows(c, m)
    BY <1>3
  <2>2. PICK d : d = [at \in Places(s, t) |->
                        IF Left(s, t, at) < m THEN c[at] ELSE Compared(s, t, at, c)]
    OBVIOUS
  <2>3. \A at \in Places(s, t) : Left(s, t, at) < m => d[at] = c[at]
    BY <2>2
  <2>4. ASSUME NEW at \in Places(s, t), Left(s, t, at) < m + 1
        PROVE  d[at] = Compared(s, t, at, d)
    <3>1. \A q \in Places(s, t) : Left(s, t, q) < Left(s, t, at) => c[q] = d[q]
      BY <1>1, <2>3, <2>4
    <3>2. Compared(s, t, at, c) = Compared(s, t, at, d)
      BY <3>1, LooksAhead
    <3>3. d[at] = Compared(s, t, at, c)
      BY <2>1, <2>2
    <3>. QED BY <3>2, <3>3
  <2>5. Knows(d, m + 1)
    BY <2>4
  <2>. HIDE DEF Knows
  <2>. QED BY <2>5
<1>4. Nat \subseteq Known
  <2>. HIDE DEF Known
  <2>. QED BY <1>2, <1>3, Induction
<1>5. PICK c : Compares(s, t, c)
  <2>. DEFINE m == Len(s) + Len(t) + 1
  <2>1. m \in Nat /\ \A at \in Places(s, t) : Left(s, t, at) < m
    <3>1. Len(s) \in Nat /\ Len(t) \in Nat
      BY DEF String
    <3>. QED BY <3>1 DEF Places, Left
  <2>2. m \in Known
    BY <1>4, <2>1
  <2>. HIDE DEF m
  <2>. QED BY <2>1, <2>2 DEF Compares
<1>. DEFINE Fixed(f) == f = [at \in Places(s, t) |-> Compared(s, t, at, f)]
<1>6. \E f : Fixed(f)
  <2>1. PICK f : f = [at \in Places(s, t) |-> c[at]]
    OBVIOUS
  <2>2. \A at \in Places(s, t) : f[at] = c[at] /\ c[at] = Compared(s, t, at, c)
    BY <1>5, <2>1 DEF Compares
  <2>3. ASSUME NEW at \in Places(s, t) PROVE c[at] = Compared(s, t, at, f)
    BY <2>2, LooksAhead
  <2>4. [at \in Places(s, t) |-> c[at]] = [at \in Places(s, t) |-> Compared(s, t, at, f)]
    BY <2>3
  <2>. QED BY <2>1, <2>4
<1>. DEFINE f == CHOOSE f : Fixed(f)
<1>7. Fixed(f)
  <2>. HIDE DEF Fixed
  <2>. QED BY <1>6
<1>8. Verrevcmp(s, t) = f[<<1, 1>>]
  BY DEF Verrevcmp, Compared, Places, OnNumbers, PastNumbers
<1>9. Compares(s, t, f)
  <2>. HIDE DEF f
  <2>. QED BY <1>7 DEF Compares
<1>. QED BY <1>8, <1>9

\* A name is first told by its class, digits and the end being one.
Rank(s, i) == IF Order(s, i) = DigitRank THEN EndRank ELSE Order(s, i)

\* The result from a place, by what decides first.
ComparedAt(s, t, c, i, j) ==
    LET a == Digits(s, i)
        b == Digits(t, j)
        p == <<PastRun(s, i, Zero..57), PastRun(t, j, Zero..57)>>
    IN  /\ Rank(s, i) # Rank(t, j) => c[<<i, j>>] = Sign(Rank(s, i), Rank(t, j))
        /\ Rank(s, i) = Rank(t, j) /\ Rank(s, i) = EndRank =>
              /\ a # b => c[<<i, j>>] = ByNumber(a, b)
              /\ a = b => c[<<i, j>>] = c[p] /\ (p = <<i, j>> => c[p] = 0)
        /\ Rank(s, i) = Rank(t, j) /\ Rank(s, i) # EndRank =>
              c[<<i, j>>] = c[<<i + 1, j + 1>>] /\ i <= Len(s) /\ j <= Len(t)

\* LEMMA: that is what the recursion gives.
LEMMA ComparesBy ==
    ASSUME NEW s \in String, NEW t \in String, NEW c, Compares(s, t, c),
           NEW i \in 1..Len(s) + 1, NEW j \in 1..Len(t) + 1
    PROVE  ComparedAt(s, t, c, i, j)
<1>. DEFINE at == <<i, j>>
            p == <<PastRun(s, i, Zero..57), PastRun(t, j, Zero..57)>>
<1>1. at \in Places(s, t) /\ at[1] = i /\ at[2] = j
  BY DEF Places
<1>2. c[at] = Compared(s, t, at, c) /\ PastNumbers(s, t, at) = p
  BY <1>1 DEF Compares, PastNumbers
<1>3. OnNumbers(s, t, at) <=> Rank(s, i) = EndRank /\ Rank(t, j) = EndRank
  BY <1>1 DEF OnNumbers, Rank, DigitRank, EndRank
<1>4. /\ Order(s, i) \in Nat /\ (i <= Len(s) \/ Order(s, i) = EndRank)
      /\ Order(t, j) \in Nat /\ (j <= Len(t) \/ Order(t, j) = EndRank)
  <2>1. Len(s) \in Nat /\ Len(t) \in Nat
    BY DEF String
  <2>2. /\ Order(s, i) \in Nat /\ (Order(s, i) = EndRank <=> i = Len(s) + 1)
        /\ Order(t, j) \in Nat /\ (Order(t, j) = EndRank <=> j = Len(t) + 1)
    BY OrderIs
  <2>. QED BY <2>1, <2>2
<1>. HIDE DEF at, p
<1>5. ASSUME OnNumbers(s, t, at)
      PROVE  /\ Digits(s, i) # Digits(t, j) => c[at] = ByNumber(Digits(s, i), Digits(t, j))
             /\ Digits(s, i) = Digits(t, j) => c[at] = IF p = at THEN 0 ELSE c[p]
  BY <1>1, <1>2, <1>5 DEF Compared
<1>6. ASSUME ~OnNumbers(s, t, at)
      PROVE  /\ Order(s, i) # Order(t, j) => c[at] = Sign(Order(s, i), Order(t, j))
             /\ Order(s, i) = Order(t, j) => c[at] = c[<<i + 1, j + 1>>]
  BY <1>1, <1>2, <1>6 DEF Compared
<1>7. ASSUME Rank(s, i) # Rank(t, j)
      PROVE  c[at] = Sign(Rank(s, i), Rank(t, j))
  <2>1. ~OnNumbers(s, t, at) /\ Order(s, i) # Order(t, j)
    BY <1>3, <1>7 DEF Rank
  <2>2. Sign(Rank(s, i), Rank(t, j)) = Sign(Order(s, i), Order(t, j))
    BY <1>4, <1>7 DEF Sign, Rank, DigitRank, EndRank
  <2>. QED BY <1>6, <2>1, <2>2
<1>8. ASSUME Rank(s, i) = Rank(t, j), Rank(s, i) # EndRank
      PROVE  c[at] = c[<<i + 1, j + 1>>] /\ i <= Len(s) /\ j <= Len(t)
  <2>1. ~OnNumbers(s, t, at) /\ Order(s, i) = Order(t, j)
    BY <1>3, <1>8 DEF Rank
  <2>2. Order(s, i) # EndRank /\ Order(t, j) # EndRank
    BY <1>8 DEF Rank, EndRank, DigitRank
  <2>. QED BY <1>4, <1>6, <2>1, <2>2
<1>. QED BY <1>3, <1>5, <1>7, <1>8 DEF at, p, ComparedAt

\* LEMMA: what the sign of two naturals is.
LEMMA SignIs ==
    /\ \A m, n \in Nat : /\ Sign(m, n) \in {-1, 0, 1} /\ Sign(n, m) = -Sign(m, n)
                         /\ Sign(m, n) = 0 <=> m = n
    /\ \A m, n, k \in Nat : Agree(Sign(m, n), Sign(n, k), Sign(m, k))
BY DEF Sign, Agree

\* LEMMA: a comparison by two keys agrees when those by each do.
LEMMA AgreeByTwo ==
    ASSUME NEW ab \in {-1, 0, 1}, NEW bc \in {-1, 0, 1}, NEW ac \in {-1, 0, 1},
           NEW x \in {-1, 0, 1}, NEW y \in {-1, 0, 1}, NEW z \in {-1, 0, 1},
           Agree(ab, bc, ac), ab # 0 => x = ab, bc # 0 => y = bc, ac # 0 => z = ac,
           ab = 0 /\ bc = 0 /\ ac = 0 => Agree(x, y, z)
    PROVE  Agree(x, y, z)
BY DEF Agree

\* LEMMA: the two ways round a comparison gives opposite results.
LEMMA VerrevcmpOpposite ==
    ASSUME NEW s \in String, NEW t \in String, NEW c, Compares(s, t, c), NEW d, Compares(t, s, d)
    PROVE  \A i \in 1..Len(s) + 1, j \in 1..Len(t) + 1 :
              c[<<i, j>>] \in {-1, 0, 1} /\ d[<<j, i>>] = -c[<<i, j>>]
<1>0. Len(s) \in Nat /\ Len(t) \in Nat
  BY DEF String
<1>. DEFINE I == 1..Len(s) + 1
            J == 1..Len(t) + 1
            Rest(i, j) == (Len(s) + 1 - i) + (Len(t) + 1 - j)
            Holds(i, j) == c[<<i, j>>] \in {-1, 0, 1} /\ d[<<j, i>>] = -c[<<i, j>>]
            Shown == {m \in Nat : \A i \in I, j \in J : Rest(i, j) < m => Holds(i, j)}
<1>1. 0 \in Shown
  BY <1>0
<1>2. ASSUME NEW m \in Nat, m \in Shown PROVE m + 1 \in Shown
  <2>. SUFFICES ASSUME NEW i \in I, NEW j \in J, Rest(i, j) < m + 1 PROVE Holds(i, j)
    OBVIOUS
  <2>1. \A k \in I, l \in J : Rest(k, l) < m => Holds(k, l)
    BY <1>2
  <2>. DEFINE a == Digits(s, i)
              b == Digits(t, j)
              p == PastRun(s, i, Zero..57)
              q == PastRun(t, j, Zero..57)
  <2>2. a \in String /\ b \in String /\ p \in i..Len(s) + 1 /\ q \in j..Len(t) + 1
    BY PastRunIs, DigitsIs
  <2>3. Rank(s, i) \in Nat /\ Rank(t, j) \in Nat
    BY OrderIs DEF Rank, EndRank
  <2>. HIDE DEF a, b, p, q
  <2>0. ComparedAt(s, t, c, i, j) /\ ComparedAt(t, s, d, j, i)
    BY ComparesBy
  <2>4. CASE Rank(s, i) # Rank(t, j)
    <3>1. c[<<i, j>>] = Sign(Rank(s, i), Rank(t, j)) /\ d[<<j, i>>] = Sign(Rank(t, j), Rank(s, i))
      BY <2>0, <2>4 DEF ComparedAt
    <3>. QED BY <2>3, <3>1, SignIs
  <2>5. CASE Rank(s, i) = Rank(t, j) /\ Rank(s, i) = EndRank
    <3>1. /\ a # b => c[<<i, j>>] = ByNumber(a, b) /\ d[<<j, i>>] = ByNumber(b, a)
          /\ a = b => /\ c[<<i, j>>] = c[<<p, q>>] /\ (<<p, q>> = <<i, j>> => c[<<p, q>>] = 0)
                      /\ d[<<j, i>>] = d[<<q, p>>] /\ (<<q, p>> = <<j, i>> => d[<<q, p>>] = 0)
      BY <2>0, <2>5 DEF ComparedAt, a, b, p, q
    <3>2. CASE a # b
      BY <2>2, <3>1, <3>2, NumberOrder
    <3>3. CASE a = b /\ p = i /\ q = j
      BY <3>1, <3>3
    <3>4. CASE a = b /\ ~(p = i /\ q = j)
      <4>1. p \in I /\ q \in J /\ Rest(p, q) < m
        BY <1>0, <2>2, <3>4
      <4>2. Holds(p, q)
        BY <2>1, <4>1
      <4>. QED BY <3>1, <3>4, <4>2
    <3>. QED BY <3>2, <3>3, <3>4
  <2>6. CASE Rank(s, i) = Rank(t, j) /\ Rank(s, i) # EndRank
    <3>1. /\ c[<<i, j>>] = c[<<i + 1, j + 1>>] /\ i <= Len(s) /\ j <= Len(t)
          /\ d[<<j, i>>] = d[<<j + 1, i + 1>>]
      BY <2>0, <2>6 DEF ComparedAt
    <3>2. i + 1 \in I /\ j + 1 \in J /\ Rest(i + 1, j + 1) < m
      <4>1. PICK x \in Nat, y \in Nat : x = Len(s) /\ y = Len(t)
        BY <1>0
      <4>2. i \in 1..x /\ j \in 1..y /\ (x + 1 - i) + (y + 1 - j) < m + 1
        BY <3>1, <4>1
      <4>3. i + 1 \in 1..x + 1 /\ j + 1 \in 1..y + 1 /\ (x + 1 - (i + 1)) + (y + 1 - (j + 1)) < m
        BY <4>2
      <4>. QED BY <4>1, <4>3
    <3>3. Holds(i + 1, j + 1)
      BY <2>1, <3>2
    <3>. QED BY <3>1, <3>3
  <2>. QED BY <2>4, <2>5, <2>6
<1>3. Nat \subseteq Shown
  <2>. HIDE DEF Shown
  <2>. QED BY <1>1, <1>2, Induction
<1>4. ASSUME NEW i \in I, NEW j \in J PROVE Holds(i, j)
  <2>1. Rest(i, j) \in Nat /\ Rest(i, j) < Rest(i, j) + 1
    BY <1>0
  <2>2. Rest(i, j) + 1 \in Shown
    BY <1>3, <2>1
  <2>. HIDE DEF Holds, Rest
  <2>. QED BY <2>1, <2>2
<1>. QED BY <1>4

\* LEMMA: three comparisons from one place agree.
LEMMA VerrevcmpAgree ==
    ASSUME NEW s \in String, NEW t \in String, NEW u \in String,
           NEW c, Compares(s, t, c), NEW d, Compares(t, u, d), NEW e, Compares(s, u, e)
    PROVE  \A i \in 1..Len(s) + 1, j \in 1..Len(t) + 1, k \in 1..Len(u) + 1 :
              Agree(c[<<i, j>>], d[<<j, k>>], e[<<i, k>>])
<1>0. Len(s) \in Nat /\ Len(t) \in Nat /\ Len(u) \in Nat
  BY DEF String
<1>. DEFINE I == 1..Len(s) + 1
            J == 1..Len(t) + 1
            K == 1..Len(u) + 1
            Rest(i, j, k) == (Len(s) + 1 - i) + (Len(t) + 1 - j) + (Len(u) + 1 - k)
            Holds(i, j, k) == Agree(c[<<i, j>>], d[<<j, k>>], e[<<i, k>>])
            Shown == {m \in Nat : \A i \in I, j \in J, k \in K : Rest(i, j, k) < m => Holds(i, j, k)}
<1>1. 0 \in Shown
  BY <1>0
<1>2. ASSUME NEW m \in Nat, m \in Shown PROVE m + 1 \in Shown
  <2>. SUFFICES ASSUME NEW i \in I, NEW j \in J, NEW k \in K, Rest(i, j, k) < m + 1
                PROVE  Holds(i, j, k)
    <3>. HIDE DEF Holds, Rest, I, J, K
    <3>. QED BY <1>2
  <2>0. Rest(i, j, k) < m + 1
    OBVIOUS
  <2>1. \A i_1 \in I, j_1 \in J, k_1 \in K : Rest(i_1, j_1, k_1) < m => Holds(i_1, j_1, k_1)
    BY <1>2
  <2>. DEFINE S == Rank(s, i)
              T == Rank(t, j)
              U == Rank(u, k)
              a == Digits(s, i)
              b == Digits(t, j)
              g == Digits(u, k)
              p == PastRun(s, i, Zero..57)
              q == PastRun(t, j, Zero..57)
              r == PastRun(u, k, Zero..57)
  <2>2. /\ a \in String /\ b \in String /\ g \in String
        /\ p \in i..Len(s) + 1 /\ q \in j..Len(t) + 1 /\ r \in k..Len(u) + 1
    BY PastRunIs, DigitsIs
  <2>3. S \in Nat /\ T \in Nat /\ U \in Nat
    BY OrderIs DEF Rank, EndRank
  <2>4. /\ c[<<i, j>>] \in {-1, 0, 1} /\ d[<<j, k>>] \in {-1, 0, 1} /\ e[<<i, k>>] \in {-1, 0, 1}
    <3>1. PICK f : Compares(t, s, f)
      BY VerrevcmpIs
    <3>2. PICK f_1 : Compares(u, t, f_1)
      BY VerrevcmpIs
    <3>3. PICK f_2 : Compares(u, s, f_2)
      BY VerrevcmpIs
    <3>. QED BY <3>1, <3>2, <3>3, VerrevcmpOpposite
  <2>5. ComparedAt(s, t, c, i, j) /\ ComparedAt(t, u, d, j, k) /\ ComparedAt(s, u, e, i, k)
    BY ComparesBy
  <2>6. ASSUME S = T, T = U, S # EndRank
        PROVE  Holds(i, j, k)
    <3>1. /\ c[<<i, j>>] = c[<<i + 1, j + 1>>] /\ i <= Len(s)
          /\ d[<<j, k>>] = d[<<j + 1, k + 1>>] /\ j <= Len(t)
          /\ e[<<i, k>>] = e[<<i + 1, k + 1>>] /\ k <= Len(u)
      BY <2>5, <2>6 DEF ComparedAt
    <3>2. i + 1 \in I /\ j + 1 \in J /\ k + 1 \in K /\ Rest(i + 1, j + 1, k + 1) < m
      <4>1. i <= Len(s) /\ j <= Len(t) /\ k <= Len(u)
        BY <3>1
      <4>. HIDE DEF S, T, U, a, b, g, p, q, r, Holds, Shown
      <4>. QED BY <1>0, <2>0, <4>1
    <3>3. Holds(i + 1, j + 1, k + 1)
      BY <2>1, <3>2
    <3>. QED BY <3>1, <3>3
  <2>7. ASSUME S = T, T = U, S = EndRank
        PROVE  Holds(i, j, k)
    <3>1. /\ a # b => c[<<i, j>>] = ByNumber(a, b)
          /\ b # g => d[<<j, k>>] = ByNumber(b, g)
          /\ a # g => e[<<i, k>>] = ByNumber(a, g)
      BY <2>5, <2>7 DEF ComparedAt
    <3>2. /\ a = b => c[<<i, j>>] = c[<<p, q>>] /\ (p = i /\ q = j => c[<<i, j>>] = 0)
          /\ b = g => d[<<j, k>>] = d[<<q, r>>] /\ (q = j /\ r = k => d[<<j, k>>] = 0)
          /\ a = g => e[<<i, k>>] = e[<<p, r>>] /\ (p = i /\ r = k => e[<<i, k>>] = 0)
      BY <2>5, <2>7 DEF ComparedAt
    <3>3. a = b /\ b = g => Holds(i, j, k)
      <4>1. CASE a = b /\ b = g /\ p = i /\ q = j /\ r = k
        <5>1. c[<<i, j>>] = 0 /\ d[<<j, k>>] = 0 /\ e[<<i, k>>] = 0
          BY <3>2, <4>1
        <5>. QED BY <5>1 DEF Agree
      <4>2. CASE a = b /\ b = g /\ ~(p = i /\ q = j /\ r = k)
        <5>1. p \in I /\ q \in J /\ r \in K /\ Rest(p, q, r) < m
          <6>. HIDE DEF p, q, r
          <6>. QED BY <1>0, <2>2, <4>2
        <5>2. Holds(p, q, r)
          BY <2>1, <5>1
        <5>. QED BY <3>2, <4>2, <5>2
      <4>. QED BY <4>1, <4>2
    <3>4. /\ ByNumber(a, b) \in {-1, 0, 1} /\ (ByNumber(a, b) = 0 <=> a = b)
          /\ ByNumber(b, g) \in {-1, 0, 1} /\ (ByNumber(b, g) = 0 <=> b = g)
          /\ ByNumber(a, g) \in {-1, 0, 1} /\ (ByNumber(a, g) = 0 <=> a = g)
          /\ Agree(ByNumber(a, b), ByNumber(b, g), ByNumber(a, g))
      <4>. HIDE DEF a, b, g
      <4>. QED BY <2>2, NumberOrder
    <3>. HIDE DEF a, b, g, p, q, r, S, T, U
    <3>. DEFINE ab == ByNumber(a, b)
                bg == ByNumber(b, g)
                ag == ByNumber(a, g)
    <3>5. /\ ab # 0 => c[<<i, j>>] = ab
          /\ bg # 0 => d[<<j, k>>] = bg
          /\ ag # 0 => e[<<i, k>>] = ag
          /\ ab = 0 /\ bg = 0 /\ ag = 0 => Holds(i, j, k)
      BY <3>1, <3>3, <3>4
    <3>6. ab \in {-1, 0, 1} /\ bg \in {-1, 0, 1} /\ ag \in {-1, 0, 1} /\ Agree(ab, bg, ag)
      BY <3>4
    <3>7. PICK x, y, z : x = c[<<i, j>>] /\ y = d[<<j, k>>] /\ z = e[<<i, k>>]
      OBVIOUS
    <3>8. x \in {-1, 0, 1} /\ y \in {-1, 0, 1} /\ z \in {-1, 0, 1}
      BY <2>4, <3>7
    <3>9. /\ ab # 0 => x = ab
          /\ bg # 0 => y = bg
          /\ ag # 0 => z = ag
          /\ ab = 0 /\ bg = 0 => Agree(x, y, z)
      BY <3>1, <3>3, <3>4, <3>7
    <3>. HIDE DEF ab, bg, ag
    <3>10. Agree(x, y, z)
      BY <3>6, <3>8, <3>9 DEF Agree
    <3>. QED BY <3>7, <3>10
  <2>8. /\ Sign(S, T) # 0 => c[<<i, j>>] = Sign(S, T)
        /\ Sign(T, U) # 0 => d[<<j, k>>] = Sign(T, U)
        /\ Sign(S, U) # 0 => e[<<i, k>>] = Sign(S, U)
    <3>1. /\ S # T => c[<<i, j>>] = Sign(S, T)
          /\ T # U => d[<<j, k>>] = Sign(T, U)
          /\ S # U => e[<<i, k>>] = Sign(S, U)
      BY <2>5 DEF ComparedAt
    <3>. HIDE DEF S, T, U
    <3>. QED BY <2>3, <3>1, SignIs
  <2>. HIDE DEF S, T, U
  <2>9. Sign(S, T) = 0 /\ Sign(T, U) = 0 => Holds(i, j, k)
    <3>1. Sign(S, T) = 0 /\ Sign(T, U) = 0 => S = T /\ T = U
      BY <2>3, SignIs
    <3>. QED BY <2>6, <2>7, <3>1
  <2>10. /\ Sign(S, T) \in {-1, 0, 1} /\ Sign(T, U) \in {-1, 0, 1} /\ Sign(S, U) \in {-1, 0, 1}
         /\ Agree(Sign(S, T), Sign(T, U), Sign(S, U))
    BY <2>3, SignIs
  <2>. DEFINE st == Sign(S, T)
              tu == Sign(T, U)
              su == Sign(S, U)
  <2>11. PICK x, y, z : x = c[<<i, j>>] /\ y = d[<<j, k>>] /\ z = e[<<i, k>>]
    OBVIOUS
  <2>12. x \in {-1, 0, 1} /\ y \in {-1, 0, 1} /\ z \in {-1, 0, 1}
    BY <2>4, <2>11
  <2>13. /\ st # 0 => x = st
         /\ tu # 0 => y = tu
         /\ su # 0 => z = su
         /\ st = 0 /\ tu = 0 => Agree(x, y, z)
    BY <2>8, <2>9, <2>11
  <2>14. /\ st \in {-1, 0, 1} /\ tu \in {-1, 0, 1} /\ su \in {-1, 0, 1}
         /\ Agree(st, tu, su)
    BY <2>10
  <2>. HIDE DEF st, tu, su
  <2>15. Agree(x, y, z)
    BY <2>12, <2>13, <2>14 DEF Agree
  <2>. QED BY <2>11, <2>15
<1>3. Nat \subseteq Shown
  <2>. HIDE DEF Shown
  <2>. QED BY <1>1, <1>2, Induction
<1>4. ASSUME NEW i \in I, NEW j \in J, NEW k \in K PROVE Holds(i, j, k)
  <2>1. Rest(i, j, k) \in Nat /\ Rest(i, j, k) < Rest(i, j, k) + 1
    BY <1>0
  <2>2. Rest(i, j, k) + 1 \in Shown
    BY <1>3, <2>1
  <2>. HIDE DEF Holds, Rest
  <2>. QED BY <2>1, <2>2
<1>. QED BY <1>4

--------------------------------------------------------------------------------
(* The order of the names                                                  *)

\* LEMMA: verrevcmp is a comparison: its result is a sign, the other way round
\* the opposite one, and three results agree.
LEMMA VerrevcmpOrder ==
    /\ \A s, t \in String : Verrevcmp(s, t) \in {-1, 0, 1} /\ Verrevcmp(t, s) = -Verrevcmp(s, t)
    /\ \A s, t, u \in String : Agree(Verrevcmp(s, t), Verrevcmp(t, u), Verrevcmp(s, u))
<1>0. \A s \in String : Len(s) \in Nat /\ 1 \in 1..Len(s) + 1
  BY DEF String
<1>1. ASSUME NEW s \in String, NEW t \in String
      PROVE  Verrevcmp(s, t) \in {-1, 0, 1} /\ Verrevcmp(t, s) = -Verrevcmp(s, t)
  <2>1. PICK c : Compares(s, t, c) /\ Verrevcmp(s, t) = c[<<1, 1>>]
    BY VerrevcmpIs
  <2>2. PICK d : Compares(t, s, d) /\ Verrevcmp(t, s) = d[<<1, 1>>]
    BY VerrevcmpIs
  <2>3. c[<<1, 1>>] \in {-1, 0, 1} /\ d[<<1, 1>>] = -c[<<1, 1>>]
    BY <1>0, <2>1, <2>2, VerrevcmpOpposite
  <2>. QED BY <2>1, <2>2, <2>3
<1>2. ASSUME NEW s \in String, NEW t \in String, NEW u \in String
      PROVE  Agree(Verrevcmp(s, t), Verrevcmp(t, u), Verrevcmp(s, u))
  <2>1. PICK c : Compares(s, t, c) /\ Verrevcmp(s, t) = c[<<1, 1>>]
    BY VerrevcmpIs
  <2>2. PICK d : Compares(t, u, d) /\ Verrevcmp(t, u) = d[<<1, 1>>]
    BY VerrevcmpIs
  <2>3. PICK e : Compares(s, u, e) /\ Verrevcmp(s, u) = e[<<1, 1>>]
    BY VerrevcmpIs
  <2>4. Agree(c[<<1, 1>>], d[<<1, 1>>], e[<<1, 1>>])
    BY <1>0, <2>1, <2>2, <2>3, VerrevcmpAgree
  <2>. QED BY <2>1, <2>2, <2>3, <2>4
<1>. QED BY <1>1, <1>2

\* LEMMA: where a name's extensions start.
LEMMA FilePrefixLenIs ==
    ASSUME NEW s \in String
    PROVE  /\ FilePrefixLen(s) \in 0..Len(s)
           /\ FilePrefixLen(s) = 0 => s = << >>
           /\ ExtensionsFrom(s, FilePrefixLen(s) + 1)
<1>. DEFINE S == {i \in 0..Len(s) : (i = 0 => s = << >>) /\ ExtensionsFrom(s, i + 1)}
<1>1. Len(s) \in Nat /\ DOMAIN s = 1..Len(s) /\ (Len(s) = 0 => s = << >>)
  BY DEF String
<1>2. ExtensionsFrom(s, Len(s) + 1)
  BY <1>1 DEF ExtensionsFrom
<1>3. Len(s) \in S /\ S \subseteq Nat
  BY <1>1, <1>2
<1>4. Smallest(S) \in S
  BY <1>3, SmallestIs
<1>. QED BY <1>4 DEF FilePrefixLen

\* LEMMA: so is filevercmp, with and without the extensions.
LEMMA FilevercmpOrder ==
    /\ \A a, b \in String : Filevercmp(a, b) \in {-1, 0, 1} /\ Filevercmp(b, a) = -Filevercmp(a, b)
    /\ \A a, b, c \in String : Agree(Filevercmp(a, b), Filevercmp(b, c), Filevercmp(a, c))
<1>. DEFINE Stem(a) == SubSeq(a, 1, FilePrefixLen(a))
            Stems(a, b) == Verrevcmp(Stem(a), Stem(b))
<1>0. \A a \in String : Len(a) \in Nat /\ (a = << >> <=> Len(a) = 0)
  BY DEF String
<1>1. ASSUME NEW a \in String PROVE Stem(a) \in String
  <2>1. FilePrefixLen(a) \in 1 - 1..Len(a) /\ 1 \in 1..Len(a) + 1
    BY <1>0, FilePrefixLenIs
  <2>. QED BY <2>1, PartIs
<1>2. ASSUME NEW a \in String, NEW b \in String
      PROVE  /\ a = << >> \/ b = << >> => Filevercmp(a, b) = Sign(Len(a), Len(b))
             /\ a # << >> /\ b # << >> /\ Stems(a, b) # 0 => Filevercmp(a, b) = Stems(a, b)
             /\ a # << >> /\ b # << >> /\ Stems(a, b) = 0 => Filevercmp(a, b) = Verrevcmp(a, b)
  BY DEF Filevercmp
<1>3. /\ \A a, b \in String : Stems(a, b) \in {-1, 0, 1} /\ Stems(b, a) = -Stems(a, b)
      /\ \A a, b, c \in String : Agree(Stems(a, b), Stems(b, c), Stems(a, c))
  BY <1>1, VerrevcmpOrder
<1>. HIDE DEF Stems
<1>4. ASSUME NEW a \in String, NEW b \in String
      PROVE  Filevercmp(a, b) \in {-1, 0, 1} /\ Filevercmp(b, a) = -Filevercmp(a, b)
  <2>1. CASE a = << >> \/ b = << >>
    BY <1>0, <1>2, <2>1, SignIs
  <2>2. CASE a # << >> /\ b # << >> /\ Stems(a, b) # 0
    <3>1. Stems(b, a) # 0
      BY <1>3, <2>2
    <3>. QED BY <1>2, <1>3, <2>2, <3>1
  <2>3. CASE a # << >> /\ b # << >> /\ Stems(a, b) = 0
    <3>1. Stems(b, a) = 0
      BY <1>3, <2>3
    <3>. QED BY <1>2, <2>3, <3>1, VerrevcmpOrder
  <2>. QED BY <2>1, <2>2, <2>3
<1>5. ASSUME NEW a \in String, NEW b \in String, NEW c \in String
      PROVE  Agree(Filevercmp(a, b), Filevercmp(b, c), Filevercmp(a, c))
  <2>1. PICK x, y, z : x = Filevercmp(a, b) /\ y = Filevercmp(b, c) /\ z = Filevercmp(a, c)
    OBVIOUS
  <2>2. x \in {-1, 0, 1} /\ y \in {-1, 0, 1} /\ z \in {-1, 0, 1}
    BY <1>4, <2>1
  <2>3. CASE a = << >> \/ b = << >> \/ c = << >>
    <3>1. /\ a = << >> \/ b = << >> => x = Sign(Len(a), Len(b))
          /\ b = << >> \/ c = << >> => y = Sign(Len(b), Len(c))
          /\ a = << >> \/ c = << >> => z = Sign(Len(a), Len(c))
      BY <1>2, <2>1
    <3>2. Agree(x, y, z)
      BY <1>0, <2>2, <2>3, <3>1 DEF Agree, Sign
    <3>. QED BY <2>1, <3>2
  <2>4. CASE a # << >> /\ b # << >> /\ c # << >>
    <3>1. PICK u, v, w : u = Stems(a, b) /\ v = Stems(b, c) /\ w = Stems(a, c)
      OBVIOUS
    <3>2. /\ u \in {-1, 0, 1} /\ v \in {-1, 0, 1} /\ w \in {-1, 0, 1} /\ Agree(u, v, w)
      BY <1>3, <3>1
    <3>3. /\ u # 0 => x = u
          /\ v # 0 => y = v
          /\ w # 0 => z = w
          /\ u = 0 /\ v = 0 /\ w = 0 => Agree(x, y, z)
      BY <1>2, <2>1, <2>4, <3>1, VerrevcmpOrder
    <3>4. Agree(x, y, z)
      BY <2>2, <3>2, <3>3 DEF Agree
    <3>. QED BY <2>1, <3>4
  <2>. QED BY <2>3, <2>4
<1>. QED BY <1>4, <1>5

\* The order fagenrules merges the files of rules.d/ in is a strict total order
\* on their names, whatever bytes they hold (filevercmp and the tie-break of
\* rules_d.rs): no name is before itself, of two names one is before the other,
\* and before is transitive.
THEOREM BeforeOrder ==
    /\ \A a, b \in String : ~(Before(a, b) /\ Before(b, a))
    /\ \A a, b \in String : a = b \/ Before(a, b) \/ Before(b, a)
    /\ \A a, b, c \in String : Before(a, b) /\ Before(b, c) => Before(a, c)
<1>1. ASSUME NEW a \in String, NEW b \in String
      PROVE  ~(Before(a, b) /\ Before(b, a)) /\ (a = b \/ Before(a, b) \/ Before(b, a))
  <2>1. Filevercmp(a, b) \in {-1, 0, 1} /\ Filevercmp(b, a) = -Filevercmp(a, b)
    BY FilevercmpOrder
  <2>2. ~(ByteLess(a, b) /\ ByteLess(b, a)) /\ (a = b \/ ByteLess(a, b) \/ ByteLess(b, a))
    BY ByteOrder
  <2>. QED BY <2>1, <2>2 DEF Before
<1>2. ASSUME NEW a \in String, NEW b \in String, NEW c \in String, Before(a, b), Before(b, c)
      PROVE  Before(a, c)
  <2>1. PICK x, y, z : x = Filevercmp(a, b) /\ y = Filevercmp(b, c) /\ z = Filevercmp(a, c)
    OBVIOUS
  <2>2. x \in {-1, 0, 1} /\ y \in {-1, 0, 1} /\ z \in {-1, 0, 1} /\ Agree(x, y, z)
    BY <2>1, FilevercmpOrder
  <2>3. /\ x < 0 \/ (x = 0 /\ ByteLess(a, b))
        /\ y < 0 \/ (y = 0 /\ ByteLess(b, c))
    BY <1>2, <2>1 DEF Before
  <2>4. z < 0 \/ (z = 0 /\ x = 0 /\ y = 0)
    BY <2>2, <2>3 DEF Agree
  <2>5. x = 0 /\ y = 0 => ByteLess(a, b) /\ ByteLess(b, c)
    BY <2>3
  <2>6. ByteLess(a, b) /\ ByteLess(b, c) => ByteLess(a, c)
    BY ByteOrder
  <2>7. z < 0 \/ (z = 0 /\ ByteLess(a, c))
    BY <2>4, <2>5, <2>6
  <2>. QED BY <2>1, <2>7 DEF Before
<1>. QED BY <1>1, <1>2

--------------------------------------------------------------------------------
(* Numbers                                                                 *)

Number == Seq(Zero..57)

\* LEMMA: what a sequence holds.
LEMMA ElementsIn ==
    ASSUME NEW S
    PROVE  \A s \in Seq(S) : \A k \in 1..Len(s) : s[k] \in S
OBVIOUS

\* v[k] is the value of the first k digits of s.
Reads(s, v) ==
    /\ v \in [0..Len(s) -> Nat]
    /\ v[0] = 0 /\ \A k \in 1..Len(s) : v[k] = 10 * v[k - 1] + (s[k] - Zero)

\* LEMMA: a recursion by steps on a number is defined everywhere.
LEMMA NumberSteps ==
    ASSUME NEW n \in Nat, NEW g, Steps(g, n, Nat)
    PROVE  \E u \in [0..n -> Nat] : u[0] = 0 /\ \A k \in 1..n : u[k] = g[k][u[k - 1]]
<1>1. PICK S : S = Nat
  OBVIOUS
<1>2. PICK e \in S : e = 0
  BY <1>1
<1>3. Steps(g, n, S)
  BY <1>1
<1>4. \E u \in [0..n -> S] : u[0] = e /\ \A k \in 1..n : u[k] = g[k][u[k - 1]]
  BY <1>3, StepsDefine
<1>. QED BY <1>1, <1>2, <1>4

\* LEMMA: every string of digits has a value, and only one.
LEMMA ReadsIs ==
    ASSUME NEW s \in Number
    PROVE  /\ \E v : Reads(s, v)
           /\ \A v, w : Reads(s, v) /\ Reads(s, w) => \A k \in 0..Len(s) : v[k] = w[k]
<1>0. Len(s) \in Nat /\ \A k \in 1..Len(s) : s[k] \in Nat /\ s[k] - Zero \in Nat
  BY DEF Number, Zero
<1>1. \E v : Reads(s, v)
  <2>0. PICK n \in Nat : n = Len(s)
    BY <1>0
  <2>. DEFINE g == [k \in 1..n |-> [m \in Nat |-> 10 * m + (s[k] - Zero)]]
  <2>2. \A k \in 1..n : \A m \in Nat : g[k][m] = 10 * m + (s[k] - Zero)
    OBVIOUS
  <2>. HIDE DEF g
  <2>a. ASSUME NEW k \in 1..n, NEW m \in Nat PROVE g[k][m] \in Nat
    <3>1. PICK d \in Nat : d = s[k] - Zero
      BY <1>0, <2>0
    <3>2. 10 * m + d \in Nat
      OBVIOUS
    <3>. QED BY <2>2, <3>1, <3>2
  <2>1. Steps(g, n, Nat)
    BY <2>a DEF Steps
  <2>3. PICK v \in [0..Len(s) -> Nat] : v[0] = 0 /\ \A k \in 1..Len(s) : v[k] = g[k][v[k - 1]]
    BY <2>0, <2>1, NumberSteps
  <2>4. \A k \in 1..Len(s) : v[k - 1] \in Nat
    <3>1. \A k \in 1..Len(s) : k - 1 \in 0..Len(s)
      BY <1>0
    <3>. QED BY <3>1
  <2>5. Reads(s, v)
    BY <2>0, <2>2, <2>3, <2>4 DEF Reads
  <2>. QED BY <2>5
<1>2. ASSUME NEW v, NEW w, Reads(s, v), Reads(s, w) PROVE \A k \in 0..Len(s) : v[k] = w[k]
  <2>. DEFINE Same == {m \in Nat : m <= Len(s) => v[m] = w[m]}
  <2>1. 0 \in Same
    BY <1>2 DEF Reads
  <2>2. ASSUME NEW m \in Nat, m \in Same PROVE m + 1 \in Same
    <3>1. CASE m + 1 <= Len(s)
      <4>1. m + 1 \in 1..Len(s) /\ m + 1 - 1 = m
        BY <1>0, <3>1
      <4>. QED BY <1>0, <1>2, <2>2, <3>1, <4>1 DEF Reads
    <3>. QED BY <3>1
  <2>3. Nat \subseteq Same
    <3>. HIDE DEF Same
    <3>. QED BY <2>1, <2>2, Induction
  <2>. QED BY <1>0, <2>3
<1>. QED BY <1>1, <1>2

\* LEMMA: of two readings from places in two strings, one that is behind stays so.
LEMMA ReadsBehind ==
    ASSUME NEW s \in Number, NEW t \in Number, NEW v, Reads(s, v), NEW w, Reads(t, w),
           NEW i \in 0..Len(s), NEW j \in 0..Len(t), Len(s) - i = Len(t) - j, v[i] < w[j]
    PROVE  v[Len(s)] < w[Len(t)]
<1>0. Len(s) \in Nat /\ Len(t) \in Nat
  BY DEF Number
<1>. DEFINE Behind == {m \in Nat : i + m <= Len(s) => v[i + m] < w[j + m]}
<1>1. 0 \in Behind
  BY <1>0
<1>a. ASSUME NEW x \in Nat, NEW y \in Nat, x < y, NEW c \in 48..57, NEW d \in 48..57
      PROVE  10 * x + (c - 48) < 10 * y + (d - 48)
  <2>1. 10 * x + 10 <= 10 * y /\ 10 * x \in Nat /\ 10 * y \in Nat
    BY <1>a
  <2>. QED BY <2>1
<1>b. /\ \A k \in 0..Len(s) : v[k] \in Nat
      /\ \A k \in 0..Len(t) : w[k] \in Nat
  BY DEF Reads
<1>c. /\ \A k \in 1..Len(s) : s[k] \in 48..57
      /\ \A k \in 1..Len(t) : t[k] \in 48..57
  <2>1. \A u \in Number : \A k \in 1..Len(u) : u[k] \in Zero..57
    BY ElementsIn DEF Number
  <2>. QED BY <2>1 DEF Zero
<1>d. /\ \A k \in 1..Len(s) : v[k] = 10 * v[k - 1] + (s[k] - 48)
      /\ \A k \in 1..Len(t) : w[k] = 10 * w[k - 1] + (t[k] - 48)
  BY DEF Reads, Zero
<1>2. ASSUME NEW m \in Nat, m \in Behind PROVE m + 1 \in Behind
  <2>1. CASE i + m + 1 <= Len(s)
    <3>1. PICK k, l : k = i + m /\ l = j + m
      OBVIOUS
    <3>2. /\ k \in 0..Len(s) /\ k + 1 \in 1..Len(s) /\ k + 1 - 1 = k /\ i + (m + 1) = k + 1
          /\ l \in 0..Len(t) /\ l + 1 \in 1..Len(t) /\ l + 1 - 1 = l /\ j + (m + 1) = l + 1
      BY <1>0, <2>1, <3>1
    <3>3. v[k] < w[l]
      BY <1>0, <1>2, <2>1, <3>1
    <3>4. /\ v[k + 1] = 10 * v[k] + (s[k + 1] - 48)
          /\ w[l + 1] = 10 * w[l] + (t[l + 1] - 48)
      BY <1>d, <3>2
    <3>5. /\ v[k] \in Nat /\ w[l] \in Nat
          /\ s[k + 1] \in 48..57 /\ t[l + 1] \in 48..57
      BY <1>b, <1>c, <3>2
    <3>6. 10 * v[k] + (s[k + 1] - 48) < 10 * w[l] + (t[l + 1] - 48)
      BY <1>a, <3>3, <3>5
    <3>7. v[k + 1] < w[l + 1]
      BY <3>4, <3>6
    <3>. QED BY <3>2, <3>7
  <2>. QED BY <2>1
<1>3. Len(s) - i \in Behind
  <2>. HIDE DEF Behind
  <2>1. Len(s) - i \in Nat
    BY <1>0
  <2>. QED BY <1>1, <1>2, <2>1, Induction
<1>4. i + (Len(s) - i) = Len(s) /\ j + (Len(s) - i) = Len(t)
  BY <1>0
<1>. QED BY <1>0, <1>3, <1>4

\* LEMMA: a string of digits, digit by digit.
LEMMA NumberIs ==
    ASSUME NEW s \in Number
    PROVE  /\ s \in String /\ Len(s) \in Nat /\ DOMAIN s = 1..Len(s)
           /\ \A k \in 1..Len(s) : s[k] \in Zero..57 /\ s[k] \in Nat /\ s[k] - Zero \in Nat
           /\ \A v : Reads(s, v) => \A k \in 0..Len(s) : v[k] \in Nat
<1>1. Len(s) \in Nat /\ DOMAIN s = 1..Len(s)
  BY DEF Number
<1>2. \A k \in 1..Len(s) : s[k] \in Zero..57
  BY ElementsIn DEF Number
<1>3. \A k \in 1..Len(s) : s[k] \in Nat /\ s[k] - Zero \in Nat
  BY <1>2 DEF Zero
<1>4. s \in String
  <2>1. s = [k \in 1..Len(s) |-> s[k]]
    BY DEF Number
  <2>. QED BY <1>1, <1>3, <2>1 DEF String
<1>. QED BY <1>1, <1>2, <1>3, <1>4 DEF Reads

\* LEMMA: a value never falls from digit to digit.
LEMMA ReadsRise ==
    ASSUME NEW s \in Number, NEW v, Reads(s, v), NEW i \in 0..Len(s)
    PROVE  v[i] <= v[Len(s)]
<1>. DEFINE Rises == {m \in Nat : i + m <= Len(s) => v[i] <= v[i + m]}
<1>0. Len(s) \in Nat /\ \A k \in 0..Len(s) : v[k] \in Nat
  BY NumberIs
<1>1. 0 \in Rises
  BY <1>0
<1>2. ASSUME NEW m \in Nat, m \in Rises PROVE m + 1 \in Rises
  <2>1. CASE i + m + 1 <= Len(s)
    <3>1. PICK k : k = i + m
      OBVIOUS
    <3>2. k \in 0..Len(s) /\ k + 1 \in 1..Len(s) /\ k + 1 - 1 = k /\ i + (m + 1) = k + 1
      BY <1>0, <2>1, <3>1
    <3>3. v[i] <= v[k] /\ v[i] \in Nat /\ v[k] \in Nat /\ s[k + 1] - Zero \in Nat
      BY <1>0, <1>2, <3>1, <3>2, NumberIs
    <3>4. v[k + 1] = 10 * v[k] + (s[k + 1] - Zero)
      BY <3>2 DEF Reads
    <3>5. v[k] <= 10 * v[k] /\ 10 * v[k] \in Nat
      BY <3>3
    <3>6. v[k] <= v[k + 1] /\ v[k + 1] \in Nat
      BY <3>3, <3>4, <3>5
    <3>. QED BY <3>2, <3>3, <3>6
  <2>2. m + 1 \in Nat /\ i + m + 1 = i + (m + 1)
    BY <1>0
  <2>. QED BY <1>0, <2>1, <2>2
<1>3. Len(s) - i \in Nat
  BY <1>0
<1>4. Len(s) - i \in Rises
  <2>. HIDE DEF Rises
  <2>. QED BY <1>1, <1>2, <1>3, Induction
<1>5. i + (Len(s) - i) = Len(s)
  BY <1>0
<1>. QED BY <1>0, <1>4, <1>5

\* LEMMA: the comparison of two numbers without leading zeros is by value.
LEMMA ByNumberReads ==
    ASSUME NEW s \in Number, NEW t \in Number, NEW v, Reads(s, v), NEW w, Reads(t, w),
           s # << >> => s[1] # Zero, t # << >> => t[1] # Zero
    PROVE  /\ ByNumber(s, t) = -1 <=> v[Len(s)] < w[Len(t)]
           /\ ByNumber(s, t) = 0 <=> v[Len(s)] = w[Len(t)]
<1>1. ASSUME NEW a \in Number, NEW b \in Number, NEW x, Reads(a, x), NEW y, Reads(b, y),
             b # << >> => b[1] # Zero, ByNumber(a, b) = -1
      PROVE  x[Len(a)] < y[Len(b)]
  <2>0. /\ Len(a) \in Nat /\ Len(b) \in Nat /\ a \in String /\ b \in String
        /\ \A k \in 0..Len(a) : x[k] \in Nat
        /\ \A k \in 0..Len(b) : y[k] \in Nat
        /\ \A k \in 1..Len(a) : a[k] - Zero \in Nat /\ a[k] \in Nat
        /\ \A k \in 1..Len(b) : b[k] - Zero \in Nat /\ b[k] \in Nat
    BY <1>1, NumberIs
  <2>1. CASE Len(a) # Len(b)
    <3>1. Len(a) < Len(b)
      BY <1>1, <2>0, <2>1 DEF ByNumber, Sign
    <3>2. b # << >> /\ 1 \in 1..Len(b) /\ 1 \in 0..Len(b) /\ 0 \in 0..Len(b)
      BY <2>0, <3>1
    <3>3. y[1] = 10 * y[0] + (b[1] - Zero) /\ y[0] = 0
      BY <1>1, <3>2 DEF Reads
    <3>4. b[1] - Zero \in Nat /\ b[1] # Zero /\ b[1] \in Nat
      BY <1>1, <2>0, <3>2
    <3>5. y[1] > 0
      BY <3>3, <3>4 DEF Zero
    <3>6. PICK d : d = Len(b) - Len(a)
      OBVIOUS
    <3>7. d \in 1..Len(b) /\ Len(b) - d = Len(a)
      BY <2>0, <3>1, <3>6
    <3>8. 0 < y[d]
      <4>. DEFINE front == SubSeq(b, 1, d)
      <4>1. front \in Number /\ Len(front) = d /\ \A k \in 1..d : front[k] = b[k]
        BY <2>0, <3>7, NumberIs, SubSeqProperties DEF Number
      <4>2. PICK z : z = [k \in 0..d |-> y[k]]
        OBVIOUS
      <4>3. Reads(front, z)
        <5>1. \A k \in 0..d : z[k] = y[k] /\ k \in 0..Len(b)
          BY <2>0, <3>7, <4>2
        <5>2. z \in [0..d -> Nat]
          BY <2>0, <4>2, <5>1
        <5>3. \A k \in 1..d : k \in 1..Len(b) /\ k \in 0..d /\ k - 1 \in 0..d
          BY <2>0, <3>7
        <5>4. z[0] = 0
          BY <3>3, <3>7, <5>1
        <5>5. \A k \in 1..d : y[k] = 10 * y[k - 1] + (b[k] - Zero)
          BY <1>1, <5>3 DEF Reads
        <5>6. \A k \in 1..d : z[k] = 10 * z[k - 1] + (front[k] - Zero)
          BY <4>1, <5>1, <5>3, <5>5
        <5>. HIDE DEF front
        <5>. QED BY <4>1, <5>2, <5>4, <5>6 DEF Reads
      <4>4. 1 \in 0..d /\ d \in 0..d
        BY <3>7
      <4>5. z[1] <= z[d]
        BY <4>1, <4>3, <4>4, ReadsRise
      <4>. QED BY <2>0, <3>5, <3>7, <4>2, <4>4, <4>5
    <3>9. 0 \in 0..Len(a) /\ d \in 0..Len(b) /\ Len(a) - 0 = Len(b) - d /\ x[0] < y[d]
      BY <1>1, <2>0, <3>7, <3>8 DEF Reads
    <3>. QED BY <1>1, <3>9, ReadsBehind
  <2>2. CASE Len(a) = Len(b)
    <3>1. ByteLess(a, b)
      BY <1>1, <2>2 DEF ByNumber
    <3>2. PICK k \in 1..Len(b) : Decides(a, b, k)
      BY <2>0, <3>1, ByteLessIs
    <3>3. /\ k \in 1..Len(a) /\ a[k] < b[k]
          /\ \A m \in 1..k - 1 : a[m] = b[m]
      BY <2>0, <2>2, <3>2 DEF Decides
    <3>. DEFINE Level == {m \in Nat : m <= k - 1 => x[m] = y[m]}
    <3>4. 0 \in Level
      BY <1>1 DEF Reads
    <3>5. ASSUME NEW m \in Nat, m \in Level PROVE m + 1 \in Level
      <4>1. CASE m + 1 <= k - 1
        <5>1. m + 1 \in 1..Len(a) /\ m + 1 \in 1..Len(b) /\ m + 1 - 1 = m /\ a[m + 1] = b[m + 1]
          BY <2>0, <2>2, <3>3, <4>1
        <5>2. x[m + 1] = 10 * x[m] + (a[m + 1] - Zero) /\ y[m + 1] = 10 * y[m] + (b[m + 1] - Zero)
          BY <1>1, <5>1 DEF Reads
        <5>3. x[m] = y[m]
          BY <2>0, <3>3, <3>5, <4>1
        <5>4. x[m + 1] = y[m + 1]
          BY <5>1, <5>2, <5>3
        <5>. QED BY <5>4
      <4>2. m + 1 \in Nat
        OBVIOUS
      <4>. QED BY <4>1, <4>2
    <3>6. k - 1 \in Nat
      BY <3>3
    <3>7. k - 1 \in Level
      <4>. HIDE DEF Level
      <4>. QED BY <3>4, <3>5, <3>6, Induction
    <3>8. x[k - 1] = y[k - 1] /\ k - 1 \in 0..Len(a) /\ k \in 0..Len(a) /\ k \in 0..Len(b)
      BY <2>0, <2>2, <3>3, <3>7
    <3>9. x[k] = 10 * x[k - 1] + (a[k] - Zero) /\ y[k] = 10 * y[k - 1] + (b[k] - Zero)
      BY <1>1, <3>3 DEF Reads
    <3>10. PICK z \in Nat : z = x[k - 1]
      BY <2>0, <3>8
    <3>11. 10 * z \in Nat /\ a[k] - Zero < b[k] - Zero /\ a[k] - Zero \in Nat /\ b[k] - Zero \in Nat
      <4>1. a[k] \in Nat /\ b[k] \in Nat
        BY <2>0, <3>3
      <4>. QED BY <2>0, <3>3, <4>1 DEF Zero
    <3>12. x[k] < y[k]
      BY <3>8, <3>9, <3>10, <3>11
    <3>. QED BY <1>1, <2>0, <2>2, <3>8, <3>12, ReadsBehind
  <2>. QED BY <2>1, <2>2
<1>2. s \in String /\ t \in String /\ v[Len(s)] \in Nat /\ w[Len(t)] \in Nat
  BY NumberIs
<1>3. ByNumber(s, t) = -1 => v[Len(s)] < w[Len(t)]
  BY <1>1
<1>4. ByNumber(t, s) = -1 => w[Len(t)] < v[Len(s)]
  BY <1>1
<1>5. ByNumber(s, t) = 0 => v[Len(s)] = w[Len(t)]
  <2>1. ByNumber(s, t) = 0 => s = t
    BY <1>2, NumberOrder
  <2>2. s = t => v[Len(s)] = w[Len(s)]
    BY <1>2, NumberIs, ReadsIs
  <2>. QED BY <2>1, <2>2
<1>6. ByNumber(s, t) \in {-1, 0, 1} /\ ByNumber(t, s) = -ByNumber(s, t)
  BY <1>2, NumberOrder
<1>. QED BY <1>2, <1>3, <1>4, <1>5, <1>6

\* LEMMA: leading zeros do not change a value.
LEMMA ReadsPart ==
    ASSUME NEW s \in Number, NEW v, Reads(s, v), NEW p \in 1..Len(s) + 1,
           \A k \in 1..p - 1 : s[k] = Zero
    PROVE  /\ SubSeq(s, p, Len(s)) \in Number /\ Len(SubSeq(s, p, Len(s))) = Len(s) + 1 - p
           /\ \A k \in 1..Len(s) + 1 - p : SubSeq(s, p, Len(s))[k] = s[p + k - 1]
           /\ \A w : Reads(SubSeq(s, p, Len(s)), w) => w[Len(s) + 1 - p] = v[Len(s)]
<1>. DEFINE r == SubSeq(s, p, Len(s))
<1>0. Len(s) \in Nat /\ s \in String /\ (\A k \in 0..Len(s) : v[k] \in Nat) /\ v[0] = 0
  BY NumberIs DEF Reads
<1>1. /\ r \in Number /\ Len(r) = Len(s) + 1 - p
      /\ \A k \in 1..Len(s) + 1 - p : r[k] = s[p + k - 1]
  <2>1. \A k \in p..Len(s) : s[k] \in Zero..57
    BY <1>0, NumberIs
  <2>. QED BY <1>0, <2>1, SubSeqProperties DEF Number
<1>. HIDE DEF r
<1>2. v[p - 1] = 0
  <2>. DEFINE Nil == {m \in Nat : m <= p - 1 => v[m] = 0}
  <2>1. 0 \in Nil
    BY <1>0
  <2>2. ASSUME NEW m \in Nat, m \in Nil PROVE m + 1 \in Nil
    <3>1. CASE m + 1 <= p - 1
      <4>1. m + 1 \in 1..Len(s) /\ m + 1 - 1 = m /\ s[m + 1] = Zero
        BY <1>0, <3>1
      <4>2. v[m + 1] = 10 * v[m] + (s[m + 1] - Zero)
        BY <4>1 DEF Reads
      <4>3. v[m] = 0
        BY <2>2, <3>1
      <4>4. v[m + 1] = 0
        BY <4>1, <4>2, <4>3 DEF Zero
      <4>. QED BY <4>4
    <3>2. m + 1 \in Nat
      OBVIOUS
    <3>. QED BY <3>1, <3>2
  <2>3. p - 1 \in Nat
    OBVIOUS
  <2>4. p - 1 \in Nil
    <3>. HIDE DEF Nil
    <3>. QED BY <2>1, <2>2, <2>3, Induction
  <2>. QED BY <2>4
<1>3. ASSUME NEW w, Reads(r, w) PROVE w[Len(s) + 1 - p] = v[Len(s)]
  <2>. DEFINE Shifted == {m \in Nat : m <= Len(r) => w[m] = v[p - 1 + m]}
  <2>1. 0 \in Shifted
    BY <1>0, <1>2, <1>3 DEF Reads
  <2>2. ASSUME NEW m \in Nat, m \in Shifted PROVE m + 1 \in Shifted
    <3>1. CASE m + 1 <= Len(r)
      <4>1. PICK k \in Nat : k = p - 1 + m
        OBVIOUS
      <4>2. /\ m + 1 \in 1..Len(r) /\ m + 1 - 1 = m /\ p - 1 + (m + 1) = k + 1
            /\ k + 1 \in 1..Len(s) /\ k + 1 - 1 = k /\ p + (m + 1) - 1 = k + 1
            /\ m + 1 \in 1..Len(s) + 1 - p
        BY <1>0, <1>1, <3>1, <4>1
      <4>3. w[m + 1] = 10 * w[m] + (r[m + 1] - Zero) /\ v[k + 1] = 10 * v[k] + (s[k + 1] - Zero)
        <5>1. /\ \A i \in 1..Len(r) : w[i] = 10 * w[i - 1] + (r[i] - Zero)
              /\ \A i \in 1..Len(s) : v[i] = 10 * v[i - 1] + (s[i] - Zero)
          BY <1>3 DEF Reads
        <5>2. w[m + 1] = 10 * w[m + 1 - 1] + (r[m + 1] - Zero)
          BY <4>2, <5>1
        <5>3. v[k + 1] = 10 * v[k + 1 - 1] + (s[k + 1] - Zero)
          <6>1. PICK i \in 1..Len(s) : i = k + 1
            BY <4>2
          <6>2. v[i] = 10 * v[i - 1] + (s[i] - Zero)
            BY DEF Reads
          <6>. QED BY <6>1, <6>2
        <5>4. m + 1 - 1 = m /\ k + 1 - 1 = k
          BY <4>2
        <5>. QED BY <5>2, <5>3, <5>4
      <4>4. r[m + 1] = s[k + 1]
        BY <1>1, <4>2
      <4>5. w[m] = v[k]
        BY <1>1, <2>2, <3>1, <4>1
      <4>6. w[m + 1] = v[k + 1]
        BY <4>3, <4>4, <4>5
      <4>. QED BY <4>2, <4>6
    <3>2. m + 1 \in Nat /\ Len(r) \in Nat
      BY <1>0, <1>1
    <3>. QED BY <3>1, <3>2
  <2>3. Len(r) \in Nat
    BY <1>0, <1>1
  <2>4. Len(r) \in Shifted
    <3>. HIDE DEF Shifted
    <3>. QED BY <2>1, <2>2, <2>3, Induction
  <2>5. p - 1 + Len(r) = Len(s)
    BY <1>0, <1>1
  <2>. QED BY <1>1, <2>3, <2>4, <2>5
<1>. QED BY <1>1, <1>3 DEF r

\* The digits a name starts with.
Leading(s) == SubSeq(s, 1, PastRun(s, 1, Zero..57) - 1)

\* LEMMA: a run is told by where it ends.
LEMMA PastRunOnly ==
    ASSUME NEW s \in String, NEW U, NEW p \in 1..Len(s) + 1,
           \A k \in 1..p - 1 : s[k] \in U, p <= Len(s) => s[p] \notin U
    PROVE  PastRun(s, 1, U) = p
<1>1. Len(s) \in Nat /\ 1 \in 1..Len(s) + 1
  BY DEF String
<1>. DEFINE q == PastRun(s, 1, U)
<1>2. /\ q \in 1..Len(s) + 1 /\ (\A k \in 1..q - 1 : k \in 1..Len(s) /\ s[k] \in U)
      /\ q <= Len(s) => s[q] \notin U
  BY <1>1, PastRunIs
<1>. HIDE DEF q
<1>3. ~(q < p)
  BY <1>1, <1>2
<1>4. ~(p < q)
  BY <1>1, <1>2
<1>. QED BY <1>1, <1>2, <1>3, <1>4 DEF q

\* LEMMA: a leading number has the value of its digits without the zeros.
LEMMA LeadingIs ==
    ASSUME NEW s \in String
    PROVE  /\ Leading(s) \in Number /\ Len(Leading(s)) = PastRun(s, 1, Zero..57) - 1
           /\ Digits(s, 1) \in Number /\ (Digits(s, 1) # << >> => Digits(s, 1)[1] # Zero)
           /\ \A v, w : Reads(Leading(s), v) /\ Reads(Digits(s, 1), w) =>
                 v[Len(Leading(s))] = w[Len(Digits(s, 1))]
<1>. DEFINE q == PastRun(s, 1, Zero..57)
            z == PastRun(s, 1, {Zero})
            a == Leading(s)
<1>0. Len(s) \in Nat /\ 1 \in 1..Len(s) + 1
  BY DEF String
<1>1. /\ q \in 1..Len(s) + 1 /\ (\A k \in 1..q - 1 : k \in 1..Len(s) /\ s[k] \in Zero..57)
      /\ q <= Len(s) => s[q] \notin Zero..57
  <2>1. PICK U : U = Zero..57
    OBVIOUS
  <2>2. /\ PastRun(s, 1, U) \in 1..Len(s) + 1
        /\ \A k \in 1..PastRun(s, 1, U) - 1 : k \in 1..Len(s) /\ s[k] \in U
        /\ PastRun(s, 1, U) <= Len(s) => s[PastRun(s, 1, U)] \notin U
    BY <1>0, PastRunIs
  <2>. QED BY <2>1, <2>2
<1>2. /\ z \in 1..Len(s) + 1 /\ (\A k \in 1..z - 1 : k \in 1..Len(s) /\ s[k] = Zero)
      /\ z <= Len(s) => s[z] # Zero
  BY <1>0, PastRunIs
<1>3. a = SubSeq(s, 1, q - 1)
  BY DEF Leading
<1>4. Digits(s, 1) = SubSeq(s, z, q - 1)
  BY DEF Digits
<1>. HIDE DEF q, z, a
<1>5. z <= q
  <2>1. Zero \in Zero..57
    BY DEF Zero
  <2>. QED BY <1>0, <1>1, <1>2, <2>1
<1>6. a \in Number /\ Len(a) = q - 1 /\ \A k \in 1..q - 1 : a[k] = s[k]
  <2>1. \A k \in 1..q - 1 : s[k] \in Zero..57
    BY <1>1
  <2>2. s \in Seq(Nat) /\ q - 1 \in 1 - 1..Len(s)
    BY <1>0, <1>1 DEF String
  <2>. QED BY <1>3, <2>1, <2>2, SubSeqProperties DEF Number
<1>7. z \in 1..Len(a) + 1 /\ \A k \in 1..z - 1 : a[k] = Zero
  BY <1>1, <1>2, <1>5, <1>6
<1>8. SubSeq(s, z, q - 1) = SubSeq(a, z, Len(a))
  <2>1. q - 1 \in z - 1..Len(s)
    BY <1>0, <1>1, <1>2, <1>5
  <2>2. /\ SubSeq(s, z, q - 1) \in String /\ Len(SubSeq(s, z, q - 1)) = 1 + (q - 1) - z
        /\ \A k \in 1..1 + (q - 1) - z : SubSeq(s, z, q - 1)[k] = s[z + k - 1]
    BY <1>2, <2>1, PartIs
  <2>3. a \in String /\ Len(a) \in z - 1..Len(a)
    BY <1>1, <1>2, <1>5, <1>6, NumberIs
  <2>4. /\ SubSeq(a, z, Len(a)) \in String /\ Len(SubSeq(a, z, Len(a))) = 1 + Len(a) - z
        /\ \A k \in 1..1 + Len(a) - z : SubSeq(a, z, Len(a))[k] = a[z + k - 1]
    BY <1>7, <2>3, PartIs
  <2>5. \A k \in 1..1 + Len(a) - z : z + k - 1 \in 1..q - 1
    BY <1>1, <1>2, <1>6
  <2>6. Len(SubSeq(s, z, q - 1)) = Len(SubSeq(a, z, Len(a)))
    BY <1>6, <2>2, <2>4
  <2>7. \A k \in 1..Len(SubSeq(s, z, q - 1)) : SubSeq(s, z, q - 1)[k] = SubSeq(a, z, Len(a))[k]
    BY <1>6, <2>2, <2>4, <2>5
  <2>. QED BY <2>2, <2>4, <2>6, <2>7, SameBytes
<1>. DEFINE r == SubSeq(a, z, Len(a))
<1>9. /\ r \in Number /\ Len(r) = Len(a) + 1 - z
      /\ \A k \in 1..Len(a) + 1 - z : r[k] = a[z + k - 1]
      /\ \A v, w : Reads(a, v) /\ Reads(r, w) => w[Len(a) + 1 - z] = v[Len(a)]
  <2>1. \A v : Reads(a, v) =>
           /\ r \in Number /\ Len(r) = Len(a) + 1 - z
           /\ \A k \in 1..Len(a) + 1 - z : r[k] = a[z + k - 1]
           /\ \A w : Reads(r, w) => w[Len(a) + 1 - z] = v[Len(a)]
    BY <1>6, <1>7, ReadsPart
  <2>2. \E v : Reads(a, v)
    BY <1>6, ReadsIs
  <2>. QED BY <2>1, <2>2
<1>10. r # << >> => r[1] # Zero
  <2>1. ASSUME r # << >> PROVE r[1] # Zero
    <3>1. Len(r) # 0 /\ Len(r) \in Nat
      BY <1>9, <2>1 DEF Number
    <3>2. 1 \in 1..Len(a) + 1 - z /\ z + 1 - 1 = z /\ z \in 1..q - 1 /\ z <= Len(s)
      BY <1>1, <1>2, <1>6, <1>9, <3>1
    <3>3. r[1] = a[z] /\ a[z] = s[z]
      BY <1>6, <1>9, <3>2
    <3>. QED BY <1>2, <3>2, <3>3
  <2>. QED BY <2>1
<1>. HIDE DEF r
<1>11. Digits(s, 1) = r
  BY <1>4, <1>8 DEF r
<1>. QED BY <1>6, <1>9, <1>10, <1>11 DEF a, q

\* LEMMA: what a name that starts with digits has for its number.
LEMMA PrefixIs ==
    ASSUME NEW s \in String, NEW v, Reads(Leading(s), v)
    PROVE  /\ Leading(s) = << >> => Prefix(s) = None
           /\ v[Len(Leading(s))] > MaxPrefix => Prefix(s) = None
           /\ Leading(s) # << >> /\ v[Len(Leading(s))] <= MaxPrefix =>
                 Prefix(s) = <<v[Len(Leading(s))], Len(Leading(s))>>
<1>. DEFINE a == Leading(s)
            Step(m, c) == IF m > MaxPrefix THEN m ELSE 10 * m + (c - Zero)
            IsScan(u) == u = [k \in 0..Len(a) |-> IF k = 0 THEN 0 ELSE Step(u[k - 1], a[k])]
            upto == CHOOSE u : IsScan(u)
<1>0. a \in Number /\ Len(a) \in Nat
  BY LeadingIs, NumberIs
<1>1. Prefix(s) = IF a = << >> \/ upto[Len(a)] > MaxPrefix THEN None
                  ELSE <<upto[Len(a)], Len(a)>>
  BY DEF Prefix, Leading, Scan
<1>. HIDE DEF a
<1>2. \E u : IsScan(u)
  <2>0. PICK n \in Nat : n = Len(a)
    BY <1>0
  <2>. DEFINE g == [k \in 1..n |-> [m \in Nat |-> Step(m, a[k])]]
  <2>1. \A k \in 1..n : a[k] - Zero \in Nat
    BY <1>0, <2>0, NumberIs
  <2>2. \A m \in Nat, k \in 1..n : Step(m, a[k]) \in Nat
    BY <2>1, MaxPrefixAssumption
  <2>3. \A k \in 1..n : \A m \in Nat : g[k][m] = Step(m, a[k])
    OBVIOUS
  <2>. HIDE DEF g, Step
  <2>a. Steps(g, n, Nat)
    BY <2>2, <2>3 DEF Steps
  <2>4. PICK u \in [0..n -> Nat] : u[0] = 0 /\ \A k \in 1..n : u[k] = g[k][u[k - 1]]
    BY <2>a, NumberSteps
  <2>5. \A k \in 1..n : u[k - 1] \in Nat
    <3>1. \A k \in 1..n : k - 1 \in 0..n
      OBVIOUS
    <3>. QED BY <3>1
  <2>6. \A k \in 1..n : u[k] = Step(u[k - 1], a[k])
    BY <2>3, <2>4, <2>5
  <2>7. \A k \in 0..n : u[k] = IF k = 0 THEN 0 ELSE Step(u[k - 1], a[k])
    BY <2>4, <2>6
  <2>8. u = [k \in 0..n |-> u[k]]
    OBVIOUS
  <2>9. IsScan(u)
    BY <2>0, <2>7, <2>8
  <2>. QED BY <2>9
<1>3. IsScan(upto)
  <2>. HIDE DEF IsScan
  <2>. QED BY <1>2
<1>. HIDE DEF upto
<1>4. upto[0] = 0 /\ \A k \in 1..Len(a) : upto[k] = Step(upto[k - 1], a[k])
  BY <1>0, <1>3
<1>5. Reads(a, v)
  BY DEF a
<1>. DEFINE Tells(m) == \/ upto[m] = v[m] /\ v[m] <= MaxPrefix
                        \/ upto[m] > MaxPrefix /\ v[m] > MaxPrefix /\ upto[m] \in Nat
            Told == {m \in Nat : m <= Len(a) => Tells(m)}
<1>6. 0 \in Told
  BY <1>4, <1>5, MaxPrefixAssumption DEF Reads
<1>7. ASSUME NEW m \in Nat, m \in Told PROVE m + 1 \in Told
  <2>1. CASE m + 1 <= Len(a)
    <3>1. PICK k \in 1..Len(a) : k = m + 1
      BY <1>0, <2>1
    <3>2. k - 1 = m /\ m \in 0..Len(a)
      BY <1>0, <3>1
    <3>3. upto[k] = Step(upto[m], a[k]) /\ v[k] = 10 * v[m] + (a[k] - Zero)
      BY <1>4, <1>5, <3>2 DEF Reads
    <3>4. v[m] \in Nat /\ a[k] - Zero \in Nat /\ Tells(m)
      BY <1>0, <1>5, <1>7, <3>1, <3>2, NumberIs
    <3>5. v[m] <= v[k] /\ v[k] \in Nat
      <4>1. v[m] <= 10 * v[m] /\ 10 * v[m] \in Nat
        BY <3>4
      <4>. QED BY <3>3, <3>4, <4>1
    <3>6. Tells(k)
      <4>1. CASE upto[m] = v[m] /\ v[m] <= MaxPrefix
        <5>1. upto[k] = v[k]
          BY <3>3, <3>4, <4>1, MaxPrefixAssumption
        <5>. QED BY <3>5, <5>1, MaxPrefixAssumption
      <4>2. CASE upto[m] > MaxPrefix /\ v[m] > MaxPrefix /\ upto[m] \in Nat
        <5>1. upto[k] = upto[m]
          BY <3>3, <4>2
        <5>. QED BY <3>4, <3>5, <4>2, <5>1, MaxPrefixAssumption
      <4>. QED BY <3>4, <4>1, <4>2
    <3>. HIDE DEF Tells
    <3>. QED BY <3>1, <3>6
  <2>2. m + 1 \in Nat
    OBVIOUS
  <2>. HIDE DEF Tells
  <2>. QED BY <1>0, <2>1, <2>2
<1>8. Len(a) \in Told
  <2>. HIDE DEF Told
  <2>. QED BY <1>0, <1>6, <1>7, Induction
<1>9. v[Len(a)] \in Nat
  BY <1>0, <1>5, NumberIs
<1>10. Tells(Len(a))
  BY <1>0, <1>8
<1>. QED BY <1>1, <1>9, <1>10, MaxPrefixAssumption DEF a

\* LEMMA: one digit more.
LEMMA ReadsAppend ==
    ASSUME NEW a \in Number, NEW d \in 0..9, NEW v, Reads(a, v)
    PROVE  /\ a \o <<Zero + d>> \in Number /\ Len(a \o <<Zero + d>>) = Len(a) + 1
           /\ \A w : Reads(a \o <<Zero + d>>, w) => w[Len(a) + 1] = 10 * v[Len(a)] + d
<1>. DEFINE b == a \o <<Zero + d>>
<1>0. Len(a) \in Nat /\ Zero + d \in Zero..57 /\ Zero + d - Zero = d
  BY NumberIs DEF Zero
<1>1. /\ b \in Number /\ Len(b) = Len(a) + 1
      /\ (\A k \in 1..Len(a) : b[k] = a[k]) /\ b[Len(a) + 1] = Zero + d
  <2>1. PICK c \in Zero..57 : c = Zero + d
    BY <1>0
  <2>2. PICK D : D = Zero..57
    OBVIOUS
  <2>3. a \in Seq(D) /\ c \in D
    BY <2>2 DEF Number
  <2>4. /\ a \o <<c>> \in Seq(D) /\ Len(a \o <<c>>) = Len(a) + 1
        /\ (\A k \in 1..Len(a) : (a \o <<c>>)[k] = a[k]) /\ (a \o <<c>>)[Len(a) + 1] = c
    BY <2>3
  <2>. QED BY <2>1, <2>2, <2>4 DEF Number
<1>. HIDE DEF b
<1>2. ASSUME NEW w, Reads(b, w) PROVE w[Len(a) + 1] = 10 * v[Len(a)] + d
  <2>1. PICK x : x = [k \in 0..Len(a) |-> w[k]]
    OBVIOUS
  <2>2. \A k \in 0..Len(a) : x[k] = w[k] /\ k \in 0..Len(b)
    BY <1>0, <1>1, <2>1
  <2>3. x \in [0..Len(a) -> Nat]
    <3>1. \A k \in 0..Len(b) : w[k] \in Nat
      BY <1>1, <1>2, NumberIs
    <3>. QED BY <2>1, <2>2, <3>1
  <2>4. \A k \in 1..Len(a) : k \in 1..Len(b) /\ k \in 0..Len(a) /\ k - 1 \in 0..Len(a)
    BY <1>0, <1>1
  <2>5. \A k \in 1..Len(b) : w[k] = 10 * w[k - 1] + (b[k] - Zero)
    BY <1>2 DEF Reads
  <2>6. \A k \in 1..Len(a) : w[k] = 10 * w[k - 1] + (a[k] - Zero)
    BY <1>1, <2>4, <2>5
  <2>7. \A k \in 1..Len(a) : x[k] = 10 * x[k - 1] + (a[k] - Zero)
    BY <2>2, <2>4, <2>6
  <2>8. x[0] = 0
    BY <1>0, <1>2, <2>2 DEF Reads
  <2>9. Reads(a, x)
    BY <2>3, <2>7, <2>8 DEF Reads
  <2>10. x[Len(a)] = v[Len(a)] /\ x[Len(a)] = w[Len(a)]
    BY <1>0, <2>2, <2>9, ReadsIs
  <2>11. Len(a) + 1 \in 1..Len(b) /\ Len(a) + 1 - 1 = Len(a)
    BY <1>0, <1>1
  <2>12. w[Len(a) + 1] = 10 * w[Len(a)] + (b[Len(a) + 1] - Zero)
    BY <2>5, <2>11
  <2>13. b[Len(a) + 1] - Zero = d
    <3>1. b[Len(a) + 1] = Zero + d
      BY <1>1
    <3>. QED BY <3>1 DEF Zero
  <2>14. w[Len(a)] = v[Len(a)]
    BY <2>10
  <2>. QED BY <2>12, <2>13, <2>14
<1>. QED BY <1>1, <1>2 DEF b

\* LEMMA: a number is written in digits that have its value, however wide.
LEMMA PaddedIs ==
    ASSUME NEW n \in Nat, NEW width \in Int
    PROVE  /\ Padded(n, width) \in Number /\ Padded(n, width) # << >>
           /\ \E v : Reads(Padded(n, width), v) /\ v[Len(Padded(n, width))] = n
<1>. DEFINE Body(f, k) == IF k < 10 THEN <<Zero + k>> ELSE f[k \div 10] \o <<Zero + (k % 10)>>
            IsSpelt(f) == f = [k \in 0..n |-> Body(f, k)]
            spelt == CHOOSE f : IsSpelt(f)
            Upto(f, m) == \A k \in 0..n : k < m => f[k] = Body(f, k)
            Known == {m \in Nat : \E f : Upto(f, m)}
<1>0. \A k \in Nat : /\ k >= 10 => k \div 10 \in Nat /\ k \div 10 < k
                     /\ k % 10 \in 0..9 /\ k = 10 * (k \div 10) + (k % 10)
  OBVIOUS
<1>1. 0 \in Known
  OBVIOUS
<1>2. ASSUME NEW m \in Nat, m \in Known PROVE m + 1 \in Known
  <2>1. PICK f : Upto(f, m)
    BY <1>2
  <2>. DEFINE g == [k \in 0..n |-> IF k < m THEN f[k] ELSE Body(f, k)]
  <2>2. ASSUME NEW k \in 0..n, k < m + 1 PROVE g[k] = Body(g, k)
    <3>1. CASE k < 10
      <4>1. Body(g, k) = <<Zero + k>> /\ Body(f, k) = <<Zero + k>>
        BY <3>1
      <4>. QED BY <2>1, <4>1
    <3>2. CASE k >= 10
      <4>1. k \div 10 \in 0..n /\ k \div 10 < m /\ k \div 10 < k
        BY <1>0, <2>2, <3>2
      <4>2. g[k \div 10] = f[k \div 10]
        BY <4>1
      <4>3. Body(g, k) = Body(f, k)
        BY <3>2, <4>2
      <4>4. k < m => f[k] = Body(f, k)
        BY <2>1
      <4>. HIDE DEF Body
      <4>. QED BY <4>3, <4>4
    <3>. QED BY <3>1, <3>2
  <2>. HIDE DEF g, Body
  <2>3. \E h : Upto(h, m + 1)
    BY <2>2
  <2>4. m + 1 \in Nat
    OBVIOUS
  <2>. HIDE DEF Upto
  <2>. QED BY <2>3, <2>4, Zenon
<1>3. IsSpelt(spelt)
  <2>1. n + 1 \in Known
    <3>. HIDE DEF Known
    <3>. QED BY <1>1, <1>2, Induction
  <2>2. PICK f : Upto(f, n + 1)
    BY <2>1
  <2>. DEFINE g == [k \in 0..n |-> f[k]]
  <2>3. ASSUME NEW k \in 0..n PROVE f[k] = Body(g, k)
    <3>1. f[k] = Body(f, k)
      BY <2>2
    <3>2. CASE k < 10
      BY <3>1, <3>2
    <3>3. CASE k >= 10
      <4>1. k \div 10 \in 0..n
        BY <1>0, <3>3
      <4>2. g[k \div 10] = f[k \div 10]
        BY <4>1
      <4>. QED BY <3>1, <3>3, <4>2
    <3>. QED BY <3>2, <3>3
  <2>4. IsSpelt(g)
    <3>. HIDE DEF Body
    <3>. QED BY <2>3
  <2>. HIDE DEF g, IsSpelt
  <2>. QED BY <2>4
<1>8. Padded(n, width) = [i \in 1..width - Len(spelt[n]) |-> Zero] \o spelt[n]
  BY DEF Padded
<1>. HIDE DEF spelt
<1>4. /\ \A k \in 0..n : k < 10 => spelt[k] = <<Zero + k>>
      /\ \A k \in 0..n : k >= 10 => spelt[k] = spelt[k \div 10] \o <<Zero + (k % 10)>>
  <2>1. \A k \in 0..n : spelt[k] = Body(spelt, k)
    <3>. HIDE DEF Body
    <3>. QED BY <1>3
  <2>2. \A k \in 0..n : k >= 10 => ~(k < 10)
    OBVIOUS
  <2>. QED BY <2>1, <2>2, Zenon
<1>. DEFINE Right(k) == /\ spelt[k] \in Number /\ spelt[k] # << >>
                        /\ \A v : Reads(spelt[k], v) => v[Len(spelt[k])] = k
            Shown == {m \in Nat : \A k \in 0..n : k < m => Right(k)}
<1>5. 0 \in Shown
  OBVIOUS
<1>6. ASSUME NEW m \in Nat, m \in Shown PROVE m + 1 \in Shown
  <2>1. ASSUME NEW k \in 0..n, k < m + 1 PROVE Right(k)
    <3>1. CASE k < 10
      <4>1. spelt[k] = <<Zero + k>> /\ k \in 0..9
        BY <1>4, <3>1
      <4>2. << >> \in Number /\ Len(<< >>) = 0 /\ << >> \o <<Zero + k>> = <<Zero + k>>
        BY DEF Number
      <4>3. PICK v : Reads(<< >>, v)
        BY <4>2, ReadsIs
      <4>4. v[0] = 0
        BY <4>3 DEF Reads
      <4>5. PICK a \in Number : a = << >>
        BY <4>2
      <4>6. PICK d \in 0..9 : d = k
        BY <4>1
      <4>7. /\ a \o <<Zero + d>> \in Number /\ Len(a \o <<Zero + d>>) = Len(a) + 1
            /\ \A w : Reads(a \o <<Zero + d>>, w) => w[Len(a) + 1] = 10 * v[Len(a)] + d
        BY <4>3, <4>5, ReadsAppend
      <4>8. spelt[k] = a \o <<Zero + d>> /\ Len(a) = 0
        BY <4>1, <4>2, <4>5, <4>6
      <4>9. spelt[k] # << >> /\ 10 * v[Len(a)] + d = k
        BY <4>4, <4>7, <4>8, <4>6
      <4>. HIDE DEF Right
      <4>10. /\ spelt[k] \in Number /\ spelt[k] # << >>
             /\ \A w : Reads(spelt[k], w) => w[Len(spelt[k])] = k
        BY <4>7, <4>8, <4>9
      <4>. QED BY <4>10 DEF Right
    <3>2. CASE k >= 10
      <4>1. k \div 10 \in 0..n /\ k \div 10 < m /\ k % 10 \in 0..9
        BY <1>0, <2>1, <3>2
      <4>2. spelt[k] = spelt[k \div 10] \o <<Zero + (k % 10)>>
        BY <1>4, <3>2
      <4>3. Right(k \div 10)
        BY <1>6, <4>1
      <4>4. PICK a \in Number : a = spelt[k \div 10]
        BY <4>3
      <4>5. PICK v : Reads(a, v)
        BY ReadsIs
      <4>6. v[Len(a)] = k \div 10
        BY <4>3, <4>4, <4>5
      <4>7. PICK d \in 0..9 : d = k % 10
        BY <4>1
      <4>8. /\ a \o <<Zero + d>> \in Number /\ Len(a \o <<Zero + d>>) = Len(a) + 1
            /\ \A w : Reads(a \o <<Zero + d>>, w) => w[Len(a) + 1] = 10 * v[Len(a)] + d
        BY <4>5, ReadsAppend
      <4>9. 10 * v[Len(a)] + d = k
        BY <1>0, <4>6, <4>7
      <4>10. spelt[k] = a \o <<Zero + d>>
        BY <4>2, <4>4, <4>7
      <4>11. a \o <<Zero + d>> # << >>
        <5>1. Len(a) \in Nat
          BY NumberIs
        <5>. QED BY <4>8, <5>1
      <4>. HIDE DEF Right
      <4>12. /\ spelt[k] \in Number /\ spelt[k] # << >>
             /\ \A w : Reads(spelt[k], w) => w[Len(spelt[k])] = k
        BY <4>8, <4>9, <4>10, <4>11
      <4>. QED BY <4>12 DEF Right
    <3>. QED BY <3>1, <3>2
  <2>. HIDE DEF Right
  <2>. QED BY <2>1
<1>7. Right(n)
  <2>1. n + 1 \in Nat /\ n \in 0..n /\ n < n + 1
    OBVIOUS
  <2>2. n + 1 \in Shown
    <3>. HIDE DEF Shown
    <3>. QED BY <1>5, <1>6, <2>1, Induction
  <2>. HIDE DEF Right
  <2>. QED BY <2>1, <2>2
<1>. DEFINE t == spelt[n]
            short == width - Len(t)
            z == [i \in 1..short |-> Zero]
            b == z \o t
<1>a. Padded(n, width) = b
  BY <1>8
<1>9. t \in Number /\ t # << >> /\ Len(t) \in Nat /\ t \in String /\ Len(t) # 0
  BY <1>7, NumberIs
<1>10. PICK l \in Nat : l = IF short > 0 THEN short ELSE 0
  <2>1. PICK m \in Int : m = short
    <3>1. PICK k \in Nat : k = Len(t)
      BY <1>9
    <3>2. width - k \in Int
      OBVIOUS
    <3>. QED BY <3>1, <3>2
  <2>2. (IF m > 0 THEN m ELSE 0) \in Nat
    OBVIOUS
  <2>. QED BY <2>1, <2>2
<1>11. z \in Number /\ Len(z) = l /\ \A k \in 1..l : z[k] = Zero
  <2>1. 1..short = 1..l /\ short \in Int
    BY <1>9, <1>10
  <2>2. Zero \in Zero..57
    BY DEF Zero
  <2>3. z = [i \in 1..l |-> Zero]
    BY <2>1
  <2>. HIDE DEF z
  <2>. QED BY <2>2, <2>3 DEF Number
<1>12. PICK w : Reads(t, w) /\ w[Len(t)] = n
  BY <1>7, <1>9, ReadsIs
<1>. HIDE DEF t, short, z
<1>13. /\ b \in Number /\ Len(b) = l + Len(t)
       /\ (\A k \in 1..l : b[k] = Zero) /\ \A k \in 1..Len(t) : b[l + k] = t[k]
  <2>1. /\ b \in Number /\ Len(b) = l + Len(t)
    BY <1>9, <1>11 DEF Number
  <2>2. \A k \in 1..l : b[k] = Zero
    BY <1>9, <1>11 DEF Number
  <2>3. \A k \in 1..Len(t) : b[l + k] = t[k]
    BY <1>9, <1>11 DEF Number
  <2>. QED BY <2>1, <2>2, <2>3
<1>. HIDE DEF b
<1>14. PICK v : Reads(b, v)
  BY <1>13, ReadsIs
<1>15. /\ SubSeq(b, l + 1, Len(b)) \in Number /\ Len(SubSeq(b, l + 1, Len(b))) = Len(t)
       /\ \A k \in 1..Len(t) : SubSeq(b, l + 1, Len(b))[k] = b[l + k]
       /\ \A x : Reads(SubSeq(b, l + 1, Len(b)), x) => x[Len(t)] = v[Len(b)]
  <2>1. PICK p \in 1..Len(b) + 1 : p = l + 1
    BY <1>9, <1>13
  <2>2. \A k \in 1..p - 1 : b[k] = Zero
    BY <1>13, <2>1
  <2>3. /\ SubSeq(b, p, Len(b)) \in Number /\ Len(SubSeq(b, p, Len(b))) = Len(b) + 1 - p
        /\ \A k \in 1..Len(b) + 1 - p : SubSeq(b, p, Len(b))[k] = b[p + k - 1]
        /\ \A x : Reads(SubSeq(b, p, Len(b)), x) => x[Len(b) + 1 - p] = v[Len(b)]
    BY <1>13, <1>14, <2>2, ReadsPart
  <2>4. Len(b) + 1 - p = Len(t) /\ \A k \in 1..Len(t) : p + k - 1 = l + k
    BY <1>9, <1>13, <2>1
  <2>. QED BY <2>1, <2>3, <2>4
<1>16. SubSeq(b, l + 1, Len(b)) = t
  <2>1. SubSeq(b, l + 1, Len(b)) \in String
    BY <1>15, NumberIs
  <2>2. \A k \in 1..Len(t) : SubSeq(b, l + 1, Len(b))[k] = t[k]
    BY <1>13, <1>15
  <2>. QED BY <1>9, <1>15, <2>1, <2>2, SameBytes
<1>17. v[Len(b)] = n
  BY <1>12, <1>15, <1>16
<1>18. b # << >>
  BY <1>9, <1>13
<1>. QED BY <1>a, <1>13, <1>14, <1>17, <1>18

--------------------------------------------------------------------------------
(* The name for the new file                                               *)

\* LEMMA: the digits a name starts with are no part of its extensions.
LEMMA StemIs ==
    ASSUME NEW s \in String, s # << >>
    PROVE  LET t == SubSeq(s, 1, FilePrefixLen(s))
           IN  /\ t \in String /\ t # << >> /\ Order(t, 1) = Order(s, 1)
               /\ Digits(t, 1) = Digits(s, 1)
<1>. DEFINE n == FilePrefixLen(s)
            t == SubSeq(s, 1, n)
            D == Zero..57
            q == PastRun(s, 1, D)
            z == PastRun(s, 1, {Zero})
<1>0. Len(s) \in Nat /\ 1 \in 1..Len(s) + 1 /\ Len(s) # 0 /\ DOMAIN s = 1..Len(s)
  BY DEF String
<1>1. n \in 1..Len(s) /\ ExtensionsFrom(s, n + 1)
  <2>1. n \in 0..Len(s) /\ (n = 0 => s = << >>) /\ ExtensionsFrom(s, n + 1)
    BY FilePrefixLenIs
  <2>. QED BY <1>0, <2>1
<1>2. /\ t \in String /\ Len(t) = n
      /\ \A k \in 1..n : t[k] = s[k]
  <2>1. n \in 1 - 1..Len(s)
    BY <1>0, <1>1
  <2>2. /\ t \in String /\ Len(t) = 1 + n - 1
        /\ \A k \in 1..1 + n - 1 : t[k] = s[1 + k - 1]
    BY <1>0, <2>1, PartIs
  <2>. HIDE DEF t, n
  <2>. QED BY <1>1, <2>2
<1>3. /\ q \in 1..Len(s) + 1 /\ (\A k \in 1..q - 1 : k \in 1..Len(s) /\ s[k] \in D)
      /\ q <= Len(s) => s[q] \notin D
  <2>. HIDE DEF D
  <2>. QED BY <1>0, PastRunIs
<1>4. /\ z \in 1..Len(s) + 1 /\ (\A k \in 1..z - 1 : k \in 1..Len(s) /\ s[k] \in {Zero})
      /\ z <= Len(s) => s[z] \notin {Zero}
  <2>1. PICK U : U = {Zero}
    OBVIOUS
  <2>2. /\ PastRun(s, 1, U) \in 1..Len(s) + 1
        /\ \A k \in 1..PastRun(s, 1, U) - 1 : k \in 1..Len(s) /\ s[k] \in U
        /\ PastRun(s, 1, U) <= Len(s) => s[PastRun(s, 1, U)] \notin U
    BY <1>0, PastRunIs
  <2>. QED BY <2>1, <2>2
<1>. HIDE DEF q, z, t, n
<1>5. z <= q
  <2>1. Zero \in D
    BY DEF Zero
  <2>. QED BY <1>0, <1>3, <1>4, <2>1
<1>6. q <= n + 1
  <2>1. SUFFICES ASSUME n + 1 <= q - 1 PROVE FALSE
    BY <1>1, <1>3
  <2>2. n + 1 \in 1..q - 1
    BY <1>1, <1>3, <2>1
  <2>3. n + 1 \in DOMAIN s /\ s[n + 1] \in Zero..57
    BY <1>0, <1>3, <2>2
  <2>. QED BY <1>1, <2>3 DEF ExtensionsFrom, Dot, Zero
<1>7. PastRun(t, 1, D) = q
  <2>1. q \in 1..Len(t) + 1 /\ \A k \in 1..q - 1 : t[k] \in D
    BY <1>1, <1>2, <1>3, <1>6
  <2>2. q <= Len(t) => t[q] \notin D
    BY <1>0, <1>1, <1>2, <1>3
  <2>. HIDE DEF D
  <2>. QED BY <1>2, <2>1, <2>2, PastRunOnly
<1>8. PastRun(t, 1, {Zero}) = z
  <2>1. PICK U : U = {Zero}
    OBVIOUS
  <2>2. z \in 1..Len(t) + 1 /\ \A k \in 1..z - 1 : t[k] \in U
    BY <1>1, <1>2, <1>3, <1>4, <1>5, <1>6, <2>1
  <2>3. z <= Len(t) => t[z] \notin U
    BY <1>0, <1>1, <1>2, <1>4, <2>1
  <2>4. PastRun(t, 1, U) = z
    BY <1>2, <2>2, <2>3, PastRunOnly
  <2>. QED BY <2>1, <2>4
<1>9. Digits(t, 1) = SubSeq(t, z, q - 1) /\ Digits(s, 1) = SubSeq(s, z, q - 1)
  BY <1>7, <1>8 DEF Digits, q, z
<1>10. SubSeq(t, z, q - 1) = SubSeq(s, z, q - 1)
  <2>1. /\ z \in 1..Len(s) + 1 /\ q - 1 \in z - 1..Len(s)
        /\ z \in 1..Len(t) + 1 /\ q - 1 \in z - 1..Len(t)
    BY <1>0, <1>1, <1>2, <1>3, <1>4, <1>5, <1>6
  <2>2. /\ SubSeq(s, z, q - 1) \in String /\ Len(SubSeq(s, z, q - 1)) = 1 + (q - 1) - z
        /\ \A k \in 1..1 + (q - 1) - z : SubSeq(s, z, q - 1)[k] = s[z + k - 1]
    BY <2>1, PartIs
  <2>3. /\ SubSeq(t, z, q - 1) \in String /\ Len(SubSeq(t, z, q - 1)) = 1 + (q - 1) - z
        /\ \A k \in 1..1 + (q - 1) - z : SubSeq(t, z, q - 1)[k] = t[z + k - 1]
    BY <1>2, <2>1, PartIs
  <2>4. \A k \in 1..1 + (q - 1) - z : z + k - 1 \in 1..n
    BY <1>1, <1>3, <1>4, <1>6
  <2>5. Len(SubSeq(t, z, q - 1)) = Len(SubSeq(s, z, q - 1))
    BY <2>2, <2>3
  <2>6. \A k \in 1..Len(SubSeq(t, z, q - 1)) : SubSeq(t, z, q - 1)[k] = SubSeq(s, z, q - 1)[k]
    BY <1>2, <2>2, <2>3, <2>4
  <2>. QED BY <2>2, <2>3, <2>5, <2>6, SameBytes
<1>11. Order(t, 1) = Order(s, 1) /\ t # << >>
  <2>1. ~(1 > Len(t)) /\ ~(1 > Len(s)) /\ t[1] = s[1]
    BY <1>0, <1>1, <1>2
  <2>2. t # << >>
    BY <1>1, <1>2
  <2>. QED BY <2>1, <2>2 DEF Order
<1>. QED BY <1>2, <1>9, <1>10, <1>11 DEF t, n

\* LEMMA: a number with the new file's suffix sorts ahead of a name that
\* starts with a larger one, and of one that starts with neither digit nor `~`.
LEMMA AheadByNumber ==
    ASSUME NEW a \in Number, a # << >>, NEW v, Reads(a, v),
           NEW s \in String, s # << >>, NEW w, Reads(Leading(s), w),
           \/ Leading(s) # << >> /\ v[Len(a)] < w[Len(Leading(s))]
           \/ Leading(s) = << >> /\ s[1] # Tilde
    PROVE  a \o NewSuffix \in String /\ Before(a \o NewSuffix, s)
<1>. DEFINE r == a \o NewSuffix
            D == Zero..57
<1>0. Len(a) \in Nat /\ a \in String /\ Len(a) # 0 /\ \A k \in 1..Len(a) : a[k] \in D /\ a[k] \in Nat
  <2>1. Len(a) \in Nat /\ a \in String /\ \A k \in 1..Len(a) : a[k] \in D /\ a[k] \in Nat
    BY NumberIs
  <2>. QED BY <2>1 DEF Number
<1>1. NewSuffix \in String /\ Len(NewSuffix) = 18 /\ NewSuffix[1] = 45
  BY DEF NewSuffix, RulesSuffix, String
<1>2. /\ r \in String /\ Len(r) = Len(a) + 18
      /\ (\A k \in 1..Len(a) : r[k] = a[k]) /\ r[Len(a) + 1] = 45
  <2>1. PICK n \in Seq(Nat) : n = NewSuffix
    BY <1>1 DEF String
  <2>2. a \in Seq(Nat) /\ Len(n) = 18 /\ n[1] = 45
    BY <1>0, <1>1, <2>1 DEF String
  <2>3. /\ a \o n \in Seq(Nat) /\ Len(a \o n) = Len(a) + Len(n)
        /\ \A k \in 1..Len(a) + Len(n) :
              (a \o n)[k] = IF k <= Len(a) THEN a[k] ELSE n[k - Len(a)]
    <3>1. \A x, y \in Seq(Nat) :
             /\ x \o y \in Seq(Nat) /\ Len(x \o y) = Len(x) + Len(y)
             /\ \A k \in 1..Len(x) + Len(y) :
                   (x \o y)[k] = IF k <= Len(x) THEN x[k] ELSE y[k - Len(x)]
      OBVIOUS
    <3>. QED BY <2>2, <3>1, Zenon
  <2>4. \A k \in 1..Len(a) : (a \o n)[k] = a[k]
    BY <1>0, <2>2, <2>3
  <2>5. (a \o n)[Len(a) + 1] = n[1]
    BY <1>0, <2>2, <2>3
  <2>. QED BY <2>1, <2>2, <2>3, <2>4, <2>5 DEF String
<1>. HIDE DEF r
<1>3. PastRun(r, 1, D) = Len(a) + 1
  <2>1. Len(a) + 1 \in 1..Len(r) + 1 /\ \A k \in 1..Len(a) + 1 - 1 : r[k] \in D
    BY <1>0, <1>2
  <2>2. r[Len(a) + 1] \notin D
    BY <1>2 DEF Zero
  <2>. HIDE DEF D
  <2>3. PICK p \in 1..Len(r) + 1 : p = Len(a) + 1
    BY <2>1
  <2>4. PastRun(r, 1, D) = p
    BY <1>2, <2>1, <2>2, <2>3, PastRunOnly
  <2>. QED BY <2>3, <2>4
<1>4. Leading(r) = a
  <2>1. Leading(r) \in Number /\ Len(Leading(r)) = Len(a) + 1 - 1
    BY <1>2, <1>3, LeadingIs
  <2>2. Leading(r) = SubSeq(r, 1, Len(a))
    <3>1. Leading(r) = SubSeq(r, 1, Len(a) + 1 - 1)
      BY <1>3 DEF Leading
    <3>. QED BY <1>0, <3>1
  <2>3. 1 \in 1..Len(r) + 1 /\ Len(a) \in 1 - 1..Len(r)
    BY <1>0, <1>2
  <2>4. \A k \in 1..1 + Len(a) - 1 : SubSeq(r, 1, Len(a))[k] = r[1 + k - 1]
    BY <1>2, <2>3, PartIs
  <2>5. \A k \in 1..Len(a) : SubSeq(r, 1, Len(a))[k] = a[k]
    BY <1>0, <1>2, <2>4
  <2>6. Leading(r) \in String /\ Len(Leading(r)) = Len(a)
    BY <1>0, <2>1, NumberIs
  <2>. QED BY <1>0, <2>2, <2>5, <2>6, SameBytes
<1>5. r # << >>
  BY <1>0, <1>2
<1>. DEFINE rt == SubSeq(r, 1, FilePrefixLen(r))
            st == SubSeq(s, 1, FilePrefixLen(s))
<1>6. rt \in String /\ rt # << >> /\ Order(rt, 1) = Order(r, 1) /\ Digits(rt, 1) = Digits(r, 1)
  BY <1>2, <1>5, StemIs
<1>7. st \in String /\ st # << >> /\ Order(st, 1) = Order(s, 1) /\ Digits(st, 1) = Digits(s, 1)
  BY StemIs
<1>8. Filevercmp(r, s) = IF Verrevcmp(rt, st) # 0 THEN Verrevcmp(rt, st) ELSE Verrevcmp(r, s)
  BY <1>5 DEF Filevercmp
<1>. HIDE DEF rt, st
<1>9. PICK c : Compares(rt, st, c) /\ Verrevcmp(rt, st) = c[<<1, 1>>]
  BY <1>6, <1>7, VerrevcmpIs
<1>10. ComparedAt(rt, st, c, 1, 1)
  <2>1. 1 \in 1..Len(rt) + 1 /\ 1 \in 1..Len(st) + 1
    BY <1>6, <1>7 DEF String
  <2>. QED BY <1>6, <1>7, <1>9, <2>1, ComparesBy
<1>11. Rank(rt, 1) = EndRank
  <2>1. 1 \in 1..Len(r) + 1 /\ 1 <= Len(r) /\ r[1] \in Zero..57
    BY <1>0, <1>2
  <2>2. Order(r, 1) = DigitRank
    BY <1>2, <2>1, OrderIs
  <2>. QED BY <1>6, <2>2 DEF Rank
<1>12. /\ 1 \in 1..Len(s) + 1 /\ 1 <= Len(s) /\ Len(s) \in Nat /\ s[1] \in Nat
  BY DEF String
<1>13. Leading(s) # << >> <=> s[1] \in D
  <2>1. /\ PastRun(s, 1, D) \in 1..Len(s) + 1
        /\ \A k \in 1..PastRun(s, 1, D) - 1 : s[k] \in D
        /\ PastRun(s, 1, D) <= Len(s) => s[PastRun(s, 1, D)] \notin D
    <3>. HIDE DEF D
    <3>. QED BY <1>12, PastRunIs
  <2>2. Len(Leading(s)) = PastRun(s, 1, D) - 1 /\ Leading(s) \in Number
    BY LeadingIs
  <2>3. Leading(s) = << >> <=> PastRun(s, 1, D) = 1
    BY <2>1, <2>2 DEF Number
  <2>. HIDE DEF D
  <2>4. PastRun(s, 1, D) = 1 => s[1] \notin D
    BY <1>12, <2>1
  <2>5. PastRun(s, 1, D) # 1 => s[1] \in D
    BY <1>12, <2>1
  <2>. QED BY <2>3, <2>4, <2>5
<1>14. Verrevcmp(rt, st) = -1
  <2>1. CASE Leading(s) # << >>
    <3>1. v[Len(a)] < w[Len(Leading(s))]
      BY <2>1
    <3>2. Rank(st, 1) = EndRank
      <4>1. Order(s, 1) = DigitRank
        BY <1>12, <1>13, <2>1, OrderIs
      <4>. QED BY <1>7, <4>1 DEF Rank
    <3>3. Digits(r, 1) # Digits(s, 1) => c[<<1, 1>>] = ByNumber(Digits(r, 1), Digits(s, 1))
      BY <1>6, <1>7, <1>10, <1>11, <3>2 DEF ComparedAt
    <3>4. /\ Digits(r, 1) \in Number /\ (Digits(r, 1) # << >> => Digits(r, 1)[1] # Zero)
          /\ \A x, y : Reads(Leading(r), x) /\ Reads(Digits(r, 1), y) =>
                x[Len(Leading(r))] = y[Len(Digits(r, 1))]
      BY <1>2, LeadingIs
    <3>5. /\ Digits(s, 1) \in Number /\ (Digits(s, 1) # << >> => Digits(s, 1)[1] # Zero)
          /\ \A x, y : Reads(Leading(s), x) /\ Reads(Digits(s, 1), y) =>
                x[Len(Leading(s))] = y[Len(Digits(s, 1))]
      BY LeadingIs
    <3>6. PICK x : Reads(Digits(r, 1), x)
      BY <3>4, ReadsIs
    <3>7. PICK y : Reads(Digits(s, 1), y)
      BY <3>5, ReadsIs
    <3>8. x[Len(Digits(r, 1))] = v[Len(a)] /\ y[Len(Digits(s, 1))] = w[Len(Leading(s))]
      BY <1>4, <3>4, <3>5, <3>6, <3>7
    <3>9. ByNumber(Digits(r, 1), Digits(s, 1)) = -1
      BY <3>1, <3>4, <3>5, <3>6, <3>7, <3>8, ByNumberReads
    <3>10. Digits(r, 1) # Digits(s, 1)
      <4>1. ByNumber(Digits(s, 1), Digits(s, 1)) = 0
        BY <3>5, NumberIs, NumberOrder
      <4>. QED BY <3>9, <4>1
    <3>. QED BY <1>9, <3>3, <3>9, <3>10
  <2>2. CASE Leading(s) = << >>
    <3>1. s[1] # Tilde /\ ~IsDigit(s[1]) /\ ~(1 > Len(s))
      BY <1>12, <1>13, <2>2 DEF IsDigit
    <3>2. Order(s, 1) = s[1] + 256 \/ Order(s, 1) = s[1] + 512
      BY <1>12, <3>1 DEF Order
    <3>3. Rank(st, 1) = Order(s, 1) /\ Order(s, 1) \in Nat /\ Order(s, 1) > 1
      BY <1>7, <1>12, <3>2 DEF Rank, DigitRank
    <3>4. Rank(rt, 1) # Rank(st, 1) /\ Sign(Rank(rt, 1), Rank(st, 1)) = -1
      BY <1>11, <3>3 DEF EndRank, Sign
    <3>. QED BY <1>9, <1>10, <3>4 DEF ComparedAt
  <2>. QED BY <2>1, <2>2
<1>15. Filevercmp(r, s) = -1
  BY <1>8, <1>14
<1>. QED BY <1>2, <1>15 DEF Before, r

\* LEMMA: the number of a name, when it has one, is at most the bound.
LEMMA PrefixIn ==
    ASSUME NEW s \in String
    PROVE  Prefix(s) = None \/ Prefix(s) \in (0..MaxPrefix) \X Nat
<1>1. Leading(s) \in Number /\ Len(Leading(s)) \in Nat
  BY LeadingIs, NumberIs
<1>2. PICK v : Reads(Leading(s), v)
  BY <1>1, ReadsIs
<1>3. v[Len(Leading(s))] \in Nat
  BY <1>1, <1>2, NumberIs
<1>. QED BY <1>1, <1>2, <1>3, PrefixIs, MaxPrefixAssumption

\* LEMMA: a listing's numbers, if it has any, have a largest.
LEMMA LargestIs ==
    ASSUME NEW n \in Nat, NEW f, \A k \in 1..n : f[k] = None \/ f[k] \in (0..MaxPrefix) \X Nat,
           \E k \in 1..n : f[k] # None
    PROVE  \E p \in {f[k] : k \in 1..n} \ {None} : \A q \in {f[k] : k \in 1..n} \ {None} : Larger(p, q)
<1>. DEFINE A(m) == {f[k] : k \in {l \in 1..n : l <= m}} \ {None}
            Has(m) == A(m) = {} \/ \E p \in A(m) : \A q \in A(m) : Larger(p, q)
            Known == {m \in Nat : Has(m)}
<1>0. /\ \A p, q \in Nat \X Nat : Larger(p, q) \/ Larger(q, p)
      /\ \A p, q, r \in Nat \X Nat : Larger(p, q) /\ Larger(q, r) => Larger(p, r)
  <2>1. ASSUME NEW p \in Nat \X Nat, NEW q \in Nat \X Nat PROVE Larger(p, q) \/ Larger(q, p)
    <3>1. p[1] \in Nat /\ p[2] \in Nat /\ q[1] \in Nat /\ q[2] \in Nat
      OBVIOUS
    <3>. QED BY <3>1 DEF Larger
  <2>2. ASSUME NEW p \in Nat \X Nat, NEW q \in Nat \X Nat, NEW r \in Nat \X Nat,
               Larger(p, q), Larger(q, r)
        PROVE  Larger(p, r)
    <3>1. /\ p[1] \in Nat /\ p[2] \in Nat /\ q[1] \in Nat /\ q[2] \in Nat
          /\ r[1] \in Nat /\ r[2] \in Nat
      OBVIOUS
    <3>. QED BY <2>2, <3>1 DEF Larger
  <2>. QED BY <2>1, <2>2
<1>a. \A m \in Nat : A(m) \subseteq Nat \X Nat
  BY MaxPrefixAssumption
<1>1. 0 \in Known
  OBVIOUS
<1>2. ASSUME NEW m \in Nat, m \in Known PROVE m + 1 \in Known
  <2>1. CASE m + 1 > n \/ f[m + 1] = None
    <3>1. A(m + 1) = A(m)
      BY <2>1
    <3>2. Has(m)
      BY <1>2
    <3>3. Has(m + 1)
      <4>. HIDE DEF A
      <4>. QED BY <3>1, <3>2
    <3>4. m + 1 \in Nat
      OBVIOUS
    <3>. HIDE DEF Has
    <3>. QED BY <3>3, <3>4
  <2>2. CASE m + 1 <= n /\ f[m + 1] # None
    <3>. DEFINE x == f[m + 1]
    <3>1. A(m + 1) = A(m) \cup {x}
      BY <2>2
    <3>2. x \in Nat \X Nat /\ m + 1 \in Nat
      BY <2>2, MaxPrefixAssumption
    <3>3. A(m) \subseteq Nat \X Nat /\ Has(m)
      BY <1>2, <1>a
    <3>. HIDE DEF A, x
    <3>4. Larger(x, x)
      BY <1>0, <3>2
    <3>5. CASE A(m) = {}
      <4>1. Has(m + 1)
        BY <3>1, <3>4, <3>5
      <4>. HIDE DEF Has
      <4>. QED BY <3>2, <4>1
    <3>6. CASE A(m) # {}
      <4>1. PICK p \in A(m) : \A q \in A(m) : Larger(p, q)
        BY <3>3, <3>6
      <4>2. CASE Larger(p, x)
        <5>1. p \in A(m + 1) /\ \A q \in A(m + 1) : Larger(p, q)
          BY <3>1, <4>1, <4>2
        <5>2. Has(m + 1)
          BY <5>1
        <5>. HIDE DEF Has
        <5>. QED BY <3>2, <5>2
      <4>3. CASE ~Larger(p, x)
        <5>1. Larger(x, p)
          BY <1>0, <3>2, <3>3, <4>3
        <5>2. \A q \in A(m) : Larger(x, q)
          BY <1>0, <3>2, <3>3, <4>1, <5>1
        <5>3. x \in A(m + 1) /\ \A q \in A(m + 1) : Larger(x, q)
          BY <3>1, <3>4, <5>2
        <5>4. Has(m + 1)
          BY <5>3
        <5>. HIDE DEF Has
        <5>. QED BY <3>2, <5>4
      <4>. QED BY <4>2, <4>3
    <3>. QED BY <3>5, <3>6
  <2>. QED BY <2>1, <2>2
<1>3. n \in Known
  <2>. HIDE DEF Known
  <2>. QED BY <1>1, <1>2, Induction
<1>4. A(n) = {f[k] : k \in 1..n} \ {None} /\ A(n) # {}
  OBVIOUS
<1>. HIDE DEF A
<1>. QED BY <1>3, <1>4

\* LEMMA: what a sequence ends in is a suffix of it.
LEMMA EndsIn ==
    ASSUME NEW s \in String, NEW t \in String, NEW m \in Nat, Len(t) = m + Len(s),
           \A i \in 1..Len(s) : t[m + i] = s[i]
    PROVE  IsSuffix(s, t)
<1>1. PICK n \in Nat : n = Len(s)
  BY DEF String
<1>2. t \in Seq(Nat) /\ Len(t) = m + n /\ \A i \in 1..n : t[m + i] = s[i]
  BY <1>1 DEF String
<1>3. PICK r : r = Reverse(s)
  OBVIOUS
<1>4. PICK q : q = Reverse(t)
  OBVIOUS
<1>5. Len(r) = n /\ r \in Seq(Nat) /\ \A i \in 1..n : r[i] = s[(n - i) + 1]
  <2>1. s \in Seq(Nat) /\ Len(s) = n
    BY <1>1 DEF String
  <2>. QED BY <1>3, <2>1 DEF Reverse
<1>6. Len(q) = m + n /\ q \in Seq(Nat) /\ \A i \in 1..m + n : q[i] = t[((m + n) - i) + 1]
  <2>1. q = [i \in 1..m + n |-> t[((m + n) - i) + 1]]
    BY <1>2, <1>4 DEF Reverse
  <2>2. \A i \in 1..m + n : t[((m + n) - i) + 1] \in Nat
    <3>1. \A i \in 1..m + n : ((m + n) - i) + 1 \in 1..m + n
      OBVIOUS
    <3>. QED BY <1>2, <3>1, ElementOfSeq
  <2>. QED BY <2>1, <2>2
<1>7. ASSUME NEW i \in 1..n PROVE q[i] = r[i]
  <2>1. i \in 1..m + n /\ ((m + n) - i) + 1 \in 1..m + n
    OBVIOUS
  <2>2. m + ((n - i) + 1) = ((m + n) - i) + 1 /\ (n - i) + 1 \in 1..n
    OBVIOUS
  <2>. QED BY <1>2, <1>5, <1>6, <2>1, <2>2
<1>8. SubSeq(r, 1, n) = [i \in 1..n |-> r[i]] /\ SubSeq(q, 1, n) = [i \in 1..n |-> q[i]]
  BY <1>5, <1>6
<1>9. SubSeq(r, 1, n) = SubSeq(q, 1, n)
  BY <1>7, <1>8
<1>10. Len(r) <= Len(q)
  BY <1>5, <1>6
<1>. QED BY <1>2, <1>3, <1>4, <1>5, <1>9, <1>10 DEF IsSuffix, IsPrefix

\* The name the note recommends sorts ahead of the file it is for, whatever the
\* names of the files (recommend of rules_d.rs): it is one that fagenrules
\* merges, and it merges it before the file, unless that file's name starts
\* with `~`, ahead of which no number sorts.
THEOREM RecommendIsAhead ==
    ASSUME NEW names \in Seq(String), NEW at \in DOMAIN names, Recommend(names, at) # None
    PROVE  /\ Recommend(names, at) \in String /\ IsMerged(Recommend(names, at))
           /\ names[at] # << >> /\ names[at][1] # Tilde => Before(Recommend(names, at), names[at])
<1>. DEFINE s == names[at]
            own == Prefix(s)
            all == {Prefix(names[i]) : i \in DOMAIN names} \ {None}
            top == CHOOSE p \in all : \A q \in all : Larger(p, q)
            one == IF top[1] = MaxPrefix THEN top[1] ELSE top[1] + 1
<1>0. Len(names) \in Nat /\ DOMAIN names = 1..Len(names) /\ \A i \in DOMAIN names : names[i] \in String
  OBVIOUS
<1>1. s \in String
  BY <1>0
<1>2. Leading(s) \in Number /\ Len(Leading(s)) \in Nat
  BY <1>1, LeadingIs, NumberIs
<1>3. PICK w : Reads(Leading(s), w)
  BY <1>2, ReadsIs
<1>4. w[Len(Leading(s))] \in Nat
  BY <1>2, <1>3, NumberIs
<1>5. /\ Leading(s) = << >> => own = None
      /\ w[Len(Leading(s))] > MaxPrefix => own = None
      /\ Leading(s) # << >> /\ w[Len(Leading(s))] <= MaxPrefix =>
            own = <<w[Len(Leading(s))], Len(Leading(s))>> /\ own # None
  <2>1. <<w[Len(Leading(s))], Len(Leading(s))>> # None
    BY <1>2, <1>4, WidthAssumption
  <2>. QED BY <1>1, <1>3, <2>1, PrefixIs
<1>6. Recommend(names, at) =
         IF own = None
         THEN (IF all = {} THEN Padded(1, 1) ELSE Padded(one, top[2])) \o NewSuffix
         ELSE IF own[1] = 0 THEN None
         ELSE Padded(own[1] - 1, own[2]) \o NewSuffix
  BY DEF Recommend
<1>7. all # {} => top \in (0..MaxPrefix) \X Nat
  <2>1. SUFFICES ASSUME all # {} PROVE top \in (0..MaxPrefix) \X Nat
    OBVIOUS
  <2>2. PICK f : f = [i \in 1..Len(names) |-> Prefix(names[i])]
    OBVIOUS
  <2>3. \A i \in 1..Len(names) : f[i] = Prefix(names[i])
    BY <2>2
  <2>4. \A i \in 1..Len(names) : f[i] = None \/ f[i] \in (0..MaxPrefix) \X Nat
    BY <1>0, <2>3, PrefixIn
  <2>5. all = {f[i] : i \in 1..Len(names)} \ {None}
    BY <1>0, <2>3
  <2>6. \E i \in 1..Len(names) : f[i] # None
    BY <2>1, <2>5
  <2>7. PICK n \in Nat : n = Len(names)
    BY <1>0
  <2>8. \E p \in {f[k] : k \in 1..n} \ {None} : \A q \in {f[k] : k \in 1..n} \ {None} : Larger(p, q)
    BY <2>4, <2>6, <2>7, LargestIs
  <2>9. all \subseteq (0..MaxPrefix) \X Nat
    BY <2>4, <2>5
  <2>10. \E p \in all : \A q \in all : Larger(p, q)
    BY <2>5, <2>7, <2>8
  <2>. HIDE DEF all
  <2>. QED BY <2>9, <2>10
<1>. HIDE DEF s, own, top, all
<1>8. \E n, width \in Nat :
         /\ Recommend(names, at) = Padded(n, width) \o NewSuffix
         /\ \/ Leading(s) # << >> /\ n < w[Len(Leading(s))]
            \/ Leading(s) = << >>
  <2>1. CASE own = None
    <3>1. Leading(s) = << >> \/ (Leading(s) # << >> /\ w[Len(Leading(s))] > MaxPrefix)
      BY <1>4, <1>5, <2>1, MaxPrefixAssumption
    <3>2. CASE all = {}
      <4>1. Recommend(names, at) = Padded(1, 1) \o NewSuffix
        BY <1>6, <2>1, <3>2
      <4>2. 1 <= MaxPrefix /\ MaxPrefix \in Nat
        BY MaxPrefixAssumption
      <4>3. 1 \in Nat /\ (Leading(s) = << >> \/ (Leading(s) # << >> /\ 1 < w[Len(Leading(s))]))
        BY <1>4, <3>1, <4>2
      <4>. QED BY <4>1, <4>3, Zenon
    <3>3. CASE all # {}
      <4>1. Recommend(names, at) = Padded(one, top[2]) \o NewSuffix
        BY <1>6, <2>1, <3>3
      <4>2. top[1] \in 0..MaxPrefix /\ top[2] \in Nat
        BY <1>7, <3>3
      <4>3. one \in Nat /\ one <= MaxPrefix /\ MaxPrefix \in Nat
        BY <4>2, MaxPrefixAssumption
      <4>. HIDE DEF one
      <4>4. Leading(s) = << >> \/ (Leading(s) # << >> /\ one < w[Len(Leading(s))])
        BY <1>4, <3>1, <4>3
      <4>. QED BY <4>1, <4>2, <4>3, <4>4, Zenon
    <3>. QED BY <3>2, <3>3
  <2>2. CASE own # None
    <3>1. Leading(s) # << >> /\ own = <<w[Len(Leading(s))], Len(Leading(s))>>
      BY <1>4, <1>5, <2>2, MaxPrefixAssumption
    <3>2. own[1] = w[Len(Leading(s))] /\ own[2] = Len(Leading(s))
      BY <3>1
    <3>3. own[1] # 0 /\ Recommend(names, at) = Padded(own[1] - 1, own[2]) \o NewSuffix
      BY <1>6, <2>2
    <3>4. own[1] - 1 \in Nat /\ own[2] \in Nat /\ own[1] - 1 < w[Len(Leading(s))]
      BY <1>2, <1>4, <3>2, <3>3
    <3>. QED BY <3>1, <3>3, <3>4
  <2>. QED BY <2>1, <2>2
<1>9. PICK n \in Nat, width \in Nat :
         /\ Recommend(names, at) = Padded(n, width) \o NewSuffix
         /\ \/ Leading(s) # << >> /\ n < w[Len(Leading(s))]
            \/ Leading(s) = << >>
  BY <1>8
<1>10. PICK a \in Number : a = Padded(n, width) /\ a # << >> /\ \E v : Reads(a, v) /\ v[Len(a)] = n
  <2>1. width \in Int
    OBVIOUS
  <2>2. /\ Padded(n, width) \in Number /\ Padded(n, width) # << >>
        /\ \E v : Reads(Padded(n, width), v) /\ v[Len(Padded(n, width))] = n
    BY <2>1, PaddedIs
  <2>. QED BY <2>2
<1>11. PICK v : Reads(a, v) /\ v[Len(a)] = n
  BY <1>10
<1>12. Recommend(names, at) \in String
  <2>1. a \in Seq(Nat) /\ NewSuffix \in Seq(Nat)
    BY NumberIs DEF String, NewSuffix, RulesSuffix
  <2>. QED BY <1>9, <1>10, <2>1, ConcatProperties DEF String
<1>13. ASSUME s # << >>, s[1] # Tilde PROVE Before(Recommend(names, at), s)
  BY <1>1, <1>3, <1>9, <1>10, <1>11, <1>13, AheadByNumber
<1>14. IsMerged(Recommend(names, at))
  <2>. DEFINE x == <<45, 114, 117, 108, 101, 115, 116, 101, 119, 97, 114, 100>>
  <2>1. x \in Seq(Nat) /\ RulesSuffix \in Seq(Nat)
    BY DEF RulesSuffix
  <2>2. NewSuffix = x \o RulesSuffix /\ Len(x) = 12 /\ Len(RulesSuffix) = 6
    BY DEF NewSuffix, RulesSuffix
  <2>. HIDE DEF x
  <2>3. PICK z \in Seq(Nat) : z = NewSuffix /\ Len(z) = 18 /\ \A i \in 1..6 : z[12 + i] = RulesSuffix[i]
    <3>1. /\ x \o RulesSuffix \in Seq(Nat) /\ Len(x \o RulesSuffix) = Len(x) + Len(RulesSuffix)
          /\ \A k \in 1..Len(x) + Len(RulesSuffix) :
                (x \o RulesSuffix)[k] = IF k <= Len(x) THEN x[k] ELSE RulesSuffix[k - Len(x)]
      BY <2>1, ConcatProperties
    <3>2. ASSUME NEW i \in 1..6 PROVE (x \o RulesSuffix)[12 + i] = RulesSuffix[i]
      <4>1. 12 + i \in 1..Len(x) + Len(RulesSuffix) /\ ~(12 + i <= Len(x)) /\ (12 + i) - Len(x) = i
        BY <2>2
      <4>. QED BY <3>1, <4>1
    <3>3. NewSuffix \in Seq(Nat) /\ Len(NewSuffix) = 18
      BY <2>2, <3>1
    <3>4. \A i \in 1..6 : NewSuffix[12 + i] = RulesSuffix[i]
      BY <2>2, <3>2
    <3>. QED BY <3>3, <3>4
  <2>4. a \in Seq(Nat) /\ Len(a) \in Nat /\ Len(a) # 0 /\ a[1] \in Zero..57
    <3>1. Len(a) \in Nat /\ a \in Seq(Nat) /\ \A k \in 1..Len(a) : a[k] \in Zero..57
      BY NumberIs DEF String
    <3>2. Len(a) # 0
      BY <1>10, <3>1
    <3>. QED BY <3>1, <3>2
  <2>5. /\ a \o z \in Seq(Nat) /\ Len(a \o z) = Len(a) + Len(z)
        /\ \A k \in 1..Len(a) + Len(z) : (a \o z)[k] = IF k <= Len(a) THEN a[k] ELSE z[k - Len(a)]
    BY <2>3, <2>4, ConcatProperties
  <2>6. (a \o z)[1] = a[1] /\ IsSuffix(RulesSuffix, a \o z)
    <3>1. 1 \in 1..Len(a) + Len(z) /\ 1 <= Len(a)
      BY <2>3, <2>4
    <3>2. PICK m \in Nat : m = Len(a) + 12
      BY <2>4
    <3>3. ASSUME NEW i \in 1..6 PROVE (a \o z)[m + i] = RulesSuffix[i]
      <4>1. m + i \in 1..Len(a) + Len(z) /\ ~(m + i <= Len(a)) /\ (m + i) - Len(a) = 12 + i
        BY <2>3, <2>4, <3>2
      <4>. QED BY <2>3, <2>5, <4>1
    <3>4. Len(a \o z) = m + Len(RulesSuffix)
      BY <2>2, <2>3, <2>4, <2>5, <3>2
    <3>5. IsSuffix(RulesSuffix, a \o z)
      BY <2>1, <2>2, <2>5, <3>3, <3>4, EndsIn DEF String
    <3>. QED BY <2>5, <3>1, <3>5
  <2>7. a[1] # Dot
    BY <2>4 DEF Zero, Dot
  <2>. QED BY <1>9, <1>10, <2>3, <2>6, <2>7 DEF IsMerged
<1>. QED BY <1>12, <1>13, <1>14 DEF s

--------------------------------------------------------------------------------
(* The merged listing                                                      *)

Sorted(s) == \A i, j \in 1..Len(s) : i < j => Before(s[i], s[j])
Held(s) == {s[i] : i \in 1..Len(s)}

\* LEMMA: putting a name in its place among sorted ones leaves them sorted.
LEMMA InsertedIs ==
    ASSUME NEW s \in Seq(String), Sorted(s), NEW e \in String, e \notin Held(s)
    PROVE  /\ Inserted(e, s) \in Seq(String) /\ Sorted(Inserted(e, s))
           /\ Held(Inserted(e, s)) = Held(s) \cup {e} /\ Len(Inserted(e, s)) = Len(s) + 1
<1>. DEFINE B == {i \in DOMAIN s : Before(s[i], e)}
<1>0. Len(s) \in Nat /\ DOMAIN s = 1..Len(s) /\ \A i \in 1..Len(s) : s[i] \in String
  OBVIOUS
<1>1. \E c \in 0..Len(s) : B = 1..c
  <2>1. CASE B = {}
    <3>1. B = 1..0 /\ 0 \in 0..Len(s)
      BY <1>0, <2>1
    <3>. QED BY <3>1
  <2>2. CASE B # {}
    <3>1. B \subseteq 1..Len(s)
      BY <1>0
    <3>2. PICK c \in B : \A m \in B : m <= c
      <4>1. B \subseteq 0..Len(s)
        BY <1>0
      <4>. HIDE DEF B
      <4>. QED BY <1>0, <2>2, <4>1, GreatestElement
    <3>3. ASSUME NEW i \in 1..c PROVE i \in B
      <4>1. i \in 1..Len(s) /\ c \in 1..Len(s) /\ Before(s[c], e)
        BY <1>0, <3>1
      <4>2. CASE i = c
        BY <4>2
      <4>3. CASE i < c
        <5>1. Before(s[i], s[c])
          BY <4>1, <4>3 DEF Sorted
        <5>2. Before(s[i], e)
          BY <1>0, <4>1, <5>1, BeforeOrder
        <5>. QED BY <1>0, <4>1, <5>2
      <4>. QED BY <3>1, <4>2, <4>3
    <3>. HIDE DEF B
    <3>4. c \in 1..Len(s)
      BY <3>1
    <3>5. B \subseteq 1..c
      BY <3>1, <3>2, <3>4
    <3>6. 1..c \subseteq B
      BY <3>3
    <3>7. B = 1..c
      BY <3>5, <3>6
    <3>8. c \in 0..Len(s)
      BY <1>0, <3>4
    <3>. QED BY <3>7, <3>8
  <2>. QED BY <2>1, <2>2
<1>2. PICK c \in 0..Len(s) : B = 1..c
  BY <1>1
<1>3. Cardinality(B) = c
  <2>1. c \in Nat /\ 1 \in Int /\ c \in Int
    OBVIOUS
  <2>2. Cardinality(1..c) = IF 1 > c THEN 0 ELSE c - 1 + 1
    BY <2>1, FS_Interval
  <2>3. Cardinality(1..c) = c
    BY <2>1, <2>2
  <2>. QED BY <1>2, <2>3
<1>4. Inserted(e, s) = InsertAt(s, 1 + c, e)
  <2>1. Inserted(e, s) = InsertAt(s, 1 + Cardinality(B), e)
    BY DEF Inserted
  <2>. QED BY <1>3, <2>1
<1>5. \A i \in 1..Len(s) : i <= c <=> Before(s[i], e)
  BY <1>0, <1>2
<1>. DEFINE front == SubSeq(s, 1, c)
            back == SubSeq(s, c + 1, Len(s))
            t == front \o <<e>> \o back
<1>6. Inserted(e, s) = t
  <2>1. PICK d : d = 1 + c
    OBVIOUS
  <2>2. Inserted(e, s) = SubSeq(s, 1, d - 1) \o <<e>> \o SubSeq(s, d, Len(s))
    <3>1. Inserted(e, s) = InsertAt(s, d, e)
      BY <1>4, <2>1
    <3>. QED BY <3>1 DEF InsertAt
  <2>3. d - 1 = c /\ d = c + 1
    BY <2>1
  <2>. QED BY <2>2, <2>3
<1>7. /\ front \in Seq(String) /\ Len(front) = c /\ \A i \in 1..c : front[i] = s[i]
      /\ back \in Seq(String) /\ Len(back) = Len(s) - c /\ \A i \in 1..Len(s) - c : back[i] = s[c + i]
  <2>1. /\ front \in Seq(String) /\ Len(front) = c
        /\ \A i \in 1..c : front[i] = s[i]
    <3>1. s \in Seq(String) /\ 1 \in 1..Len(s) + 1 /\ c \in 1 - 1..Len(s)
      BY <1>0
    <3>2. \A i \in 1..c : s[i] \in String
      BY <1>0
    <3>. QED BY <3>1, <3>2, SubSeqProperties
  <2>2. /\ back \in Seq(String) /\ Len(back) = Len(s) - c
        /\ \A i \in 1..Len(s) - c : back[i] = s[c + i]
    <3>1. PICK d : d = c + 1
      OBVIOUS
    <3>2. d \in 1..Len(s) + 1 /\ Len(s) \in d - 1..Len(s) /\ \A i \in d..Len(s) : s[i] \in String
      BY <1>0, <3>1
    <3>3. /\ SubSeq(s, d, Len(s)) \in Seq(String) /\ Len(SubSeq(s, d, Len(s))) = Len(s) - d + 1
          /\ \A i \in 1..Len(s) - d + 1 : SubSeq(s, d, Len(s))[i] = s[d + i - 1]
      BY <1>0, <3>2, SubSeqProperties
    <3>4. Len(s) - d + 1 = Len(s) - c /\ \A i \in 1..Len(s) - c : d + i - 1 = c + i
      BY <1>0, <3>1
    <3>. QED BY <3>1, <3>3, <3>4
  <2>. QED BY <2>1, <2>2
<1>. HIDE DEF front, back
<1>8. /\ t \in Seq(String) /\ Len(t) = Len(s) + 1
      /\ \A i \in 1..Len(s) + 1 : t[i] = IF i <= c THEN s[i] ELSE IF i = c + 1 THEN e ELSE s[i - 1]
  <2>1. <<e>> \in Seq(String) /\ Len(<<e>>) = 1 /\ <<e>>[1] = e
    OBVIOUS
  <2>2. PICK x \in Seq(String) : x = front \o <<e>>
    BY <1>7, <2>1, ConcatProperties
  <2>3. /\ Len(x) = c + 1
        /\ \A i \in 1..c + 1 : x[i] = IF i <= c THEN front[i] ELSE <<e>>[i - c]
    BY <1>7, <2>1, <2>2, ConcatProperties
  <2>4. /\ x \o back \in Seq(String) /\ Len(x \o back) = c + 1 + (Len(s) - c)
        /\ \A i \in 1..c + 1 + (Len(s) - c) :
              (x \o back)[i] = IF i <= c + 1 THEN x[i] ELSE back[i - (c + 1)]
    <3>1. /\ x \o back \in Seq(String) /\ Len(x \o back) = Len(x) + Len(back)
          /\ \A i \in 1..Len(x) + Len(back) :
                (x \o back)[i] = IF i <= Len(x) THEN x[i] ELSE back[i - Len(x)]
      BY <1>7, ConcatProperties
    <3>. QED BY <1>7, <2>3, <3>1
  <2>5. c + 1 + (Len(s) - c) = Len(s) + 1
    BY <1>0
  <2>6. t = x \o back
    BY <2>2
  <2>. HIDE DEF t
  <2>7. ASSUME NEW i \in 1..Len(s) + 1
        PROVE  t[i] = IF i <= c THEN s[i] ELSE IF i = c + 1 THEN e ELSE s[i - 1]
    <3>0. t[i] = IF i <= c + 1 THEN x[i] ELSE back[i - (c + 1)]
      BY <2>4, <2>5, <2>6
    <3>1. CASE i <= c
      BY <1>7, <2>3, <3>0, <3>1
    <3>2. CASE i = c + 1
      <4>1. x[i] = <<e>>[i - c] /\ i - c = 1
        BY <2>3, <3>2
      <4>. QED BY <2>1, <3>0, <3>2, <4>1
    <3>3. CASE i > c + 1
      <4>1. i - (c + 1) \in 1..Len(s) - c /\ c + (i - (c + 1)) = i - 1
        BY <1>0, <3>3
      <4>2. t[i] = back[i - (c + 1)]
        BY <3>0, <3>3
      <4>3. back[i - (c + 1)] = s[c + (i - (c + 1))]
        BY <1>7, <4>1
      <4>4. ~(i <= c) /\ i # c + 1
        BY <3>3
      <4>. QED BY <4>1, <4>2, <4>3, <4>4
    <3>. QED BY <3>1, <3>2, <3>3
  <2>. QED BY <2>4, <2>5, <2>6, <2>7
<1>. HIDE DEF t
<1>9. \A i \in 1..Len(s) : c < i => Before(e, s[i])
  <2>1. ASSUME NEW i \in 1..Len(s), c < i PROVE Before(e, s[i])
    <3>1. ~Before(s[i], e) /\ s[i] # e /\ s[i] \in String
      BY <1>0, <1>5, <2>1 DEF Held
    <3>. QED BY <3>1, BeforeOrder
  <2>. QED BY <2>1
<1>10. ASSUME NEW i \in 1..Len(t), NEW j \in 1..Len(t), i < j PROVE Before(t[i], t[j])
  <2>1. CASE j <= c
    <3>1. t[i] = s[i] /\ t[j] = s[j] /\ i \in 1..Len(s) /\ j \in 1..Len(s)
      BY <1>0, <1>8, <1>10, <2>1
    <3>. QED BY <1>10, <3>1 DEF Sorted
  <2>2. CASE j = c + 1
    <3>1. t[i] = s[i] /\ t[j] = e /\ i \in 1..Len(s) /\ i <= c
      BY <1>0, <1>8, <1>10, <2>2
    <3>. QED BY <1>5, <3>1
  <2>3. CASE j > c + 1 /\ i <= c
    <3>1. t[i] = s[i] /\ t[j] = s[j - 1] /\ i \in 1..Len(s) /\ j - 1 \in 1..Len(s) /\ i < j - 1
      BY <1>0, <1>8, <1>10, <2>3
    <3>. QED BY <3>1 DEF Sorted
  <2>4. CASE j > c + 1 /\ i = c + 1
    <3>1. t[i] = e /\ t[j] = s[j - 1] /\ j - 1 \in 1..Len(s) /\ c < j - 1
      BY <1>0, <1>8, <1>10, <2>4
    <3>. QED BY <1>9, <3>1
  <2>5. CASE i > c + 1
    <3>1. t[i] = s[i - 1] /\ t[j] = s[j - 1] /\ i - 1 \in 1..Len(s) /\ j - 1 \in 1..Len(s) /\ i - 1 < j - 1
      BY <1>0, <1>8, <1>10, <2>5
    <3>. QED BY <3>1 DEF Sorted
  <2>6. i \in Int /\ j \in Int /\ c \in Int
    OBVIOUS
  <2>. QED BY <2>1, <2>2, <2>3, <2>4, <2>5, <2>6
<1>11. Held(t) = Held(s) \cup {e}
  <2>1. Held(t) \subseteq Held(s) \cup {e}
    <3>1. ASSUME NEW i \in 1..Len(t) PROVE t[i] \in Held(s) \cup {e}
      <4>1. CASE i <= c
        BY <1>0, <1>8, <4>1 DEF Held
      <4>2. CASE i = c + 1
        BY <1>8, <4>2
      <4>3. CASE i > c + 1
        <5>1. i - 1 \in 1..Len(s) /\ t[i] = s[i - 1]
          BY <1>0, <1>8, <4>3
        <5>. QED BY <5>1 DEF Held
      <4>. QED BY <1>8, <4>1, <4>2, <4>3
    <3>. QED BY <3>1 DEF Held
  <2>2. ASSUME NEW i \in 1..Len(s) PROVE s[i] \in Held(t)
    <3>1. CASE i <= c
      <4>1. i \in 1..Len(t) /\ t[i] = s[i]
        BY <1>0, <1>8, <3>1
      <4>. QED BY <4>1 DEF Held
    <3>2. CASE i > c
      <4>1. i + 1 \in 1..Len(t) /\ t[i + 1] = s[i + 1 - 1] /\ i + 1 - 1 = i
        BY <1>0, <1>8, <3>2
      <4>. QED BY <4>1 DEF Held
    <3>. QED BY <3>1, <3>2
  <2>3. e \in Held(t)
    <3>1. c + 1 \in 1..Len(t) /\ t[c + 1] = e
      BY <1>0, <1>8
    <3>. QED BY <3>1 DEF Held
  <2>. QED BY <2>1, <2>2, <2>3 DEF Held
<1>. QED BY <1>6, <1>8, <1>10, <1>11 DEF Sorted

Folded(S) == FoldSet(Inserted, << >>, S)

\* f[T] is the names of T in order, put in their places one by one.
Folds(S, f) ==
    /\ Folded(S) = f[S]
    /\ f[{}] = << >>
    /\ \A T \in SUBSET S : T # {} => \E x \in T : f[T] = Inserted(x, f[T \ {x}])

\* LEMMA: the fold takes the names one by one, in some order.
LEMMA InOrderFolds ==
    ASSUME NEW S, IsFiniteSet(S)
    PROVE  \E f : Folds(S, f)
<1>. DEFINE One(T) == CHOOSE x \in T : TRUE
            Body(f, T) == IF T = {} THEN << >> ELSE Inserted(One(T), f[T \ {One(T)}])
            IsIter(f) == f = [T \in SUBSET S |-> Body(f, T)]
            iter == CHOOSE f : IsIter(f)
            Upto(f, m) == \A T \in SUBSET S : Cardinality(T) < m => f[T] = Body(f, T)
            Known == {m \in Nat : \E f : Upto(f, m)}
<1>0. /\ \A T \in SUBSET S : IsFiniteSet(T) /\ Cardinality(T) \in Nat
      /\ \A T \in SUBSET S : T # {} =>
            One(T) \in T /\ T \ {One(T)} \in SUBSET S /\ Cardinality(T \ {One(T)}) < Cardinality(T)
  <2>1. \A T \in SUBSET S : IsFiniteSet(T) /\ Cardinality(T) \in Nat
    BY FS_Subset, FS_CardinalityType
  <2>2. ASSUME NEW T \in SUBSET S, T # {}
        PROVE  One(T) \in T /\ T \ {One(T)} \in SUBSET S /\ Cardinality(T \ {One(T)}) < Cardinality(T)
    <3>1. One(T) \in T
      BY <2>2
    <3>. HIDE DEF One
    <3>2. Cardinality(T \ {One(T)}) = Cardinality(T) - 1
      BY <2>1, <3>1, FS_RemoveElement
    <3>3. Cardinality(T) \in Nat
      BY <2>1
    <3>. QED BY <3>1, <3>2, <3>3
  <2>. QED BY <2>1, <2>2
<1>a. Folded(S) = iter[S]
  BY DEF Folded, FoldSet, MapThenFoldSet
<1>. HIDE DEF One
<1>1. 0 \in Known
  <2>1. \A f : Upto(f, 0)
    BY <1>0
  <2>. HIDE DEF Upto
  <2>. QED BY <2>1
<1>2. ASSUME NEW m \in Nat, m \in Known PROVE m + 1 \in Known
  <2>1. PICK f : Upto(f, m)
    BY <1>2
  <2>. DEFINE g == [T \in SUBSET S |-> IF Cardinality(T) < m THEN f[T] ELSE Body(f, T)]
  <2>2. ASSUME NEW T \in SUBSET S, Cardinality(T) < m + 1 PROVE g[T] = Body(g, T)
    <3>0. Cardinality(T) < m => f[T] = Body(f, T)
      BY <2>1
    <3>1. g[T] = Body(f, T)
      <4>. HIDE DEF Body
      <4>. QED BY <3>0
    <3>2. CASE T = {}
      BY <3>1, <3>2
    <3>3. CASE T # {}
      <4>1. /\ T \ {One(T)} \in SUBSET S /\ Cardinality(T \ {One(T)}) < m
        BY <1>0, <2>2, <3>3
      <4>2. g[T \ {One(T)}] = f[T \ {One(T)}]
        BY <4>1
      <4>. HIDE DEF g
      <4>. QED BY <3>1, <3>3, <4>2
    <3>. QED BY <3>2, <3>3
  <2>. HIDE DEF g, Body
  <2>3. \E h : Upto(h, m + 1)
    BY <2>2
  <2>4. m + 1 \in Nat
    OBVIOUS
  <2>. HIDE DEF Upto
  <2>. QED BY <2>3, <2>4, Zenon
<1>3. IsIter(iter)
  <2>0. Cardinality(S) + 1 \in Nat /\ \A T \in SUBSET S : Cardinality(T) < Cardinality(S) + 1
    <3>1. \A T \in SUBSET S : Cardinality(T) \in Nat /\ Cardinality(T) <= Cardinality(S)
      BY <1>0, FS_Subset
    <3>. QED BY <1>0, <3>1
  <2>1. Cardinality(S) + 1 \in Known
    <3>. HIDE DEF Known
    <3>. QED BY <1>1, <1>2, <2>0, Induction
  <2>2. PICK f : Upto(f, Cardinality(S) + 1)
    BY <2>1
  <2>. DEFINE g == [T \in SUBSET S |-> f[T]]
  <2>3. ASSUME NEW T \in SUBSET S PROVE f[T] = Body(g, T)
    <3>1. f[T] = Body(f, T)
      BY <2>0, <2>2
    <3>2. CASE T = {}
      BY <3>1, <3>2
    <3>3. CASE T # {}
      <4>1. T \ {One(T)} \in SUBSET S
        BY <1>0, <3>3
      <4>2. g[T \ {One(T)}] = f[T \ {One(T)}]
        BY <4>1
      <4>. HIDE DEF g
      <4>. QED BY <3>1, <3>3, <4>2
    <3>. QED BY <3>2, <3>3
  <2>4. IsIter(g)
    <3>. HIDE DEF Body
    <3>. QED BY <2>3
  <2>. HIDE DEF g, IsIter
  <2>. QED BY <2>4
<1>. HIDE DEF iter
<1>4. \A T \in SUBSET S : iter[T] = Body(iter, T)
  <2>. HIDE DEF Body
  <2>. QED BY <1>3
<1>5. iter[{}] = << >>
  BY <1>4
<1>6. \A T \in SUBSET S : T # {} => \E x \in T : iter[T] = Inserted(x, iter[T \ {x}])
  BY <1>0, <1>4
<1>7. Folds(S, iter)
  BY <1>a, <1>5, <1>6 DEF Folds
<1>. QED BY <1>7

\* fagenrules merges the files of a directory whose names end in `.rules` and
\* start with no dot, each once, in the order Before, however the directory
\* lists them (files of rules_d.rs).
THEOREM InOrderIs ==
    ASSUME NEW names \in SUBSET String, IsFiniteSet(names)
    PROVE  /\ InOrder(names) \in Seq(String) /\ Sorted(InOrder(names))
           /\ Held(InOrder(names)) = {name \in names : IsMerged(name)}
<1>. DEFINE S == {name \in names : IsMerged(name)}
<1>0. IsFiniteSet(S) /\ S \in SUBSET String
  BY FS_Subset
<1>a. InOrder(names) = Folded(S)
  BY DEF InOrder, Folded
<1>. HIDE DEF S
<1>1. PICK f : /\ Folded(S) = f[S]
               /\ f[{}] = << >>
               /\ \A T \in SUBSET S : T # {} => \E x \in T : f[T] = Inserted(x, f[T \ {x}])
  <2>1. PICK f : Folds(S, f)
    BY <1>0, InOrderFolds
  <2>. QED BY <2>1 DEF Folds
<1>. DEFINE Right(T) == f[T] \in Seq(String) /\ Sorted(f[T]) /\ Held(f[T]) = T
            Shown == {m \in Nat : \A T \in SUBSET S : Cardinality(T) < m => Right(T)}
<1>2. \A T \in SUBSET S : IsFiniteSet(T) /\ Cardinality(T) \in Nat
  BY <1>0, FS_Subset, FS_CardinalityType
<1>3. 0 \in Shown
  <2>1. \A T \in SUBSET S : ~(Cardinality(T) < 0)
    BY <1>2
  <2>. HIDE DEF Right
  <2>. QED BY <2>1
<1>4. ASSUME NEW m \in Nat, m \in Shown PROVE m + 1 \in Shown
  <2>1. ASSUME NEW T \in SUBSET S, Cardinality(T) < m + 1 PROVE Right(T)
    <3>1. CASE T = {}
      <4>1. f[T] = << >> /\ << >> \in Seq(String) /\ Len(<< >>) = 0
        BY <1>1, <3>1
      <4>2. Sorted(<< >>) /\ Held(<< >>) = {}
        BY <4>1 DEF Sorted, Held
      <4>. QED BY <3>1, <4>1, <4>2
    <3>2. CASE T # {}
      <4>1. PICK x \in T : f[T] = Inserted(x, f[T \ {x}])
        BY <1>1, <3>2
      <4>2. T \ {x} \in SUBSET S /\ Cardinality(T \ {x}) < m
        <5>1. Cardinality(T \ {x}) = Cardinality(T) - 1
          BY <1>2, FS_RemoveElement
        <5>. QED BY <1>2, <2>1, <5>1
      <4>3. Right(T \ {x})
        BY <1>4, <4>2
      <4>4. PICK s \in Seq(String) : s = f[T \ {x}] /\ Sorted(s) /\ Held(s) = T \ {x}
        BY <4>3
      <4>5. x \in String /\ x \notin Held(s)
        BY <1>0, <4>4
      <4>6. /\ Inserted(x, s) \in Seq(String) /\ Sorted(Inserted(x, s))
            /\ Held(Inserted(x, s)) = Held(s) \cup {x}
        BY <4>4, <4>5, InsertedIs
      <4>. QED BY <4>1, <4>4, <4>6
    <3>. QED BY <3>1, <3>2
  <2>2. m + 1 \in Nat
    OBVIOUS
  <2>. HIDE DEF Right
  <2>. QED BY <2>1, <2>2
<1>5. Right(S)
  <2>1. Cardinality(S) + 1 \in Nat /\ Cardinality(S) < Cardinality(S) + 1 /\ S \in SUBSET S
    BY <1>2
  <2>2. Cardinality(S) + 1 \in Shown
    <3>. HIDE DEF Shown
    <3>. QED BY <1>3, <1>4, <2>1, Induction
  <2>. HIDE DEF Right
  <2>. QED BY <2>1, <2>2
<1>. QED BY <1>a, <1>1, <1>5 DEF S
================================================================================
