----------------------------- MODULE LogLineProofs -----------------------------
(***************************************************************************)
(* Proofs about LogLine, for every path, every program and every line: what *)
(* auditd and the daemon write is read back byte for byte, and so is what   *)
(* the tool writes.                                                        *)
(***************************************************************************)
EXTENDS LogLine, DataLemmas

Str == Seq(Nat)

--------------------------------------------------------------------------------
(* Cutting a string                                                        *)

\* LEMMA: the least of some naturals.
LEMMA SmallestIn ==
    ASSUME NEW S, S \subseteq Nat, S # {}
    PROVE  Smallest(S) \in S /\ \A m \in S : Smallest(S) <= m
BY LeastElement DEF Smallest

\* LEMMA: two sequences of the same length and elements are one.
LEMMA Same ==
    ASSUME NEW S, NEW s \in Seq(S), NEW t \in Seq(S), Len(s) = Len(t), \A k \in 1..Len(s) : s[k] = t[k]
    PROVE  s = t
OBVIOUS

\* LEMMA: a sequence over a set is one over a larger set.
LEMMA Wider ==
    ASSUME NEW S, NEW T, S \subseteq T, NEW s \in Seq(S)
    PROVE  s \in Seq(T) /\ Len(s) \in Nat /\ DOMAIN s = 1..Len(s) /\ \A k \in 1..Len(s) : s[k] \in S
OBVIOUS

\* LEMMA: a slice is a string.
LEMMA SliceIn ==
    ASSUME NEW S, NEW s \in Seq(S), NEW i \in 1..Len(s) + 1, NEW k \in i - 1..Len(s)
    PROVE  /\ SubSeq(s, i, k) \in Seq(S) /\ Len(SubSeq(s, i, k)) = k - i + 1
           /\ \A m \in 1..k - i + 1 : SubSeq(s, i, k)[m] = s[i + m - 1]
<1>1. PICK n \in Nat : n = Len(s)
  OBVIOUS
<1>2. i \in 1..n + 1 /\ k \in i - 1..n
  BY <1>1
<1>. QED BY <1>1, <1>2

\* LEMMA: an element and the slice behind it.
LEMMA SliceOff ==
    ASSUME NEW S, NEW s \in Seq(S), NEW i \in 1..Len(s)
    PROVE  SubSeq(s, i, Len(s)) =
              <<s[i]>> \o IF i = Len(s) THEN << >> ELSE SubSeq(s, i + 1, Len(s))
<1>1. PICK n \in Nat : n = Len(s)
  OBVIOUS
<1>2. i \in 1..n /\ s[i] \in S /\ n \in i - 1..n
  BY <1>1
<1>3. /\ SubSeq(s, i, n) \in Seq(S) /\ Len(SubSeq(s, i, n)) = n - i + 1
      /\ \A m \in 1..n - i + 1 : SubSeq(s, i, n)[m] = s[i + m - 1]
  <2>1. i \in 1..Len(s) + 1 /\ n \in i - 1..Len(s)
    BY <1>1, <1>2
  <2>. QED BY <2>1, SliceIn
<1>4. /\ SubSeq(s, i + 1, n) \in Seq(S) /\ Len(SubSeq(s, i + 1, n)) = n - i
      /\ \A m \in 1..n - i : SubSeq(s, i + 1, n)[m] = s[i + m]
  <2>1. i + 1 \in 1..Len(s) + 1 /\ n \in i + 1 - 1..Len(s)
    BY <1>1, <1>2
  <2>2. /\ SubSeq(s, i + 1, n) \in Seq(S) /\ Len(SubSeq(s, i + 1, n)) = n - (i + 1) + 1
        /\ \A m \in 1..n - (i + 1) + 1 : SubSeq(s, i + 1, n)[m] = s[i + 1 + m - 1]
    BY <2>1, SliceIn
  <2>3. n - (i + 1) + 1 = n - i /\ \A m \in 1..n - i : i + 1 + m - 1 = i + m
    BY <1>2
  <2>. QED BY <2>2, <2>3
<1>5. PICK u : u = SubSeq(s, i, n)
  OBVIOUS
<1>6. CASE i = n
  <2>1. u \in Seq(S) /\ Len(u) = 1 /\ u[1] = s[i]
    BY <1>2, <1>3, <1>5, <1>6
  <2>2. u = <<s[i]>>
    BY <2>1
  <2>3. <<s[i]>> = <<s[i]>> \o << >>
    OBVIOUS
  <2>. QED BY <1>1, <1>5, <1>6, <2>2, <2>3
<1>7. CASE i # n
  <2>1. PICK v : v = SubSeq(s, i + 1, n)
    OBVIOUS
  <2>2. <<s[i]>> \o v \in Seq(S) /\ Len(<<s[i]>> \o v) = n - i + 1 /\ (<<s[i]>> \o v)[1] = s[i]
    BY <1>2, <1>4, <2>1
  <2>3. \A m \in 1..n - i + 1 : m # 1 => (<<s[i]>> \o v)[m] = s[i + m - 1]
    <3>1. SUFFICES ASSUME NEW m \in 1..n - i + 1, m # 1 PROVE (<<s[i]>> \o v)[m] = s[i + m - 1]
      OBVIOUS
    <3>2. m - 1 \in 1..n - i /\ i + (m - 1) = i + m - 1
      BY <1>2, <3>1
    <3>3. (<<s[i]>> \o v)[m] = v[m - 1]
      BY <1>2, <1>4, <2>1, <3>2
    <3>. QED BY <1>4, <2>1, <3>2, <3>3
  <2>4. u \in Seq(S) /\ Len(u) = n - i + 1 /\ \A m \in 1..n - i + 1 : u[m] = s[i + m - 1]
    BY <1>3, <1>5
  <2>5. \A m \in 1..n - i + 1 : u[m] = (<<s[i]>> \o v)[m]
    <3>1. i + 1 - 1 = i
      BY <1>2
    <3>. QED BY <2>2, <2>3, <2>4, <3>1
  <2>6. u = <<s[i]>> \o v
    <3>1. PICK w : w = <<s[i]>> \o v
      OBVIOUS
    <3>. QED BY <2>2, <2>4, <2>5, <3>1
  <2>. QED BY <1>1, <1>5, <1>7, <2>1, <2>6
<1>. QED BY <1>6, <1>7

\* Where the part that begins at i is cut.
Cut(s, cuts, i) == Smallest({k \in cuts : k >= i} \cup {Len(s) + 1})

\* LEMMA: at the first of the cuts, or at the end.
LEMMA CutIs ==
    ASSUME NEW s \in Str, NEW cuts, cuts \subseteq 1..Len(s), NEW i \in 1..Len(s) + 1
    PROVE  /\ Cut(s, cuts, i) \in i..Len(s) + 1
           /\ Cut(s, cuts, i) \in cuts \cup {Len(s) + 1}
           /\ \A k \in cuts : k >= i => Cut(s, cuts, i) <= k
<1>1. PICK S : S = {k \in cuts : k >= i} \cup {Len(s) + 1}
  OBVIOUS
<1>2. PICK n \in Nat : n = Len(s)
  BY DEF Str
<1>3. S \subseteq Nat /\ S # {} /\ \A k \in S : k \in i..Len(s) + 1 /\ k \in cuts \cup {Len(s) + 1}
  <2>1. n + 1 \in S /\ \A k \in S : k \in i..n + 1 /\ k \in cuts \cup {n + 1}
    BY <1>1, <1>2
  <2>. QED BY <1>2, <2>1
<1>4. Smallest(S) \in S /\ \A m \in S : Smallest(S) <= m
  BY <1>3, SmallestIn
<1>. QED BY <1>1, <1>3, <1>4 DEF Cut

\* LEMMA: a string is cut into the part up to the first cut and the parts of
\* what is behind it.
LEMMA SplitParts ==
    ASSUME NEW s \in Str, NEW cuts, cuts \subseteq 1..Len(s)
    PROVE  \E parts :
              /\ SplitAt(s, cuts) = parts[1]
              /\ \A i \in 1..Len(s) + 1 :
                    parts[i] = <<SubSeq(s, i, Cut(s, cuts, i) - 1)>> \o
                               IF Cut(s, cuts, i) > Len(s) THEN << >> ELSE parts[Cut(s, cuts, i) + 1]
<1>. DEFINE n == Len(s) + 1
            Part(f, i) == <<SubSeq(s, i, Cut(s, cuts, i) - 1)>> \o
                          IF Cut(s, cuts, i) > Len(s) THEN << >> ELSE f[Cut(s, cuts, i) + 1]
            IsParts(f) == f = [i \in 1..n |-> Part(f, i)]
            word == [i \in 1..n |-> <<SubSeq(s, i, Cut(s, cuts, i) - 1)>>]
            next == [i \in 1..n |-> Cut(s, cuts, i) + 1]
<1>1. n \in Nat /\ \A i \in 1..n : Cut(s, cuts, i) \in i..n
  <2>1. n \in Nat
    BY DEF Str
  <2>2. \A i \in 1..n : Cut(s, cuts, i) \in i..n
    BY CutIs, Zenon
  <2>. QED BY <2>1, <2>2
<1>2. Jumps(n, word, next)
  <2>1. \A i \in 1..n : next[i] \in 1..n => i < next[i]
    BY <1>1
  <2>. QED BY <2>1 DEF Jumps
<1>3. PICK f : Chained(f, n, word, next)
  BY <1>1, <1>2, JumpsDefine, Zenon
<1>4. ASSUME NEW i \in 1..n PROVE f[i] = Part(f, i)
  <2>1. f[i] = IF next[i] \in 1..n THEN word[i] \o f[next[i]] ELSE word[i]
    BY <1>3 DEF Chained
  <2>2. next[i] = Cut(s, cuts, i) + 1 /\ word[i] = <<SubSeq(s, i, Cut(s, cuts, i) - 1)>>
    OBVIOUS
  <2>3. next[i] \in 1..n <=> ~(Cut(s, cuts, i) > Len(s))
    BY <1>1, <2>2
  <2>4. word[i] = word[i] \o << >>
    BY <2>2
  <2>. HIDE DEF word, next
  <2>. QED BY <2>1, <2>2, <2>3, <2>4
<1>5. IsParts(f)
  <2>1. f = [i \in 1..n |-> f[i]]
    BY <1>3 DEF Chained
  <2>. HIDE DEF Part
  <2>. QED BY <1>4, <2>1
<1>. DEFINE parts == CHOOSE g : IsParts(g)
<1>6. IsParts(parts)
  <2>. HIDE DEF IsParts
  <2>. QED BY <1>5
<1>7. SplitAt(s, cuts) = parts[1]
  BY DEF SplitAt, Cut
<1>. HIDE DEF parts
<1>8. \A i \in 1..Len(s) + 1 : parts[i] = Part(parts, i)
  BY <1>6
<1>. QED BY <1>7, <1>8

\* LEMMA: the first part.
LEMMA SplitFirst ==
    ASSUME NEW s \in Str, NEW cuts, cuts \subseteq 1..Len(s)
    PROVE  SplitAt(s, cuts)[1] = SubSeq(s, 1, Cut(s, cuts, 1) - 1)
<1>1. PICK parts :
         /\ SplitAt(s, cuts) = parts[1]
         /\ \A i \in 1..Len(s) + 1 :
               parts[i] = <<SubSeq(s, i, Cut(s, cuts, i) - 1)>> \o
                          IF Cut(s, cuts, i) > Len(s) THEN << >> ELSE parts[Cut(s, cuts, i) + 1]
  BY SplitParts, Zenon
<1>2. PICK n \in Nat : n = Len(s)
  BY DEF Str
<1>. DEFINE Settled == {m \in Nat : \A i \in 1..n + 1 : n + 1 - i < m => parts[i] \in Seq(Str)}
<1>3. ASSUME NEW i \in 1..n + 1
      PROVE  /\ SubSeq(s, i, Cut(s, cuts, i) - 1) \in Str
             /\ Cut(s, cuts, i) \in i..n + 1
  <2>1. Cut(s, cuts, i) \in i..n + 1
    BY <1>2, CutIs
  <2>2. PICK c \in i..n + 1 : c = Cut(s, cuts, i)
    BY <2>1
  <2>3. SubSeq(s, i, c - 1) \in Str
    BY <1>2, <2>2 DEF Str
  <2>. QED BY <2>1, <2>2, <2>3
<1>4. 0 \in Settled
  OBVIOUS
<1>5. ASSUME NEW m \in Nat, m \in Settled PROVE m + 1 \in Settled
  <2>1. SUFFICES ASSUME NEW i \in 1..n + 1, n + 1 - i < m + 1 PROVE parts[i] \in Seq(Str)
    OBVIOUS
  <2>2. PICK c \in i..n + 1 : c = Cut(s, cuts, i)
    BY <1>3
  <2>3. PICK p \in Str : p = SubSeq(s, i, c - 1)
    BY <1>3, <2>2
  <2>4. parts[i] = <<p>> \o IF c > n THEN << >> ELSE parts[c + 1]
    BY <1>1, <1>2, <2>2, <2>3
  <2>5. CASE c > n
    BY <2>4, <2>5
  <2>6. CASE ~(c > n)
    <3>1. parts[c + 1] \in Seq(Str)
      BY <1>5, <2>1, <2>6
    <3>. QED BY <2>4, <2>6, <3>1
  <2>. QED BY <2>5, <2>6
<1>6. Nat \subseteq Settled
  <2>. HIDE DEF Settled
  <2>. QED BY <1>4, <1>5, Induction
<1>7. \A i \in 1..n + 1 : parts[i] \in Seq(Str)
  <2>1. n + 2 \in Settled
    <3>1. n + 2 \in Nat
      OBVIOUS
    <3>. HIDE DEF Settled
    <3>. QED BY <1>6, <3>1
  <2>. QED BY <2>1
<1>8. PICK c \in 1..n + 1 : c = Cut(s, cuts, 1)
  <2>1. 1 \in 1..n + 1
    OBVIOUS
  <2>. QED BY <1>3, <2>1
<1>9. PICK p \in Str : p = SubSeq(s, 1, c - 1)
  <2>1. 1 \in 1..n + 1
    OBVIOUS
  <2>. QED BY <1>3, <1>8, <2>1
<1>10. PICK t \in Seq(Str) : parts[1] = <<p>> \o t
  <2>1. parts[1] = <<p>> \o IF c > n THEN << >> ELSE parts[c + 1]
    <3>1. 1 \in 1..Len(s) + 1
      BY <1>2
    <3>. QED BY <1>1, <1>2, <1>8, <1>9, <3>1
  <2>2. << >> \in Seq(Str) /\ (~(c > n) => parts[c + 1] \in Seq(Str))
    BY <1>7, <1>8
  <2>. QED BY <2>1, <2>2
<1>11. parts[1][1] = p
  BY <1>10
<1>. QED BY <1>1, <1>8, <1>9, <1>11

\* The places b[1], b[2] ... are the cuts, in order, between the ends of s.
Bounds(b, n, s, cuts) ==
    /\ b \in [0..n -> Nat] /\ b[0] = 0 /\ b[n] = Len(s) + 1
    /\ \A i \in 1..n : b[i - 1] < b[i]
    /\ cuts = {b[i] : i \in 1..n - 1}

\* LEMMA: the parts are what is between one cut and the next.
LEMMA SplitBounds ==
    ASSUME NEW s \in Str, NEW cuts, NEW b, NEW n \in Nat \ {0}, Bounds(b, n, s, cuts)
    PROVE  SplitAt(s, cuts) = [i \in 1..n |-> SubSeq(s, b[i - 1] + 1, b[i] - 1)]
<1>1. PICK len \in Nat : len = Len(s)
  BY DEF Str
<1>2. /\ n \in Nat /\ n # 0 /\ b[0] = 0 /\ b[n] = len + 1 /\ cuts = {b[i] : i \in 1..n - 1}
      /\ \A i \in 0..n : b[i] \in Nat
      /\ \A i \in 1..n : b[i - 1] < b[i]
  BY <1>1 DEF Bounds
<1>3. \A i, k \in 0..n : i <= k => b[i] <= b[k]
  <2>1. \A i \in 1..n : b[i - 1] <= b[i]
    <3>1. \A i \in 1..n : i \in 0..n /\ i - 1 \in 0..n
      OBVIOUS
    <3>. QED BY <1>2, <3>1
  <2>. QED BY <1>2, <2>1, Ascending
<1>4. ASSUME NEW i \in 0..n, NEW k \in 0..n, i < k PROVE b[i] < b[k]
  <2>1. i + 1 \in 1..n /\ i + 1 <= k /\ i + 1 \in 0..n /\ i + 1 - 1 = i
    BY <1>4
  <2>2. b[i] < b[i + 1] /\ b[i + 1] <= b[k]
    BY <1>2, <1>3, <2>1
  <2>. QED BY <1>2, <2>1, <2>2
<1>5. cuts \subseteq 1..len
  <2>1. SUFFICES ASSUME NEW i \in 1..n - 1 PROVE b[i] \in 1..len
    BY <1>2
  <2>2. b[0] < b[i] /\ b[i] < b[n] /\ b[i] \in Nat
    BY <1>2, <1>4
  <2>. QED BY <1>2, <2>2
<1>6. PICK parts :
         /\ SplitAt(s, cuts) = parts[1]
         /\ \A i \in 1..len + 1 :
               parts[i] = <<SubSeq(s, i, Cut(s, cuts, i) - 1)>> \o
                          IF Cut(s, cuts, i) > len THEN << >> ELSE parts[Cut(s, cuts, i) + 1]
  <2>1. cuts \subseteq 1..Len(s)
    BY <1>1, <1>5
  <2>2. PICK parts :
           /\ SplitAt(s, cuts) = parts[1]
           /\ \A i \in 1..Len(s) + 1 :
                 parts[i] = <<SubSeq(s, i, Cut(s, cuts, i) - 1)>> \o
                            IF Cut(s, cuts, i) > Len(s) THEN << >> ELSE parts[Cut(s, cuts, i) + 1]
    BY <2>1, SplitParts, Zenon
  <2>. QED BY <1>1, <2>2
<1>7. ASSUME NEW j \in 1..n
      PROVE  b[j - 1] + 1 \in 1..len + 1 /\ Cut(s, cuts, b[j - 1] + 1) = b[j]
  <2>1. j \in 0..n /\ j - 1 \in 0..n /\ j - 1 < n
    OBVIOUS
  <2>2. b[j - 1] < b[n] /\ b[j - 1] \in Nat /\ b[j - 1] < b[j] /\ b[j] \in Nat /\ b[j] <= b[n]
    BY <1>2, <1>3, <1>4, <2>1
  <2>3. PICK i \in 1..len + 1 : i = b[j - 1] + 1
    BY <1>2, <2>2
  <2>4. PICK c : c = Cut(s, cuts, i)
    OBVIOUS
  <2>5. c \in i..len + 1 /\ c \in cuts \cup {len + 1} /\ \A k \in cuts : k >= i => c <= k
    <3>1. cuts \subseteq 1..Len(s) /\ i \in 1..Len(s) + 1
      BY <1>1, <1>5, <2>3
    <3>2. /\ Cut(s, cuts, i) \in i..Len(s) + 1
          /\ Cut(s, cuts, i) \in cuts \cup {Len(s) + 1}
          /\ \A k \in cuts : k >= i => Cut(s, cuts, i) <= k
      BY <3>1, CutIs, Zenon
    <3>. QED BY <1>1, <2>4, <3>2
  <2>6. PICK k \in 0..n : c = b[k]
    <3>1. n \in 0..n
      BY <1>2
    <3>2. CASE c = len + 1
      BY <1>2, <3>1, <3>2
    <3>3. CASE c \in cuts
      <4>1. PICK k \in 1..n - 1 : c = b[k]
        BY <1>2, <3>3
      <4>2. k \in 0..n
        OBVIOUS
      <4>. QED BY <4>1, <4>2
    <3>. QED BY <2>5, <3>2, <3>3
  <2>7. j <= k
    <3>1. ~(b[k] <= b[j - 1])
      BY <2>2, <2>3, <2>5, <2>6
    <3>2. ~(k <= j - 1)
      BY <1>3, <2>1, <2>6, <3>1
    <3>. QED BY <2>6, <3>2
  <2>8. b[j] <= c
    BY <1>3, <2>1, <2>6, <2>7
  <2>9. c <= b[j]
    <3>1. CASE j = n
      BY <1>2, <2>5, <3>1
    <3>2. CASE j # n
      <4>1. j \in 1..n - 1
        BY <1>2, <3>2
      <4>2. b[j] \in cuts /\ b[j] >= i
        BY <1>2, <2>2, <2>3, <4>1
      <4>. QED BY <2>5, <4>2
    <3>. QED BY <3>1, <3>2
  <2>. QED BY <2>2, <2>3, <2>4, <2>5, <2>8, <2>9
<1>8. PICK w : w = [i \in 1..n |-> SubSeq(s, b[i - 1] + 1, b[i] - 1)]
  OBVIOUS
<1>9. w \in Seq(Str) /\ Len(w) = n
  <2>1. ASSUME NEW i \in 1..n PROVE SubSeq(s, b[i - 1] + 1, b[i] - 1) \in Str
    <3>1. i \in 0..n /\ i - 1 \in 0..n
      OBVIOUS
    <3>2. b[i] <= b[n]
      BY <1>2, <1>3, <3>1
    <3>3. PICK x \in Nat, y \in Nat : x = b[i - 1] /\ y = b[i] /\ y <= len + 1 /\ x < y
      BY <1>2, <3>1, <3>2
    <3>4. SubSeq(s, x + 1, y - 1) \in Str
      <4>1. x + 1 \in 1..Len(s) + 1 /\ y - 1 \in x + 1 - 1..Len(s)
        BY <1>1, <3>3
      <4>. QED BY <4>1, SliceIn DEF Str
    <3>. QED BY <3>3, <3>4
  <2>. QED BY <1>2, <1>8, <2>1
<1>. DEFINE Settled == {m \in Nat : \A j \in 1..n : n - j < m => parts[b[j - 1] + 1] = SubSeq(w, j, n)}
<1>10. 0 \in Settled
  BY <1>2
<1>11. ASSUME NEW m \in Nat, m \in Settled PROVE m + 1 \in Settled
  <2>1. SUFFICES ASSUME NEW j \in 1..n, n - j < m + 1 PROVE parts[b[j - 1] + 1] = SubSeq(w, j, n)
    OBVIOUS
  <2>2. parts[b[j - 1] + 1] = <<SubSeq(s, b[j - 1] + 1, b[j] - 1)>> \o
                              IF b[j] > len THEN << >> ELSE parts[b[j] + 1]
    BY <1>6, <1>7
  <2>3. w[j] = SubSeq(s, b[j - 1] + 1, b[j] - 1)
    BY <1>8
  <2>4. SubSeq(w, j, n) = <<w[j]>> \o IF j = n THEN << >> ELSE SubSeq(w, j + 1, n)
    <3>1. j \in 1..Len(w)
      BY <1>9
    <3>. QED BY <1>9, <3>1, SliceOff
  <2>5. CASE j = n
    <3>1. b[j] > len
      BY <1>2, <2>5
    <3>. QED BY <2>2, <2>3, <2>4, <2>5, <3>1
  <2>6. CASE j # n
    <3>1. j + 1 \in 1..n /\ n - (j + 1) < m /\ j + 1 - 1 = j /\ j \in 0..n /\ n \in 0..n /\ j < n
      BY <1>2, <2>1, <2>6
    <3>2. b[j] < b[n]
      BY <1>4, <3>1
    <3>3. ~(b[j] > len)
      BY <1>1, <1>2, <3>1, <3>2
    <3>4. parts[b[j] + 1] = SubSeq(w, j + 1, n)
      <4>1. \A k \in 1..n : n - k < m => parts[b[k - 1] + 1] = SubSeq(w, k, n)
        BY <1>11
      <4>2. PICK k \in 1..n : k = j + 1 /\ n - k < m /\ k - 1 = j
        BY <3>1
      <4>. QED BY <4>1, <4>2
    <3>. QED BY <2>2, <2>3, <2>4, <2>6, <3>3, <3>4
  <2>. QED BY <2>5, <2>6
<1>12. Nat \subseteq Settled
  <2>. HIDE DEF Settled
  <2>. QED BY <1>10, <1>11, Induction
<1>13. parts[b[0] + 1] = SubSeq(w, 1, n)
  <2>1. n \in Settled
    <3>. HIDE DEF Settled
    <3>. QED BY <1>12
  <2>2. 1 \in 1..n /\ n - 1 < n /\ 1 - 1 = 0
    OBVIOUS
  <2>. QED BY <2>1, <2>2
<1>14. SubSeq(w, 1, n) = w
  BY <1>2, <1>9
<1>15. b[0] + 1 = 1
  BY <1>2
<1>16. SplitAt(s, cuts) = w
  BY <1>6, <1>13, <1>14, <1>15, Zenon
<1>. QED BY <1>8, <1>16, Zenon
--------------------------------------------------------------------------------
(* Words                                                                   *)

\* LEMMA: a tail of a string, byte by byte.
LEMMA Tailed ==
    ASSUME NEW t \in Str, Len(t) # 0
    PROVE  LET s == SubSeq(t, 2, Len(t))
           IN  s \in Str /\ Len(s) = Len(t) - 1 /\ \A k \in 1..Len(t) - 1 : s[k] = t[k + 1]
<1>1. PICK n \in Nat : n = Len(t) /\ n # 0
  BY DEF Str
<1>2. 2 \in 1..Len(t) + 1 /\ n \in 2 - 1..Len(t)
  BY <1>1
<1>3. /\ SubSeq(t, 2, n) \in Str /\ Len(SubSeq(t, 2, n)) = n - 2 + 1
      /\ \A m \in 1..n - 2 + 1 : SubSeq(t, 2, n)[m] = t[2 + m - 1]
  BY <1>2, SliceIn DEF Str
<1>4. n - 2 + 1 = n - 1 /\ \A m \in 1..n - 1 : 2 + m - 1 = m + 1
  BY <1>1
<1>. QED BY <1>1, <1>3, <1>4

\* The places of the spaces between the words.
Words(b, s, tokens) ==
    /\ s \in Str /\ b \in [0..Len(tokens) -> Nat] /\ b[0] = 0 /\ b[Len(tokens)] = Len(s) + 1
    /\ \A i \in 1..Len(tokens) : b[i] = b[i - 1] + Len(tokens[i]) + 1
    /\ \A i \in 1..Len(tokens) : \A k \in 1..Len(tokens[i]) : s[b[i - 1] + k] = tokens[i][k]
    /\ \A i \in 1..Len(tokens) - 1 : s[b[i]] = Space
    /\ \A x \in 1..Len(s) : \E i \in 1..Len(tokens) : x \in b[i - 1] + 1 .. b[i]

\* LEMMA: words joined have them.
LEMMA JoinedWords ==
    ASSUME NEW tokens \in Seq(Str), Len(tokens) # 0
    PROVE  \E b : Words(b, Joined(tokens), tokens)
<1>1. PICK n \in Nat : n = Len(tokens) /\ n # 0 /\ DOMAIN tokens = 1..n
  OBVIOUS
<1>2. \A i \in 1..n : tokens[i] \in Str
  BY <1>1
<1>3. PICK ss : ss = [i \in 1..n |-> <<Space>> \o tokens[i]]
  OBVIOUS
<1>4. ASSUME NEW i \in 1..n
      PROVE  /\ ss[i] \in Str /\ Len(tokens[i]) \in Nat /\ Len(ss[i]) = Len(tokens[i]) + 1
             /\ ss[i][1] = Space /\ \A k \in 1..Len(tokens[i]) : ss[i][k + 1] = tokens[i][k]
  <2>1. PICK u \in Seq(Nat) : u = tokens[i]
    BY <1>2 DEF Str
  <2>2. <<Space>> \in Seq(Nat) /\ Len(<<Space>>) = 1 /\ <<Space>>[1] = Space
    BY DEF Space
  <2>3. PICK v : v = <<Space>> \o u
    OBVIOUS
  <2>4. v \in Seq(Nat) /\ Len(u) \in Nat /\ Len(v) = Len(u) + 1
    BY <2>2, <2>3
  <2>5. v[1] = Space /\ \A k \in 1..Len(u) : v[k + 1] = u[k]
    BY <2>2, <2>3
  <2>. QED BY <1>3, <2>1, <2>3, <2>4, <2>5 DEF Str
<1>5. ss \in Seq(Seq(Nat)) /\ Len(ss) = n
  BY <1>3, <1>4 DEF Str
<1>6. PICK t : t = FlattenSeq(ss)
  OBVIOUS
<1>7. Joined(tokens) = SubSeq(t, 2, Len(t))
  BY <1>1, <1>3, <1>6 DEF Joined, Spelled
<1>8. PICK b : t \in Seq(Nat) /\ Ends(b, t, ss)
  BY <1>5, <1>6, FlattenPlaces
<1>9. /\ b \in [0..n -> Nat] /\ b[0] = 0 /\ b[n] = Len(t)
      /\ \A i \in 1..n : b[i] = b[i - 1] + Len(ss[i])
      /\ \A i \in 1..n : \A k \in 1..Len(ss[i]) : t[b[i - 1] + k] = ss[i][k]
      /\ \A x \in 1..Len(t) : \E i \in 1..n : x \in b[i - 1] + 1 .. b[i]
  BY <1>5, <1>8 DEF Ends
<1>0. /\ \A i \in 0..n : b[i] \in Nat
      /\ \A i \in 1..n : Len(tokens[i]) \in Nat /\ i \in 0..n /\ i - 1 \in 0..n
  BY <1>4, <1>9
<1>10. \A i \in 1..n : b[i] = b[i - 1] + Len(tokens[i]) + 1
  <2>1. SUFFICES ASSUME NEW i \in 1..n PROVE b[i] = b[i - 1] + Len(tokens[i]) + 1
    OBVIOUS
  <2>2. b[i - 1] \in Nat
    BY <1>9
  <2>. QED BY <1>4, <1>9, <2>2
<1>11. PICK len \in Nat : len = Len(t) /\ len # 0
  <2>1. Len(t) \in Nat
    BY <1>8
  <2>2. n - 1 \in 0..n /\ n \in 1..n
    BY <1>1
  <2>3. b[n] = b[n - 1] + Len(tokens[n]) + 1 /\ b[n - 1] \in Nat /\ Len(tokens[n]) \in Nat
    BY <1>4, <1>9, <1>10, <2>2
  <2>. QED BY <1>9, <2>1, <2>3
<1>12. PICK s : s = SubSeq(t, 2, len)
  OBVIOUS
<1>13. s \in Str /\ Len(s) = len - 1 /\ \A k \in 1..len - 1 : s[k] = t[k + 1]
  <2>1. t \in Str /\ Len(t) # 0
    BY <1>8, <1>11 DEF Str
  <2>. QED BY <1>11, <1>12, <2>1, Tailed
<1>14. \A i, k \in 0..n : i <= k => b[i] <= b[k]
  <2>1. \A i \in 1..n : b[i - 1] <= b[i]
    <3>1. SUFFICES ASSUME NEW i \in 1..n PROVE b[i - 1] <= b[i]
      OBVIOUS
    <3>2. b[i - 1] \in Nat /\ Len(tokens[i]) \in Nat
      BY <1>0
    <3>. QED BY <1>10, <3>2
  <2>2. \A i \in 0..n : b[i] \in Nat
    BY <1>9
  <2>. QED BY <2>1, <2>2, Ascending
<1>15. ASSUME NEW i \in 1..n, NEW k \in 1..Len(tokens[i]) PROVE s[b[i - 1] + k] = tokens[i][k]
  <2>1. b[i - 1] \in Nat /\ b[i] \in Nat /\ Len(tokens[i]) \in Nat /\ k \in Nat
    BY <1>4, <1>9
  <2>2. b[i] <= len /\ b[i] = b[i - 1] + Len(tokens[i]) + 1
    <3>1. i \in 0..n /\ n \in 0..n /\ i <= n
      OBVIOUS
    <3>2. b[i] <= b[n]
      BY <1>14, <3>1
    <3>. QED BY <1>9, <1>10, <1>11, <3>2
  <2>3. b[i - 1] + k \in 1..len - 1
    BY <2>1, <2>2
  <2>4. s[b[i - 1] + k] = t[b[i - 1] + k + 1]
    BY <1>13, <2>3
  <2>5. k + 1 \in 1..Len(ss[i]) /\ b[i - 1] + (k + 1) = b[i - 1] + k + 1
    <3>1. Len(ss[i]) = Len(tokens[i]) + 1
      BY <1>4
    <3>. QED BY <2>1, <3>1
  <2>6. t[b[i - 1] + (k + 1)] = ss[i][k + 1]
    BY <1>9, <2>5
  <2>. QED BY <1>4, <2>4, <2>5, <2>6
<1>16. ASSUME NEW i \in 1..n - 1 PROVE s[b[i]] = Space
  <2>1. i + 1 \in 1..n /\ i + 1 - 1 = i /\ i \in 1..n /\ i - 1 \in 0..n /\ i \in 0..n
    OBVIOUS
  <2>2. /\ b[i + 1] \in Nat /\ b[i] \in Nat /\ b[i - 1] \in Nat
        /\ Len(tokens[i]) \in Nat /\ Len(tokens[i + 1]) \in Nat
    BY <1>0, <2>1
  <2>3. b[i + 1] <= len
    <3>1. i + 1 \in 0..n /\ n \in 0..n /\ i + 1 <= n
      BY <2>1
    <3>2. b[i + 1] <= b[n]
      BY <1>14, <3>1
    <3>. QED BY <1>9, <1>11, <3>2
  <2>4. b[i + 1] = b[i] + Len(tokens[i + 1]) + 1
    BY <1>10, <2>1
  <2>5. b[i] = b[i - 1] + Len(tokens[i]) + 1
    BY <1>10, <2>1
  <2>6. b[i] \in 1..len - 1
    <3>1. PICK x \in Nat, y \in Nat, z \in Nat, p \in Nat, q \in Nat :
             x = b[i - 1] /\ y = b[i] /\ z = b[i + 1] /\ p = Len(tokens[i]) /\ q = Len(tokens[i + 1])
      BY <2>2
    <3>2. y = x + p + 1 /\ z = y + q + 1 /\ z <= len
      BY <2>3, <2>4, <2>5, <3>1
    <3>3. y \in 1..len - 1
      BY <3>2
    <3>. QED BY <3>1, <3>3
  <2>7. s[b[i]] = t[b[i] + 1]
    BY <1>13, <2>6
  <2>8. t[b[i] + 1] = ss[i + 1][1]
    <3>1. PICK j \in 1..n : j = i + 1 /\ j - 1 = i
      BY <2>1
    <3>2. Len(ss[j]) = Len(tokens[j]) + 1 /\ Len(tokens[j]) \in Nat
      BY <1>4
    <3>3. 1 \in 1..Len(ss[j])
      BY <3>2
    <3>4. t[b[j - 1] + 1] = ss[j][1]
      BY <1>9, <3>3
    <3>. QED BY <3>1, <3>4
  <2>. QED BY <1>4, <2>1, <2>7, <2>8
<1>17. ASSUME NEW x \in 1..len - 1 PROVE \E i \in 1..n : x \in b[i - 1] + 1 .. b[i]
  <2>1. x \in 1..Len(t)
    BY <1>11
  <2>2. PICK i \in 1..n : x \in b[i - 1] + 1 .. b[i]
    BY <1>9, <2>1
  <2>. QED BY <2>2
<1>18. Words(b, s, tokens)
  <2>1. Len(s) + 1 = len
    BY <1>11, <1>13
  <2>. QED BY <1>1, <1>9, <1>10, <1>11, <1>13, <1>15, <1>16, <1>17, <2>1 DEF Words
<1>. QED BY <1>7, <1>11, <1>12, <1>18
\* A string without any of some bytes.
Free(s, bytes) == \A k \in DOMAIN s : s[k] \notin bytes

\* LEMMA: what the places of the words are.
LEMMA WordsPlaced ==
    ASSUME NEW tokens \in Seq(Str), Len(tokens) # 0, NEW s, NEW b, Words(b, s, tokens)
    PROVE  /\ \A i \in 0..Len(tokens) : b[i] \in Nat /\ b[i] <= Len(s) + 1
           /\ \A i \in 1..Len(tokens) :
                 /\ Len(tokens[i]) \in Nat /\ tokens[i] \in Str /\ i \in 0..Len(tokens) /\ i - 1 \in 0..Len(tokens)
                 /\ b[i - 1] < b[i] /\ b[i] = b[i - 1] + Len(tokens[i]) + 1
           /\ \A i \in 1..Len(tokens) - 1 : b[i] \in DOMAIN s /\ s[b[i]] = Space
<1>1. PICK n \in Nat : n = Len(tokens) /\ n # 0 /\ DOMAIN tokens = 1..n
  OBVIOUS
<1>2. \A i \in 1..n : tokens[i] \in Str /\ Len(tokens[i]) \in Nat /\ i \in 0..n /\ i - 1 \in 0..n
  BY <1>1 DEF Str
<1>3. PICK len \in Nat : len = Len(s) /\ DOMAIN s = 1..len
  BY DEF Words, Str
<1>4. /\ \A i \in 0..n : b[i] \in Nat
      /\ b[0] = 0 /\ b[n] = len + 1
      /\ \A i \in 1..n : b[i] = b[i - 1] + Len(tokens[i]) + 1
      /\ \A i \in 1..n - 1 : s[b[i]] = Space
  BY <1>1, <1>3 DEF Words
<1>5. ASSUME NEW i \in 1..n PROVE b[i - 1] < b[i]
  <2>1. b[i - 1] \in Nat /\ Len(tokens[i]) \in Nat /\ b[i] = b[i - 1] + Len(tokens[i]) + 1
    BY <1>2, <1>4
  <2>. QED BY <2>1
<1>6. \A i, k \in 0..n : i <= k => b[i] <= b[k]
  <2>1. \A i \in 1..n : b[i - 1] <= b[i]
    <3>1. SUFFICES ASSUME NEW i \in 1..n PROVE b[i - 1] <= b[i]
      OBVIOUS
    <3>2. b[i - 1] \in Nat /\ b[i] \in Nat
      BY <1>2, <1>4
    <3>. QED BY <1>5, <3>2
  <2>2. \A i \in 0..n : b[i] \in Nat
    BY <1>4
  <2>. QED BY <2>1, <2>2, Ascending
<1>7. \A i \in 0..n : b[i] <= len + 1
  <2>1. SUFFICES ASSUME NEW i \in 0..n PROVE b[i] <= len + 1
    OBVIOUS
  <2>2. n \in 0..n /\ i <= n
    OBVIOUS
  <2>. QED BY <1>4, <1>6, <2>2
<1>8. ASSUME NEW i \in 1..n - 1 PROVE b[i] \in 1..len /\ s[b[i]] = Space
  <2>1. PICK j \in 1..n : j = i + 1 /\ j - 1 = i /\ i \in 1..n
    BY <1>1
  <2>2. b[j - 1] < b[j] /\ b[j] <= len + 1 /\ b[j] \in Nat
    BY <1>2, <1>4, <1>5, <1>7
  <2>3. b[i - 1] < b[i] /\ b[i - 1] \in Nat /\ b[i] \in Nat
    BY <1>2, <1>4, <1>5, <2>1
  <2>4. b[i] \in 1..len
    BY <2>1, <2>2, <2>3
  <2>. QED BY <1>4, <2>4
<1>. QED BY <1>1, <1>2, <1>3, <1>4, <1>5, <1>7, <1>8

\* LEMMA: a position between two places is one of a word, or the place.
LEMMA WordAt ==
    ASSUME NEW tokens \in Seq(Str), Len(tokens) # 0, NEW s, NEW b, Words(b, s, tokens), NEW x \in DOMAIN s
    PROVE  \E i \in 1..Len(tokens) :
              \/ i # Len(tokens) /\ x = b[i]
              \/ \E k \in DOMAIN tokens[i] : s[x] = tokens[i][k]
<1>1. PICK n \in Nat : n = Len(tokens) /\ n # 0
  OBVIOUS
<1>2. PICK len \in Nat : len = Len(s) /\ DOMAIN s = 1..len
  <2>1. s \in Seq(Nat)
    BY DEF Words, Str
  <2>. QED BY <2>1
<1>3. PICK i \in 1..n : x \in b[i - 1] + 1 .. b[i]
  BY <1>1, <1>2 DEF Words
<1>4. /\ i \in 0..n /\ i - 1 \in 0..n /\ Len(tokens[i]) \in Nat /\ tokens[i] \in Str
      /\ b[i] = b[i - 1] + Len(tokens[i]) + 1
  BY <1>1, WordsPlaced, Zenon
<1>5. b[i] \in Nat /\ b[i - 1] \in Nat
  BY <1>1, <1>4, WordsPlaced, Zenon
<1>6. CASE x = b[i]
  <2>1. i # n
    BY <1>1, <1>2, <1>6 DEF Words
  <2>. QED BY <1>1, <1>6, <2>1
<1>7. CASE x # b[i]
  <2>1. PICK k \in 1..Len(tokens[i]) : x = b[i - 1] + k
    <3>1. x - b[i - 1] \in 1..Len(tokens[i]) /\ x = b[i - 1] + (x - b[i - 1])
      BY <1>2, <1>3, <1>4, <1>5, <1>7
    <3>. QED BY <3>1
  <2>2. s[x] = tokens[i][k]
    BY <1>1, <2>1 DEF Words
  <2>3. k \in DOMAIN tokens[i]
    BY <1>4, <2>1 DEF Str
  <2>. QED BY <1>1, <2>2, <2>3
<1>. QED BY <1>6, <1>7

\* LEMMA: words come apart as they were put together.
LEMMA SplitJoined ==
    ASSUME NEW tokens \in Seq(Str), Len(tokens) # 0, \A i \in DOMAIN tokens : Free(tokens[i], {Space})
    PROVE  /\ Joined(tokens) \in Str
           /\ SplitAt(Joined(tokens), At(Joined(tokens), {Space})) = tokens
<1>1. PICK n \in Nat \ {0} : n = Len(tokens) /\ DOMAIN tokens = 1..n
  OBVIOUS
<1>2. PICK s : s = Joined(tokens)
  OBVIOUS
<1>3. PICK b : Words(b, s, tokens)
  BY <1>2, JoinedWords
<1>4. s \in Str /\ \A x \in DOMAIN s : x \in Nat
  BY <1>3 DEF Words, Str
<1>5. PICK cuts : cuts = At(s, {Space})
  OBVIOUS
<1>6. cuts = {b[i] : i \in 1..n - 1}
  <2>1. ASSUME NEW x \in cuts PROVE \E i \in 1..n - 1 : x = b[i]
    <3>1. x \in DOMAIN s /\ s[x] = Space
      BY <1>5 DEF At
    <3>2. PICK i \in 1..n : \/ i # n /\ x = b[i]
                            \/ \E k \in DOMAIN tokens[i] : s[x] = tokens[i][k]
      BY <1>1, <1>3, <3>1, WordAt
    <3>3. ~ \E k \in DOMAIN tokens[i] : s[x] = tokens[i][k]
      BY <1>1, <3>1 DEF Free
    <3>4. i \in 1..n - 1 /\ x = b[i]
      BY <3>2, <3>3
    <3>. QED BY <3>4
  <2>2. \A i \in 1..n - 1 : b[i] \in DOMAIN s /\ s[b[i]] = Space
    BY <1>1, <1>3, WordsPlaced
  <2>3. \A i \in 1..n - 1 : b[i] \in cuts
    BY <1>5, <2>2 DEF At
  <2>. QED BY <2>1, <2>3
<1>7. Bounds(b, n, s, cuts)
  <2>1. b \in [0..n -> Nat] /\ b[0] = 0 /\ b[n] = Len(s) + 1
    BY <1>1, <1>3 DEF Words
  <2>2. \A i \in 1..n : b[i - 1] < b[i]
    BY <1>1, <1>3, WordsPlaced
  <2>. QED BY <1>6, <2>1, <2>2 DEF Bounds
<1>8. SplitAt(s, cuts) = [i \in 1..n |-> SubSeq(s, b[i - 1] + 1, b[i] - 1)]
  BY <1>4, <1>7, SplitBounds
<1>9. ASSUME NEW i \in 1..n PROVE SubSeq(s, b[i - 1] + 1, b[i] - 1) = tokens[i]
  <2>1. /\ i \in 0..n /\ i - 1 \in 0..n /\ Len(tokens[i]) \in Nat /\ tokens[i] \in Str
        /\ b[i] = b[i - 1] + Len(tokens[i]) + 1
    BY <1>1, <1>3, WordsPlaced
  <2>2. b[i] \in Nat /\ b[i] <= Len(s) + 1 /\ b[i - 1] \in Nat
    BY <1>1, <1>3, <2>1, WordsPlaced, Zenon
  <2>3. PICK x \in Nat, y \in Nat, m \in Nat :
           x = b[i - 1] /\ y = b[i] /\ m = Len(tokens[i]) /\ y = x + m + 1 /\ y <= Len(s) + 1
    BY <2>1, <2>2
  <2>4. x + 1 \in 1..Len(s) + 1 /\ y - 1 \in x + 1 - 1..Len(s) /\ y - 1 - (x + 1) + 1 = m
    <3>1. PICK len \in Nat : len = Len(s)
      BY <1>4 DEF Str
    <3>2. y = x + m + 1 /\ y <= len + 1
      BY <2>3, <3>1
    <3>3. x <= len /\ x + 1 - 1 = x /\ y - 1 = x + m /\ x + m <= len
      BY <3>2
    <3>4. x + 1 \in 1..len + 1 /\ x + m \in x..len /\ x + m - (x + 1) + 1 = m
      BY <3>3
    <3>. QED BY <3>1, <3>3, <3>4
  <2>5. PICK u : u = SubSeq(s, x + 1, y - 1)
    OBVIOUS
  <2>6. u \in Str /\ Len(u) = m /\ \A k \in 1..m : u[k] = s[x + 1 + k - 1]
    <3>1. s \in Seq(Nat)
      BY <1>4 DEF Str
    <3>2. PICK p, q : p = x + 1 /\ q = y - 1 /\ q - p + 1 = m
      BY <2>4
    <3>3. /\ SubSeq(s, p, q) \in Seq(Nat) /\ Len(SubSeq(s, p, q)) = q - p + 1
          /\ \A k \in 1..q - p + 1 : SubSeq(s, p, q)[k] = s[p + k - 1]
      BY <2>4, <3>1, <3>2, SliceIn
    <3>. QED BY <2>5, <3>2, <3>3 DEF Str
  <2>7. \A k \in 1..m : u[k] = tokens[i][k]
    <3>1. SUFFICES ASSUME NEW k \in 1..m PROVE u[k] = tokens[i][k]
      OBVIOUS
    <3>2. x + 1 + k - 1 = x + k
      OBVIOUS
    <3>3. s[x + k] = tokens[i][k]
      BY <1>1, <1>3, <2>3 DEF Words
    <3>. QED BY <2>6, <3>2, <3>3
  <2>8. u = tokens[i]
    <3>1. u \in Seq(Nat) /\ tokens[i] \in Seq(Nat) /\ Len(u) = Len(tokens[i])
      BY <2>1, <2>3, <2>6 DEF Str
    <3>2. \A k \in 1..Len(u) : u[k] = tokens[i][k]
      BY <2>6, <2>7
    <3>. QED BY <3>1, <3>2, Same
  <2>. QED BY <2>3, <2>5, <2>8
<1>10. SplitAt(s, cuts) = tokens
  <2>1. [i \in 1..n |-> SubSeq(s, b[i - 1] + 1, b[i] - 1)] = [i \in 1..n |-> tokens[i]]
    BY <1>9
  <2>2. tokens = [i \in 1..n |-> tokens[i]]
    BY <1>1
  <2>. QED BY <1>8, <2>1, <2>2
<1>. QED BY <1>2, <1>4, <1>5, <1>10

\* LEMMA: what is in no word is not in what they are joined to.
LEMMA JoinedFree ==
    ASSUME NEW tokens \in Seq(Str), Len(tokens) # 0, NEW bytes, Space \notin bytes,
           \A i \in DOMAIN tokens : Free(tokens[i], bytes)
    PROVE  Free(Joined(tokens), bytes)
<1>1. PICK n \in Nat \ {0} : n = Len(tokens) /\ DOMAIN tokens = 1..n
  OBVIOUS
<1>2. PICK s : s = Joined(tokens)
  OBVIOUS
<1>3. PICK b : Words(b, s, tokens)
  BY <1>2, JoinedWords
<1>4. ASSUME NEW x \in DOMAIN s PROVE s[x] \notin bytes
  <2>1. PICK i \in 1..n : \/ i # n /\ x = b[i]
                          \/ \E k \in DOMAIN tokens[i] : s[x] = tokens[i][k]
    BY <1>1, <1>3, WordAt
  <2>2. CASE i # n /\ x = b[i]
    <3>1. i \in 1..n - 1
      BY <2>2
    <3>2. s[b[i]] = Space
      BY <1>1, <1>3, <3>1, WordsPlaced
    <3>. QED BY <2>2, <3>2
  <2>3. CASE \E k \in DOMAIN tokens[i] : s[x] = tokens[i][k]
    BY <1>1, <2>3 DEF Free
  <2>. QED BY <2>1, <2>2, <2>3
<1>. QED BY <1>2, <1>4 DEF Free
\* LEMMA: what is put behind a sequence.
LEMMA Beside ==
    ASSUME NEW S, NEW s \in Seq(S), NEW t \in Seq(S)
    PROVE  /\ s \o t \in Seq(S) /\ Len(s \o t) = Len(s) + Len(t) /\ DOMAIN (s \o t) = 1..Len(s) + Len(t)
           /\ \A k \in 1..Len(s) : (s \o t)[k] = s[k]
           /\ \A k \in 1..Len(t) : (s \o t)[Len(s) + k] = t[k]
OBVIOUS

\* LEMMA: what is put behind a string.
LEMMA Behind ==
    ASSUME NEW s \in Str, NEW t \in Str
    PROVE  /\ s \o t \in Str /\ Len(s) \in Nat /\ Len(t) \in Nat /\ Len(s \o t) = Len(s) + Len(t)
           /\ DOMAIN s = 1..Len(s) /\ DOMAIN t = 1..Len(t) /\ DOMAIN (s \o t) = 1..Len(s) + Len(t)
           /\ \A k \in 1..Len(s) : (s \o t)[k] = s[k]
           /\ \A k \in 1..Len(t) : (s \o t)[Len(s) + k] = t[k]
BY DEF Str

\* LEMMA: what is ahead of it is the slice up to there, and it is the slice
\* from there.
LEMMA Ahead ==
    ASSUME NEW s \in Str, NEW t \in Str
    PROVE  /\ SubSeq(s \o t, 1, Len(s)) = s
           /\ SubSeq(s \o t, Len(s) + 1, Len(s) + Len(t)) = t
<1>1. PICK u : u = s \o t
  OBVIOUS
<1>2. PICK p \in Nat, q \in Nat : p = Len(s) /\ q = Len(t)
  BY DEF Str
<1>3. /\ u \in Str /\ Len(u) = p + q /\ \A k \in 1..p : u[k] = s[k]
      /\ \A k \in 1..q : u[p + k] = t[k]
  BY <1>1, <1>2, Behind
<1>4. SubSeq(u, 1, p) = s
  <2>1. 1 \in 1..Len(u) + 1 /\ p \in 1 - 1..Len(u) /\ p - 1 + 1 = p
    BY <1>3
  <2>2. /\ SubSeq(u, 1, p) \in Seq(Nat) /\ Len(SubSeq(u, 1, p)) = p
        /\ \A k \in 1..p : SubSeq(u, 1, p)[k] = u[1 + k - 1]
    BY <1>3, <2>1, SliceIn DEF Str
  <2>3. \A k \in 1..p : 1 + k - 1 = k
    OBVIOUS
  <2>4. \A k \in 1..Len(SubSeq(u, 1, p)) : SubSeq(u, 1, p)[k] = s[k]
    BY <1>3, <2>2, <2>3
  <2>. QED BY <1>2, <2>2, <2>4, Same DEF Str
<1>5. SubSeq(u, p + 1, p + q) = t
  <2>1. p + 1 \in 1..Len(u) + 1 /\ p + q \in p + 1 - 1..Len(u) /\ p + q - (p + 1) + 1 = q
    BY <1>3
  <2>2. PICK v : v = SubSeq(u, p + 1, p + q)
    OBVIOUS
  <2>3. /\ v \in Seq(Nat) /\ Len(v) = q
        /\ \A k \in 1..q : v[k] = u[p + 1 + k - 1]
    <3>1. PICK a, z : a = p + 1 /\ z = p + q /\ z - a + 1 = q
      BY <2>1
    <3>2. u \in Seq(Nat) /\ a \in 1..Len(u) + 1 /\ z \in a - 1..Len(u)
      BY <1>3, <2>1, <3>1 DEF Str
    <3>3. /\ SubSeq(u, a, z) \in Seq(Nat) /\ Len(SubSeq(u, a, z)) = z - a + 1
          /\ \A k \in 1..z - a + 1 : SubSeq(u, a, z)[k] = u[a + k - 1]
      BY <3>2, SliceIn
    <3>. QED BY <2>2, <3>1, <3>3
  <2>4. \A k \in 1..q : p + 1 + k - 1 = p + k
    OBVIOUS
  <2>5. \A k \in 1..Len(v) : v[k] = t[k]
    BY <1>3, <2>3, <2>4
  <2>. QED BY <1>2, <2>2, <2>3, <2>5, Same DEF Str
<1>. QED BY <1>1, <1>2, <1>4, <1>5

--------------------------------------------------------------------------------
(* The audit record                                                        *)

\* LEMMA: what ENRICHED adds is cut off again.
LEMMA EnrichedIs ==
    ASSUME NEW t \in Str, Free(t, {GroupSeparator}), NEW suffix \in Str,
           suffix # << >> => suffix[1] = GroupSeparator
    PROVE  Enriched(t \o suffix) = t
<1>1. PICK s : s = t \o suffix
  OBVIOUS
<1>2. PICK p \in Nat, q \in Nat : p = Len(t) /\ q = Len(suffix)
  BY DEF Str
<1>3. /\ s \in Str /\ Len(s) = p + q /\ DOMAIN s = 1..p + q /\ DOMAIN t = 1..p
      /\ \A k \in 1..p : s[k] = t[k]
      /\ \A k \in 1..q : s[p + k] = suffix[k]
  BY <1>1, <1>2, Behind
<1>4. PICK cuts : cuts = At(s, {GroupSeparator})
  OBVIOUS
<1>5. \A k \in cuts : k \in 1..p + q /\ ~(k <= p)
  BY <1>3, <1>4 DEF At, Free
<1>6. q # 0 => p + 1 \in cuts
  <2>1. SUFFICES ASSUME q # 0 PROVE p + 1 \in cuts
    OBVIOUS
  <2>2. suffix # << >> /\ 1 \in 1..q
    BY <1>2, <2>1
  <2>3. s[p + 1] = GroupSeparator /\ p + 1 \in 1..p + q
    BY <1>3, <2>1, <2>2
  <2>. QED BY <1>3, <1>4, <2>3 DEF At
<1>7. PICK c : c = Cut(s, cuts, 1)
  OBVIOUS
<1>8. c = p + 1
  <2>1. cuts \subseteq 1..Len(s) /\ 1 \in 1..Len(s) + 1
    BY <1>3, <1>5
  <2>2. /\ c \in 1..Len(s) + 1 /\ c \in cuts \cup {Len(s) + 1}
        /\ \A k \in cuts : k >= 1 => c <= k
    BY <1>3, <1>7, <2>1, CutIs
  <2>3. CASE q = 0
    <3>1. cuts = {}
      BY <1>5, <2>3
    <3>. QED BY <1>3, <2>2, <2>3, <3>1
  <2>4. CASE q # 0
    <3>1. c <= p + 1
      BY <1>6, <2>2, <2>4
    <3>. QED BY <1>3, <1>5, <2>2, <2>4, <3>1
  <2>. QED BY <2>3, <2>4
<1>9. SplitAt(s, cuts)[1] = SubSeq(s, 1, p)
  <2>1. cuts \subseteq 1..Len(s)
    BY <1>3, <1>5
  <2>2. SplitAt(s, cuts)[1] = SubSeq(s, 1, c - 1)
    BY <1>3, <1>7, <2>1, SplitFirst
  <2>3. c - 1 = p
    BY <1>8
  <2>. QED BY <2>2, <2>3
<1>. QED BY <1>1, <1>2, <1>4, <1>9, Ahead DEF Enriched

\* LEMMA: a token is one field, its name up to the first `=`.
LEMMA FieldOfIs ==
    ASSUME NEW name \in Str, name # << >>, Free(name, {Equals}), NEW value \in Str
    PROVE  FieldOf(name \o <<Equals>> \o value) = <<<<name, value>>>>
<1>1. PICK p \in Nat, q \in Nat : p = Len(name) /\ q = Len(value) /\ p # 0
  BY DEF Str
<1>2. <<Equals>> \in Str /\ Len(<<Equals>>) = 1 /\ <<Equals>>[1] = Equals
  BY DEF Str, Equals
<1>3. PICK h : h = name \o <<Equals>>
  OBVIOUS
<1>4. PICK t : t = h \o value
  OBVIOUS
<1>5. /\ h \in Str /\ Len(h) = p + 1
      /\ \A k \in 1..p : h[k] = name[k]
      /\ h[p + 1] = Equals /\ DOMAIN name = 1..p
  BY <1>1, <1>2, <1>3, Behind
<1>6. /\ t \in Str /\ Len(t) = p + 1 + q /\ DOMAIN t = 1..p + 1 + q
      /\ \A k \in 1..p + 1 : t[k] = h[k]
  <2>1. PICK r \in Nat : r = p + 1 /\ r = Len(h)
    BY <1>5
  <2>2. /\ t \in Str /\ Len(t) = r + q /\ DOMAIN t = 1..r + q
        /\ \A k \in 1..r : t[k] = h[k]
    <3>1. h \in Str
      BY <1>5
    <3>2. /\ h \o value \in Str /\ Len(h \o value) = Len(h) + Len(value)
          /\ DOMAIN (h \o value) = 1..Len(h) + Len(value)
          /\ \A k \in 1..Len(h) : (h \o value)[k] = h[k]
      BY <3>1, Behind, Zenon
    <3>. QED BY <1>1, <1>4, <2>1, <3>2
  <2>. QED BY <2>1, <2>2
<1>7. PICK eqs : eqs = At(t, {Equals})
  OBVIOUS
<1>8. p + 1 \in eqs /\ eqs \subseteq Nat /\ \A k \in eqs : ~(k <= p)
  <2>1. p + 1 \in DOMAIN t /\ t[p + 1] = Equals
    BY <1>5, <1>6
  <2>2. \A k \in DOMAIN t : k \in Nat /\ k >= 1
    BY <1>6
  <2>3. ASSUME NEW k \in eqs PROVE ~(k <= p)
    <3>1. k \in DOMAIN t /\ t[k] = Equals
      BY <1>7 DEF At
    <3>2. SUFFICES ASSUME k <= p PROVE FALSE
      OBVIOUS
    <3>3. k \in 1..p /\ k \in 1..p + 1
      BY <2>2, <3>1, <3>2
    <3>4. t[k] = name[k] /\ k \in DOMAIN name
      BY <1>5, <1>6, <3>3
    <3>. QED BY <3>1, <3>4 DEF Free
  <2>. QED BY <1>7, <2>1, <2>2, <2>3 DEF At
<1>9. Smallest(eqs) = p + 1
  <2>1. Smallest(eqs) \in eqs /\ \A m \in eqs : Smallest(eqs) <= m
    BY <1>8, SmallestIn
  <2>2. PICK c : c = Smallest(eqs)
    OBVIOUS
  <2>3. c \in Nat /\ c <= p + 1 /\ ~(c <= p)
    BY <1>8, <2>1, <2>2
  <2>. QED BY <2>2, <2>3
<1>10. SubSeq(t, 1, p) = name
  <2>1. t = name \o (<<Equals>> \o value) /\ <<Equals>> \o value \in Str
    BY <1>2, <1>3, <1>4, Behind DEF Str
  <2>. QED BY <1>1, <2>1, Ahead
<1>11. SubSeq(t, p + 2, Len(t)) = value
  <2>1. SubSeq(t, p + 1 + 1, p + 1 + q) = value
    <3>1. PICK r \in Nat : r = p + 1 /\ r = Len(h)
      BY <1>5
    <3>2. SubSeq(t, r + 1, r + q) = value
      <4>1. h \in Str
        BY <1>5
      <4>2. SubSeq(h \o value, Len(h) + 1, Len(h) + Len(value)) = value
        BY <4>1, Ahead, Zenon
      <4>. QED BY <1>1, <1>4, <3>1, <4>2
    <3>. QED BY <3>1, <3>2
  <2>2. p + 1 + 1 = p + 2
    OBVIOUS
  <2>. QED BY <1>6, <2>1, <2>2
<1>12. eqs # {} /\ p + 1 # 1 /\ p + 1 - 1 = p /\ p + 1 + 1 = p + 2
  BY <1>1, <1>8
<1>13. FieldOf(t) = <<<<SubSeq(t, 1, p), SubSeq(t, p + 2, Len(t))>>>>
  <2>1. PICK eq : eq = Smallest(At(t, {Equals})) /\ eq = p + 1
    BY <1>7, <1>9
  <2>2. FieldOf(t) = IF At(t, {Equals}) = {} \/ eq = 1 THEN << >>
                     ELSE <<<<SubSeq(t, 1, eq - 1), SubSeq(t, eq + 1, Len(t))>>>>
    BY <2>1 DEF FieldOf
  <2>3. At(t, {Equals}) # {} /\ eq # 1 /\ eq - 1 = p /\ eq + 1 = p + 2
    BY <1>7, <1>12, <2>1
  <2>. QED BY <2>2, <2>3
<1>. QED BY <1>3, <1>4, <1>10, <1>11, <1>13

\* LEMMA: one element each, put together.
LEMMA FlattenSingles ==
    ASSUME NEW S, NEW e \in Seq(S), NEW ss, ss = [i \in DOMAIN e |-> <<e[i]>>]
    PROVE  FlattenSeq(ss) = e
<1>1. PICK n \in Nat : n = Len(e) /\ DOMAIN e = 1..n
  OBVIOUS
<1>2. \A i \in 1..n : e[i] \in S /\ ss[i] = <<e[i]>> /\ ss[i] \in Seq(S) /\ Len(ss[i]) = 1 /\ ss[i][1] = e[i]
  BY <1>1
<1>3. ss \in Seq(Seq(S)) /\ Len(ss) = n
  BY <1>1, <1>2
<1>4. PICK t : t = FlattenSeq(ss)
  OBVIOUS
<1>5. PICK end : t \in Seq(S) /\ Ends(end, t, ss)
  BY <1>3, <1>4, FlattenPlaces
<1>6. /\ end[0] = 0 /\ end[n] = Len(t)
      /\ \A i \in 1..n : end[i] = end[i - 1] + 1
      /\ \A i \in 1..n : t[end[i - 1] + 1] = e[i]
  <2>1. /\ end[0] = 0 /\ end[n] = Len(t)
        /\ \A i \in 1..n : end[i] = end[i - 1] + Len(ss[i])
        /\ \A i \in 1..n : \A k \in 1..Len(ss[i]) : t[end[i - 1] + k] = ss[i][k]
    BY <1>3, <1>5 DEF Ends
  <2>2. \A i \in 1..n : end[i] = end[i - 1] + 1
    BY <1>2, <2>1
  <2>3. \A i \in 1..n : t[end[i - 1] + 1] = e[i]
    <3>1. SUFFICES ASSUME NEW i \in 1..n PROVE t[end[i - 1] + 1] = e[i]
      OBVIOUS
    <3>2. Len(ss[i]) = 1 /\ ss[i][1] = e[i]
      BY <1>2, Zenon
    <3>3. 1 \in 1..Len(ss[i]) /\ ss[i][1] = e[i]
      BY <3>2
    <3>. QED BY <2>1, <3>3
  <2>. QED BY <2>1, <2>2, <2>3
<1>. DEFINE Known == {m \in Nat : m <= n => end[m] = m}
<1>7. 0 \in Known
  BY <1>6
<1>8. ASSUME NEW m \in Nat, m \in Known PROVE m + 1 \in Known
  <2>1. SUFFICES ASSUME m + 1 <= n PROVE end[m + 1] = m + 1
    OBVIOUS
  <2>2. m + 1 \in 1..n /\ m + 1 - 1 = m /\ end[m] = m
    BY <1>8, <2>1
  <2>. QED BY <1>6, <2>2
<1>9. Nat \subseteq Known
  <2>. HIDE DEF Known
  <2>. QED BY <1>7, <1>8, Induction
<1>10. \A m \in 0..n : end[m] = m
  BY <1>9
<1>11. Len(t) = n
  BY <1>6, <1>10
<1>12. \A i \in 1..n : t[i] = e[i]
  <2>1. SUFFICES ASSUME NEW i \in 1..n PROVE t[i] = e[i]
    OBVIOUS
  <2>2. i - 1 \in 0..n /\ i - 1 + 1 = i
    OBVIOUS
  <2>. QED BY <1>6, <1>10, <2>2
<1>. QED BY <1>1, <1>4, <1>5, <1>11, <1>12, Same
\* A field whose token is one word, and whose name ends at its `=`.
FieldLike(pair) ==
    /\ pair \in Str \X Str /\ pair[1] # << >>
    /\ Free(pair[1], {Equals, Space, GroupSeparator}) /\ Free(pair[2], {Space, GroupSeparator})

\* LEMMA: such fields are read back from their tokens.
LEMMA FieldsBack ==
    ASSUME NEW pairs, pairs \in Seq(Str \X Str), pairs # << >>, \A i \in DOMAIN pairs : FieldLike(pairs[i]),
           NEW suffix \in Str, suffix # << >> => suffix[1] = GroupSeparator
    PROVE  AuditFields(Joined([i \in DOMAIN pairs |-> pairs[i][1] \o <<Equals>> \o pairs[i][2]]) \o suffix) = pairs
<1>1. PICK n \in Nat : n = Len(pairs) /\ n # 0 /\ DOMAIN pairs = 1..n
  OBVIOUS
<1>2. PICK tokens : tokens = [i \in 1..n |-> pairs[i][1] \o <<Equals>> \o pairs[i][2]]
  OBVIOUS
<1>3. ASSUME NEW i \in 1..n
      PROVE  /\ tokens[i] \in Str /\ Free(tokens[i], {Space}) /\ Free(tokens[i], {GroupSeparator})
             /\ FieldOf(tokens[i]) = <<pairs[i]>>
  <2>1. PICK a \in Str, c \in Str : pairs[i] = <<a, c>>
    BY <1>1
  <2>2. /\ a # << >> /\ Free(a, {Equals, Space, GroupSeparator}) /\ Free(c, {Space, GroupSeparator})
    <3>1. FieldLike(<<a, c>>)
      BY <1>1, <2>1
    <3>. QED BY <3>1 DEF FieldLike
  <2>3. tokens[i] = a \o <<Equals>> \o c
    <3>1. tokens[i] = pairs[i][1] \o <<Equals>> \o pairs[i][2]
      BY <1>2
    <3>2. pairs[i][1] = a /\ pairs[i][2] = c
      BY <2>1
    <3>. QED BY <3>1, <3>2
  <2>4. <<Equals>> \in Str /\ Len(<<Equals>>) = 1 /\ <<Equals>>[1] = Equals
    BY DEF Str, Equals
  <2>5. PICK h : h = a \o <<Equals>>
    OBVIOUS
  <2>6. /\ h \in Str /\ Len(a) \in Nat /\ Len(h) = Len(a) + 1 /\ DOMAIN a = 1..Len(a)
        /\ DOMAIN h = 1..Len(a) + 1
        /\ \A k \in 1..Len(a) : h[k] = a[k]
        /\ h[Len(a) + 1] = Equals
    BY <2>4, <2>5, Behind
  <2>7. PICK t : t = h \o c
    OBVIOUS
  <2>8. /\ t \in Str /\ Len(h) \in Nat /\ Len(c) \in Nat /\ DOMAIN t = 1..Len(h) + Len(c)
        /\ DOMAIN h = 1..Len(h) /\ DOMAIN c = 1..Len(c)
        /\ \A k \in 1..Len(h) : t[k] = h[k]
        /\ \A k \in 1..Len(c) : t[Len(h) + k] = c[k]
    <3>1. h \in Str
      BY <2>6
    <3>2. /\ h \o c \in Str /\ Len(h) \in Nat /\ Len(c) \in Nat /\ DOMAIN (h \o c) = 1..Len(h) + Len(c)
          /\ DOMAIN h = 1..Len(h) /\ DOMAIN c = 1..Len(c)
          /\ \A k \in 1..Len(h) : (h \o c)[k] = h[k]
          /\ \A k \in 1..Len(c) : (h \o c)[Len(h) + k] = c[k]
      BY <3>1, Behind, Zenon
    <3>. QED BY <2>7, <3>2, Zenon
  <2>9. ASSUME NEW k \in DOMAIN t PROVE t[k] # Space /\ t[k] # GroupSeparator
    <3>1. CASE k \in 1..Len(a)
      <4>1. k \in 1..Len(h) /\ k \in DOMAIN a
        BY <2>6, <3>1
      <4>2. t[k] = a[k]
        BY <2>6, <2>8, <3>1, <4>1
      <4>. QED BY <2>2, <4>1, <4>2 DEF Free
    <3>2. CASE k = Len(a) + 1
      <4>1. k \in 1..Len(h)
        BY <2>6, <3>2
      <4>2. t[k] = Equals
        BY <2>6, <2>8, <3>2, <4>1
      <4>. QED BY <4>2 DEF Equals, Space, GroupSeparator
    <3>3. CASE k \notin 1..Len(a) /\ k # Len(a) + 1
      <4>1. PICK m \in 1..Len(c) : k = Len(h) + m
        <5>1. k - Len(h) \in 1..Len(c) /\ k = Len(h) + (k - Len(h))
          BY <2>6, <2>8, <3>3
        <5>. QED BY <5>1
      <4>2. t[k] = c[m] /\ m \in DOMAIN c
        BY <2>8, <4>1
      <4>. QED BY <2>2, <4>2 DEF Free
    <3>. QED BY <3>1, <3>2, <3>3
  <2>10. tokens[i] = t
    BY <2>3, <2>5, <2>7
  <2>11. FieldOf(tokens[i]) = <<<<a, c>>>>
    <3>1. Free(a, {Equals})
      BY <2>2 DEF Free
    <3>2. FieldOf(a \o <<Equals>> \o c) = <<<<a, c>>>>
      BY <2>2, <3>1, FieldOfIs, Zenon
    <3>. QED BY <2>3, <3>2
  <2>. QED BY <2>1, <2>8, <2>9, <2>10, <2>11 DEF Free
<1>4. tokens \in Seq(Str) /\ Len(tokens) # 0 /\ DOMAIN tokens = 1..n
  BY <1>1, <1>2, <1>3
<1>5. Joined(tokens) \in Str /\ SplitAt(Joined(tokens), At(Joined(tokens), {Space})) = tokens
  BY <1>3, <1>4, SplitJoined
<1>6. Free(Joined(tokens), {GroupSeparator})
  <2>1. Space \notin {GroupSeparator}
    BY DEF Space, GroupSeparator
  <2>. QED BY <1>3, <1>4, <2>1, JoinedFree
<1>7. Enriched(Joined(tokens) \o suffix) = Joined(tokens)
  BY <1>5, <1>6, EnrichedIs
<1>8. Fields(tokens) = pairs
  <2>1. [i \in DOMAIN tokens |-> FieldOf(tokens[i])] = [i \in DOMAIN pairs |-> <<pairs[i]>>]
    BY <1>1, <1>3, <1>4
  <2>2. FlattenSeq([i \in DOMAIN pairs |-> <<pairs[i]>>]) = pairs
    BY FlattenSingles
  <2>3. Fields(tokens) = FlattenSeq([i \in DOMAIN tokens |-> FieldOf(tokens[i])])
    BY DEF Fields, Spelled
  <2>. QED BY <2>1, <2>2, <2>3
<1>9. AuditFields(Joined(tokens) \o suffix) = pairs
  BY <1>5, <1>7, <1>8 DEF AuditFields
<1>. QED BY <1>1, <1>2, <1>9

\* LEMMA: the first field of the name is the one that is read.
LEMMA ValueIs ==
    ASSUME NEW side \in Sides, NEW j \in DOMAIN side, \A i \in DOMAIN side : i < j => side[i][1] # side[j][1]
    PROVE  Value(side, side[j][1]) = side[j][2]
<1>1. side # Absent
  BY AbsentAssumption
<1>2. PICK at : at = {i \in DOMAIN side : side[i][1] = side[j][1]}
  OBVIOUS
<1>3. j \in at /\ at \subseteq Nat /\ \A i \in at : ~(i < j)
  BY <1>2 DEF Sides
<1>4. Smallest(at) = j
  <2>1. Smallest(at) \in at /\ \A m \in at : Smallest(at) <= m
    BY <1>3, SmallestIn
  <2>. QED BY <1>3, <2>1
<1>. QED BY <1>1, <1>2, <1>3, <1>4 DEF Value

\* LEMMA: a string without a backslash is unescaped to itself.
LEMMA UnescapePlain ==
    ASSUME NEW s \in Str, Free(s, {Backslash})
    PROVE  Unescape(s) = s
<1>. DEFINE n == Len(s) + 1
            octal(i) == /\ i + 3 <= Len(s) /\ s[i + 1] = Zero
                        /\ s[i + 2] - Zero \in 0..3 /\ s[i + 3] - Zero \in 0..7
            Body(f, i) == IF i > Len(s) THEN << >>
                          ELSE IF s[i] # Backslash \/ i = Len(s) THEN <<s[i]>> \o f[i + 1]
                          ELSE IF octal(i)
                          THEN <<(s[i + 2] - Zero) * 8 + s[i + 3] - Zero>> \o f[i + 4]
                          ELSE <<s[i + 1]>> \o f[i + 2]
            IsFrom(f) == f = [i \in 1..n |-> Body(f, i)]
            f0 == [i \in 1..n |-> SubSeq(s, i, Len(s))]
            from == CHOOSE f : IsFrom(f)
<1>1. n \in Nat /\ DOMAIN s = 1..Len(s) /\ n = Len(s) + 1 /\ Len(s) \in Nat
  BY DEF Str
<1>2. \A f : \A i \in 1..n : Body(f, i) = IF i > Len(s) THEN << >> ELSE <<s[i]>> \o f[i + 1]
  <2>1. \A i \in 1..n : ~(i > Len(s)) => s[i] # Backslash
    BY <1>1 DEF Free
  <2>. HIDE DEF octal
  <2>. QED BY <1>1, <2>1
<1>. HIDE DEF Body
<1>3. IsFrom(f0)
  <2>1. ASSUME NEW i \in 1..n PROVE f0[i] = Body(f0, i)
    <3>1. CASE i > Len(s)
      <4>1. i = Len(s) + 1
        BY <1>1, <3>1
      <4>2. SubSeq(s, i, Len(s)) = << >>
        BY <1>1, <4>1 DEF Str
      <4>. QED BY <1>2, <3>1, <4>2
    <3>2. CASE ~(i > Len(s))
      <4>1. i \in 1..Len(s) /\ i + 1 \in 1..n
        BY <1>1, <3>2
      <4>2. SubSeq(s, i, Len(s)) = <<s[i]>> \o IF i = Len(s) THEN << >> ELSE SubSeq(s, i + 1, Len(s))
        BY <4>1, SliceOff DEF Str
      <4>3. i = Len(s) => SubSeq(s, i + 1, Len(s)) = << >>
        BY <1>1 DEF Str
      <4>4. f0[i + 1] = SubSeq(s, i + 1, Len(s)) /\ f0[i] = SubSeq(s, i, Len(s))
        BY <4>1
      <4>. HIDE DEF f0
      <4>. QED BY <1>2, <3>2, <4>2, <4>3, <4>4
    <3>. QED BY <3>1, <3>2
  <2>. QED BY <2>1
<1>4. IsFrom(from)
  <2>. HIDE DEF IsFrom, f0
  <2>. QED BY <1>3
<1>5. Unescape(s) = from[1]
  BY DEF Unescape, Body
<1>. HIDE DEF from
<1>6. \A i \in 1..n : from[i] = IF i > Len(s) THEN << >> ELSE <<s[i]>> \o from[i + 1]
  BY <1>2, <1>4
<1>. DEFINE Shown1 == {m \in Nat : \A i \in 1..n : n - i < m => from[i] = SubSeq(s, i, Len(s))}
<1>7. 0 \in Shown1
  BY <1>1
<1>8. ASSUME NEW m \in Nat, m \in Shown1 PROVE m + 1 \in Shown1
  <2>1. SUFFICES ASSUME NEW i \in 1..n, n - i < m + 1 PROVE from[i] = SubSeq(s, i, Len(s))
    OBVIOUS
  <2>2. CASE i > Len(s)
    <3>1. i = Len(s) + 1
      BY <1>1, <2>2
    <3>2. SubSeq(s, i, Len(s)) = << >>
      BY <1>1, <3>1 DEF Str
    <3>. QED BY <1>6, <2>2, <3>2
  <2>3. CASE ~(i > Len(s))
    <3>1. i \in 1..Len(s) /\ i + 1 \in 1..n /\ n - (i + 1) < m
      BY <1>1, <2>1, <2>3
    <3>2. SubSeq(s, i, Len(s)) = <<s[i]>> \o IF i = Len(s) THEN << >> ELSE SubSeq(s, i + 1, Len(s))
      BY <3>1, SliceOff DEF Str
    <3>3. i = Len(s) => SubSeq(s, i + 1, Len(s)) = << >>
      BY <1>1 DEF Str
    <3>4. from[i + 1] = SubSeq(s, i + 1, Len(s))
      <4>1. \A k \in 1..n : n - k < m => from[k] = SubSeq(s, k, Len(s))
        BY <1>8
      <4>. HIDE DEF n
      <4>. QED BY <3>1, <4>1
    <3>. QED BY <1>6, <2>3, <3>2, <3>3, <3>4
  <2>. QED BY <2>2, <2>3
<1>9. Nat \subseteq Shown1
  <2>. HIDE DEF Shown1
  <2>. QED BY <1>7, <1>8, Induction
<1>10. from[1] = SubSeq(s, 1, Len(s))
  <2>1. n \in Shown1
    <3>. HIDE DEF Shown1
    <3>. QED BY <1>1, <1>9
  <2>2. 1 \in 1..n /\ n - 1 < n
    BY <1>1
  <2>. QED BY <2>1, <2>2
<1>11. SubSeq(s, 1, Len(s)) = s
  BY DEF Str
<1>. QED BY <1>5, <1>10, <1>11
--------------------------------------------------------------------------------
(* What auditd writes for a string                                         *)

ByteString == Seq(0..255)

\* n pairs of the digits a and c.
Digits(ss, n, a, c) ==
    /\ ss = [i \in 1..n |-> <<a[i], c[i]>>]
    /\ \A i \in 1..n : a[i] \in Nat /\ c[i] \in Nat

\* LEMMA: two digits each, put together.
LEMMA FlattenPairs ==
    ASSUME NEW n \in Nat, NEW a, NEW c, NEW ss, Digits(ss, n, a, c), NEW t, t = FlattenSeq(ss)
    PROVE  /\ t \in Str /\ Len(t) = 2 * n
           /\ \A i \in 1..n : t[2 * i - 1] = a[i] /\ t[2 * i] = c[i]
           /\ \A k \in 1..2 * n : \E i \in 1..n : k = 2 * i - 1 \/ k = 2 * i
<1>1. /\ ss = [i \in 1..n |-> <<a[i], c[i]>>]
      /\ \A i \in 1..n : a[i] \in Nat /\ c[i] \in Nat
  BY DEF Digits
<1>2. ASSUME NEW i \in 1..n
      PROVE  ss[i] \in Seq(Nat) /\ Len(ss[i]) = 2 /\ ss[i][1] = a[i] /\ ss[i][2] = c[i]
  <2>1. PICK p \in Nat, q \in Nat : p = a[i] /\ q = c[i]
    BY <1>1
  <2>2. ss[i] = <<p, q>>
    BY <1>1, <2>1
  <2>3. <<p, q>> \in Seq(Nat) /\ Len(<<p, q>>) = 2 /\ <<p, q>>[1] = p /\ <<p, q>>[2] = q
    OBVIOUS
  <2>. QED BY <2>1, <2>2, <2>3
<1>3. ss \in Seq(Seq(Nat)) /\ Len(ss) = n
  BY <1>1, <1>2
<1>4. t = FlattenSeq(ss)
  OBVIOUS
<1>5. PICK end : t \in Seq(Nat) /\ Ends(end, t, ss)
  BY <1>3, <1>4, FlattenPlaces
<1>6. /\ end[0] = 0 /\ end[n] = Len(t)
      /\ \A i \in 1..n : end[i] = end[i - 1] + Len(ss[i])
      /\ \A i \in 1..n : \A k \in 1..Len(ss[i]) : t[end[i - 1] + k] = ss[i][k]
  BY <1>3, <1>5 DEF Ends
<1>7. \A i \in 1..n : end[i] = end[i - 1] + 2
  BY <1>2, <1>6
<1>8. \A i \in 1..n : t[end[i - 1] + 1] = a[i] /\ t[end[i - 1] + 2] = c[i]
  <2>1. SUFFICES ASSUME NEW i \in 1..n
                 PROVE  t[end[i - 1] + 1] = a[i] /\ t[end[i - 1] + 2] = c[i]
    OBVIOUS
  <2>2. Len(ss[i]) = 2 /\ ss[i][1] = a[i] /\ ss[i][2] = c[i]
    BY <1>2, Zenon
  <2>3. 1 \in 1..Len(ss[i]) /\ 2 \in 1..Len(ss[i])
    BY <2>2
  <2>. QED BY <1>6, <2>2, <2>3
<1>. DEFINE Known == {m \in Nat : m <= n => end[m] = 2 * m}
<1>9. 0 \in Known
  BY <1>6
<1>10. ASSUME NEW m \in Nat, m \in Known PROVE m + 1 \in Known
  <2>1. SUFFICES ASSUME m + 1 <= n PROVE end[m + 1] = 2 * (m + 1)
    OBVIOUS
  <2>2. m + 1 \in 1..n /\ m + 1 - 1 = m /\ end[m] = 2 * m
    BY <1>10, <2>1
  <2>3. end[m + 1] = end[m] + 2
    BY <1>7, <2>2
  <2>. QED BY <2>2, <2>3
<1>11. Nat \subseteq Known
  <2>. HIDE DEF Known
  <2>. QED BY <1>9, <1>10, Induction
<1>12. \A m \in 0..n : end[m] = 2 * m
  BY <1>11
<1>13. Len(t) = 2 * n
  BY <1>6, <1>12
<1>14. \A i \in 1..n : t[2 * i - 1] = a[i] /\ t[2 * i] = c[i]
  <2>1. SUFFICES ASSUME NEW i \in 1..n PROVE t[2 * i - 1] = a[i] /\ t[2 * i] = c[i]
    OBVIOUS
  <2>2. i - 1 \in 0..n
    OBVIOUS
  <2>3. end[i - 1] = 2 * (i - 1)
    BY <1>12, <2>2
  <2>4. end[i - 1] + 1 = 2 * i - 1 /\ end[i - 1] + 2 = 2 * i
    BY <2>3
  <2>. QED BY <1>8, <2>4
<1>15. ASSUME NEW k \in 1..2 * n PROVE \E i \in 1..n : k = 2 * i - 1 \/ k = 2 * i
  <2>1. PICK i \in Nat : k = 2 * i - 1 \/ k = 2 * i
    <3>1. k = 2 * ((k + 1) \div 2) - 1 \/ k = 2 * ((k + 1) \div 2)
      OBVIOUS
    <3>2. (k + 1) \div 2 \in Nat
      OBVIOUS
    <3>. QED BY <3>1, <3>2
  <2>2. i \in 1..n
    BY <2>1
  <2>. QED BY <2>1, <2>2
<1>. QED BY <1>5, <1>13, <1>14, <1>15 DEF Str

\* LEMMA: a hex digit is worth what it was written for.
LEMMA NibbleOfDigit ==
    ASSUME NEW x \in 0..15
    PROVE  /\ Upper(HexDigit(x)) \in 48..70 /\ Nibble(Upper(HexDigit(x))) = x
<1>1. CASE x < 10
  <2>1. HexDigit(x) = 48 + x
    BY <1>1 DEF HexDigit
  <2>2. Upper(HexDigit(x)) = 48 + x
    BY <1>1, <2>1 DEF Upper
  <2>. QED BY <1>1, <2>2 DEF Nibble
<1>2. CASE ~(x < 10)
  <2>1. HexDigit(x) = 87 + x
    BY <1>2 DEF HexDigit
  <2>2. Upper(HexDigit(x)) = 55 + x
    BY <1>2, <2>1 DEF Upper
  <2>. QED BY <1>2, <2>2 DEF Nibble
<1>. QED BY <1>1, <1>2

\* LEMMA: a byte in hex.
LEMMA HexByteIs ==
    ASSUME NEW byte \in 0..255
    PROVE  \E p, q \in 48..70 :
              /\ HexByte(byte) = <<p, q>> /\ Nibble(p) \in 0..15 /\ Nibble(q) \in 0..15
              /\ Nibble(p) * 16 + Nibble(q) = byte
<1>1. PICK x \in 0..15, y \in 0..15 : x = byte \div 16 /\ y = byte % 16 /\ x * 16 + y = byte
  <2>1. byte \div 16 \in 0..15 /\ byte % 16 \in 0..15 /\ (byte \div 16) * 16 + (byte % 16) = byte
    OBVIOUS
  <2>. QED BY <2>1
<1>2. PICK p, q \in 48..70 : p = Upper(HexDigit(x)) /\ q = Upper(HexDigit(y)) /\ Nibble(p) = x /\ Nibble(q) = y
  BY NibbleOfDigit
<1>3. HexByte(byte) = <<p, q>>
  <2>1. HexOf(byte) = <<HexDigit(x), HexDigit(y)>>
    BY <1>1 DEF HexOf
  <2>2. HexOf(byte)[1] = HexDigit(x) /\ HexOf(byte)[2] = HexDigit(y)
    BY <2>1
  <2>. QED BY <1>2, <2>2 DEF HexByte
<1>. QED BY <1>1, <1>2, <1>3

\* LEMMA: a string is one word and decoded to itself, quoted or in hex.
LEMMA EncodedIs ==
    ASSUME NEW v \in ByteString
    PROVE  /\ Encoded(v) \in Str /\ Free(Encoded(v), {Space, GroupSeparator})
           /\ Decode(Encoded(v)) = v
<1>1. PICK n \in Nat : n = Len(v) /\ DOMAIN v = 1..n /\ v \in Seq(Nat) /\ \A k \in 1..n : v[k] \in 0..255
  <2>1. v \in Seq(0..255) /\ 0..255 \subseteq Nat
    BY DEF ByteString
  <2>2. v \in Seq(Nat) /\ Len(v) \in Nat /\ DOMAIN v = 1..Len(v) /\ \A k \in 1..Len(v) : v[k] \in 0..255
    BY <2>1, Wider, Zenon
  <2>. QED BY <2>2
<1>2. PICK t : t = Encoded(v)
  OBVIOUS
<1>3. CASE \E k \in DOMAIN v : v[k] = Quote \/ v[k] < 33 \/ v[k] > 126
  <2>1. PICK a, c : a = [k \in 1..n |-> HexByte(v[k])[1]] /\ c = [k \in 1..n |-> HexByte(v[k])[2]]
    OBVIOUS
  <2>2. ASSUME NEW k \in 1..n
        PROVE  /\ a[k] \in 48..70 /\ c[k] \in 48..70
               /\ HexByte(v[k]) = <<a[k], c[k]>>
               /\ Nibble(a[k]) \in 0..15 /\ Nibble(c[k]) \in 0..15
               /\ Nibble(a[k]) * 16 + Nibble(c[k]) = v[k]
    <3>1. v[k] \in 0..255
      BY <1>1
    <3>2. PICK p, q \in 48..70 :
            /\ HexByte(v[k]) = <<p, q>> /\ Nibble(p) \in 0..15 /\ Nibble(q) \in 0..15
            /\ Nibble(p) * 16 + Nibble(q) = v[k]
      BY <3>1, HexByteIs
    <3>3. a[k] = p /\ c[k] = q
      BY <2>1, <3>2
    <3>. QED BY <3>2, <3>3
  <2>3. \A k \in 1..n : a[k] \in Nat /\ c[k] \in Nat
    BY <2>2
  <2>4. PICK ss : ss = [k \in 1..n |-> <<a[k], c[k]>>] /\ t = FlattenSeq(ss)
    <3>1. [k \in DOMAIN v |-> HexByte(v[k])] = [k \in 1..n |-> <<a[k], c[k]>>]
      BY <1>1, <2>2
    <3>. QED BY <1>2, <1>3, <3>1 DEF Encoded, Spelled
  <2>5. /\ t \in Str /\ Len(t) = 2 * n
        /\ \A i \in 1..n : t[2 * i - 1] = a[i] /\ t[2 * i] = c[i]
        /\ \A k \in 1..2 * n : \E i \in 1..n : k = 2 * i - 1 \/ k = 2 * i
    <3>1. Digits(ss, n, a, c)
      BY <2>3, <2>4 DEF Digits
    <3>2. t = FlattenSeq(ss)
      BY <2>4
    <3>3. t \in Str
      BY <3>1, <3>2, FlattenPairs
    <3>4. Len(t) = 2 * n
      BY <3>1, <3>2, FlattenPairs
    <3>5. \A i \in 1..n : t[2 * i - 1] = a[i] /\ t[2 * i] = c[i]
      BY <3>1, <3>2, FlattenPairs
    <3>6. \A k \in 1..2 * n : \E i \in 1..n : k = 2 * i - 1 \/ k = 2 * i
      BY <3>1, <3>2, FlattenPairs
    <3>. QED BY <3>3, <3>4, <3>5, <3>6
  <2>6. DOMAIN t = 1..2 * n
    BY <2>5 DEF Str
  <2>7. \A k \in 1..2 * n : t[k] \in 48..70 /\ Nibble(t[k]) \in 0..15
    <3>1. SUFFICES ASSUME NEW k \in 1..2 * n PROVE t[k] \in 48..70 /\ Nibble(t[k]) \in 0..15
      OBVIOUS
    <3>2. PICK i \in 1..n : k = 2 * i - 1 \/ k = 2 * i
      BY <2>5
    <3>3. t[k] = a[i] \/ t[k] = c[i]
      BY <2>5, <3>2
    <3>. QED BY <2>2, <3>3
  <2>8. Free(t, {Space, GroupSeparator})
    <3>1. ASSUME NEW k \in DOMAIN t PROVE t[k] # 32 /\ t[k] # 29
      <4>1. t[k] \in 48..70
        BY <2>6, <2>7
      <4>. QED BY <4>1
    <3>. QED BY <3>1 DEF Free, Space, GroupSeparator
  <2>9. ~(Len(t) >= 2 /\ t[1] = Quote /\ t[Len(t)] = Quote)
    <3>1. SUFFICES ASSUME Len(t) >= 2 PROVE t[1] # 34
      BY DEF Quote
    <3>2. 1 \in 1..2 * n
      BY <2>5, <3>1
    <3>3. PICK b \in 48..70 : b = t[1]
      BY <2>7, <3>2
    <3>. QED BY <3>3
  <2>10. Len(t) % 2 = 0 /\ Len(t) \div 2 = n /\ \A k \in DOMAIN t : Nibble(t[k]) < 16
    <3>1. (2 * n) % 2 = 0 /\ (2 * n) \div 2 = n
      OBVIOUS
    <3>2. \A k \in 1..2 * n : Nibble(t[k]) < 16
      BY <2>7
    <3>. QED BY <2>5, <2>6, <3>1, <3>2
  <2>11. Decode(t) = [k \in 1..n |-> Nibble(t[2 * k - 1]) * 16 + Nibble(t[2 * k])]
    BY <2>9, <2>10 DEF Decode
  <2>12. \A k \in 1..n : Nibble(t[2 * k - 1]) * 16 + Nibble(t[2 * k]) = v[k]
    BY <2>2, <2>5
  <2>13. v = [k \in 1..n |-> v[k]]
    BY <1>1
  <2>. QED BY <1>2, <2>5, <2>8, <2>11, <2>12, <2>13
<1>4. CASE ~ \E k \in DOMAIN v : v[k] = Quote \/ v[k] < 33 \/ v[k] > 126
  <2>1. t = <<Quote>> \o v \o <<Quote>>
    BY <1>2, <1>4 DEF Encoded
  <2>2. <<Quote>> \in Str /\ Len(<<Quote>>) = 1 /\ <<Quote>>[1] = Quote /\ v \in Str
    BY <1>1 DEF Str, Quote
  <2>3. PICK h : h = <<Quote>> \o v
    OBVIOUS
  <2>4. h \in Str /\ Len(h) = 1 + n /\ h[1] = Quote /\ \A k \in 1..n : h[1 + k] = v[k]
    BY <1>1, <2>2, <2>3, Behind
  <2>5. /\ t \in Str /\ Len(t) = n + 2 /\ t[n + 2] = Quote /\ \A k \in 1..n + 1 : t[k] = h[k]
    <3>1. PICK m \in Nat : m = n + 1 /\ Len(h) = m /\ m + 1 = n + 2
      BY <2>4
    <3>2. /\ t \in Str /\ Len(t) = Len(h) + Len(<<Quote>>) /\ \A k \in 1..Len(h) : t[k] = h[k]
          /\ \A k \in 1..Len(<<Quote>>) : t[Len(h) + k] = <<Quote>>[k]
      <4>1. h \in Str /\ t = h \o <<Quote>>
        BY <2>1, <2>3, <2>4
      <4>. QED BY <2>2, <4>1, Behind
    <3>3. Len(t) = m + 1 /\ t[m + 1] = Quote /\ \A k \in 1..m : t[k] = h[k]
      BY <2>2, <3>1, <3>2
    <3>. QED BY <3>1, <3>2, <3>3
  <2>6. t[1] = Quote /\ \A k \in 1..n : t[1 + k] = v[k]
    <3>1. 1 \in 1..n + 1 /\ \A k \in 1..n : 1 + k \in 1..n + 1
      OBVIOUS
    <3>. QED BY <2>4, <2>5, <3>1
  <2>7. DOMAIN t = 1..n + 2
    BY <2>5 DEF Str
  <2>8. ASSUME NEW k \in DOMAIN t PROVE t[k] \notin {Space, GroupSeparator}
    <3>1. CASE k = 1 \/ k = n + 2
      BY <2>5, <2>6, <3>1 DEF Quote, Space, GroupSeparator
    <3>2. CASE ~(k = 1 \/ k = n + 2)
      <4>1. PICK j \in 1..n : k = 1 + j
        <5>1. k - 1 \in 1..n /\ k = 1 + (k - 1)
          BY <2>7, <3>2
        <5>. QED BY <5>1
      <4>2. t[k] = v[j] /\ v[j] \in 0..255 /\ ~(v[j] < 33)
        BY <1>1, <1>4, <2>6, <4>1
      <4>. QED BY <4>2 DEF Space, GroupSeparator
    <3>. QED BY <3>1, <3>2
  <2>9. Decode(t) = SubSeq(t, 2, n + 1)
    <3>1. Len(t) >= 2 /\ t[1] = Quote /\ t[Len(t)] = Quote /\ Len(t) - 1 = n + 1
      BY <2>5, <2>6
    <3>. QED BY <3>1 DEF Decode
  <2>10. SubSeq(t, 2, n + 1) = v
    <3>1. 2 \in 1..Len(t) + 1 /\ n + 1 \in 2 - 1..Len(t) /\ n + 1 - 2 + 1 = n
      BY <2>5
    <3>0. PICK m : m = n + 1 /\ m - 2 + 1 = n
      BY <3>1
    <3>2. PICK u : u = SubSeq(t, 2, m)
      OBVIOUS
    <3>3. /\ u \in Seq(Nat) /\ Len(u) = m - 2 + 1
          /\ \A k \in 1..m - 2 + 1 : u[k] = t[2 + k - 1]
      BY <2>5, <3>0, <3>1, <3>2, SliceIn DEF Str
    <3>4. \A k \in 1..n : 2 + k - 1 = 1 + k
      OBVIOUS
    <3>5. Len(u) = n /\ \A k \in 1..n : u[k] = v[k]
      BY <2>6, <3>0, <3>3, <3>4
    <3>6. u = v
      BY <1>1, <3>3, <3>5, Same
    <3>. QED BY <3>0, <3>2, <3>6
  <2>. QED BY <1>2, <2>5, <2>8, <2>9, <2>10 DEF Free
<1>. QED BY <1>3, <1>4
--------------------------------------------------------------------------------
(* The audit route                                                         *)

\* LEMMA: the fields of a record are those that auditd wrote, behind its type
\* and its serial.
LEMMA AuditLineBack ==
    ASSUME NEW type \in Str, Free(type, {Space, GroupSeparator}),
           NEW fields \in Seq(Str \X Str), \A i \in DOMAIN fields : FieldLike(fields[i]),
           NEW suffix \in Str, suffix # << >> => suffix[1] = GroupSeparator
    PROVE  AuditFields(AuditLine(type, fields, suffix)) = <<<<Type, type>>, <<Msg, Serial>>>> \o fields
<1>1. PICK n \in Nat : n = Len(fields) /\ DOMAIN fields = 1..n /\ \A i \in 1..n : fields[i] \in Str \X Str
  OBVIOUS
<1>2. PICK first : first = <<<<Type, type>>, <<Msg, Serial>>>>
  OBVIOUS
<1>3. Type \in Str /\ Msg \in Str /\ Serial \in Str
  BY DEF Str, Type, Msg, Serial
<1>4. FieldLike(<<Type, type>>) /\ FieldLike(<<Msg, Serial>>)
  <2>1. Type # << >> /\ Free(Type, {Equals, Space, GroupSeparator})
    BY DEF Type, Free, Equals, Space, GroupSeparator
  <2>2. Msg # << >> /\ Free(Msg, {Equals, Space, GroupSeparator})
    BY DEF Msg, Free, Equals, Space, GroupSeparator
  <2>3. Free(Serial, {Space, GroupSeparator})
    BY DEF Serial, Free, Space, GroupSeparator
  <2>. QED BY <1>3, <2>1, <2>2, <2>3 DEF FieldLike
<1>5. first \in Seq(Str \X Str) /\ Len(first) = 2 /\ first[1] = <<Type, type>> /\ first[2] = <<Msg, Serial>>
  BY <1>2, <1>3
<1>6. PICK pairs : pairs = first \o fields
  OBVIOUS
<1>7. /\ pairs \in Seq(Str \X Str) /\ Len(pairs) = 2 + n /\ DOMAIN pairs = 1..2 + n
      /\ pairs[1] = first[1] /\ pairs[2] = first[2]
      /\ \A i \in 1..n : pairs[2 + i] = fields[i]
  <2>1. PICK T : T = Str \X Str /\ first \in Seq(T) /\ fields \in Seq(T)
    BY <1>5
  <2>2. /\ pairs \in Seq(T) /\ Len(pairs) = Len(first) + Len(fields)
        /\ DOMAIN pairs = 1..Len(first) + Len(fields)
        /\ \A k \in 1..Len(first) : pairs[k] = first[k]
        /\ \A k \in 1..Len(fields) : pairs[Len(first) + k] = fields[k]
    BY <1>6, <2>1, Beside
  <2>3. Len(first) = 2 /\ Len(fields) = n /\ 1 \in 1..2 /\ 2 \in 1..2
    BY <1>1, <1>5
  <2>. QED BY <2>1, <2>2, <2>3
<1>8. ASSUME NEW k \in 1..2 + n, k # 1, k # 2 PROVE \E i \in 1..n : k = 2 + i
  <2>1. k - 2 \in 1..n /\ k = 2 + (k - 2)
    BY <1>8
  <2>. QED BY <2>1
<1>9. ASSUME NEW k \in DOMAIN pairs PROVE FieldLike(pairs[k])
  <2>1. CASE k = 1 \/ k = 2
    BY <1>4, <1>5, <1>7, <2>1
  <2>2. CASE ~(k = 1 \/ k = 2)
    <3>1. PICK i \in 1..n : k = 2 + i
      BY <1>7, <1>8, <2>2
    <3>. QED BY <1>1, <1>7, <3>1
  <2>. QED BY <2>1, <2>2
<1>. DEFINE Token(pair) == pair[1] \o <<Equals>> \o pair[2]
<1>10. PICK a, b : a = Token(<<Type, type>>) /\ b = Token(<<Msg, Serial>>)
  OBVIOUS
<1>11. PICK rest : rest = [i \in 1..n |-> Token(fields[i])]
  OBVIOUS
<1>12. ASSUME NEW pair \in Str \X Str PROVE Token(pair) \in Str
  <2>1. PICK p \in Seq(Nat), q \in Seq(Nat) : p = pair[1] /\ q = pair[2]
    BY DEF Str
  <2>2. <<Equals>> \in Seq(Nat)
    BY DEF Equals
  <2>3. p \o <<Equals>> \o q \in Seq(Nat)
    BY <2>1, <2>2
  <2>. QED BY <2>1, <2>3 DEF Str
<1>. HIDE DEF Token
<1>13. a \in Str /\ b \in Str /\ rest \in Seq(Str) /\ Len(rest) = n
  <2>1. <<Type, type>> \in Str \X Str /\ <<Msg, Serial>> \in Str \X Str
    BY <1>3
  <2>2. \A i \in 1..n : rest[i] \in Str
    BY <1>1, <1>11, <1>12
  <2>. QED BY <1>10, <1>11, <1>12, <2>1, <2>2
<1>14. PICK tokens : tokens = <<a, b>> \o rest
  OBVIOUS
<1>15. /\ tokens \in Seq(Str) /\ Len(tokens) = 2 + n /\ tokens[1] = a /\ tokens[2] = b
       /\ \A i \in 1..n : tokens[2 + i] = rest[i]
  BY <1>13, <1>14
<1>16. tokens = [k \in DOMAIN pairs |-> Token(pairs[k])]
  <2>1. ASSUME NEW k \in 1..2 + n PROVE tokens[k] = Token(pairs[k])
    <3>1. CASE k = 1 \/ k = 2
      BY <1>5, <1>7, <1>10, <1>15, <3>1
    <3>2. CASE ~(k = 1 \/ k = 2)
      <4>1. PICK i \in 1..n : k = 2 + i
        BY <1>8, <3>2
      <4>. QED BY <1>7, <1>11, <1>15, <4>1
    <3>. QED BY <3>1, <3>2
  <2>2. tokens = [k \in 1..2 + n |-> tokens[k]]
    BY <1>15
  <2>. QED BY <1>7, <2>1, <2>2
<1>17. AuditLine(type, fields, suffix) = Joined(tokens) \o suffix
  <2>1. a = Type \o <<Equals>> \o type /\ b = Msg \o <<Equals>> \o Serial
    BY <1>10 DEF Token
  <2>2. rest = [i \in DOMAIN fields |-> fields[i][1] \o <<Equals>> \o fields[i][2]]
    BY <1>1, <1>11 DEF Token
  <2>. QED BY <1>14, <2>1, <2>2 DEF AuditLine
<1>18. AuditFields(Joined(tokens) \o suffix) = pairs
  <2>1. tokens = [k \in DOMAIN pairs |-> pairs[k][1] \o <<Equals>> \o pairs[k][2]]
    BY <1>16 DEF Token
  <2>2. pairs # << >>
    BY <1>7
  <2>. QED BY <1>7, <1>9, <2>1, <2>2, FieldsBack
<1>. QED BY <1>2, <1>6, <1>17, <1>18
\* What is to come out of the three lines of an event.
Denial(ev) ==
    [subject |-> <<<<Dec, Deny>>, <<Perm, ev.perm>>, <<Exe, ev.exe>>>>,
     object |-> <<<<Path, ev.path>>, <<Trust, ev.trust>>>>]

\* LEMMA: bytes, and digits, are strings.
LEMMA ByteStringIs ==
    ASSUME NEW v \in Seq(0..255)
    PROVE  v \in Str
<1>1. v \in Seq(0..255) /\ 0..255 \subseteq Nat
  OBVIOUS
<1>. QED BY <1>1, Wider, Zenon DEF Str

\* LEMMA: a sequence of digits is a string.
LEMMA DigitsIs ==
    ASSUME NEW v \in Seq(48..57)
    PROVE  v \in Str /\ Free(v, {Space, GroupSeparator, Backslash})
<1>1. v \in Seq(48..57) /\ 48..57 \subseteq Nat
  OBVIOUS
<1>2. v \in Seq(Nat) /\ DOMAIN v = 1..Len(v) /\ \A k \in 1..Len(v) : v[k] \in 48..57
  BY <1>1, Wider, Zenon
<1>3. ASSUME NEW k \in DOMAIN v PROVE v[k] \notin {Space, GroupSeparator, Backslash}
  <2>1. v[k] \in 48..57
    BY <1>2
  <2>2. v[k] # 32 /\ v[k] # 29 /\ v[k] # 92
    BY <2>1
  <2>. QED BY <2>2 DEF Space, GroupSeparator, Backslash
<1>. QED BY <1>2, <1>3 DEF Str, Free

\* LEMMA: what an event of the audit log holds.
LEMMA AuditEventIs ==
    ASSUME NEW ev \in AuditEvents
    PROVE  /\ ev.perm = Mode["open"] \/ ev.perm = Mode["execute"]
           /\ ev.exe \in ByteString /\ ev.path \in ByteString
           /\ ev.exe \in Str /\ ev.path \in Str /\ ev.trust \in Str /\ ev.perm \in Str
           /\ Free(ev.trust, {Space, GroupSeparator, Backslash})
<1>1. /\ ev.perm \in {Mode["open"], Mode["execute"]}
      /\ ev.exe \in Seq(0..255) /\ ev.path \in Seq(0..255) /\ ev.trust \in Seq(48..57)
  BY AuditAssumption
<1>2. Mode["open"] \in Seq(Nat) /\ Mode["execute"] \in Seq(Nat)
  BY DEF Mode
<1>. QED BY <1>1, <1>2, ByteStringIs, DigitsIs DEF Str, ByteString

\* LEMMA: a field of one short word.
LEMMA WordField ==
    ASSUME NEW name \in {Type, Msg, ObjTrust, Syscall, Items, Exe, Item, Name},
           NEW value \in Str, Free(value, {Space, GroupSeparator})
    PROVE  FieldLike(<<name, value>>)
<1>1. PICK k \in Nat : name = <<k>> /\ k \in 99..121
  BY DEF Type, Msg, ObjTrust, Syscall, Items, Exe, Item, Name
<1>2. name \in Str /\ name # << >> /\ Free(name, {Equals, Space, GroupSeparator})
  BY <1>1 DEF Str, Free, Equals, Space, GroupSeparator
<1>. QED BY <1>2 DEF FieldLike

\* LEMMA: what ENRICHED adds is set apart.
LEMMA EnrichmentIs ==
    ASSUME NEW suffix \in Enrichments
    PROVE  suffix \in Str /\ (suffix # << >> => suffix[1] = GroupSeparator)
<1>1. suffix \in Seq(0..255) /\ (suffix # << >> => suffix[1] = GroupSeparator)
  BY AuditAssumption
<1>. QED BY <1>1, ByteStringIs

Together(S, x, y, a, b, c) ==
    /\ <<x, y>> \o <<a>> = <<x, y, a>> /\ <<x, y, a>> \in Seq(S)
    /\ <<x, y>> \o <<a, b>> = <<x, y, a, b>> /\ <<x, y, a, b>> \in Seq(S)
    /\ <<x, y>> \o <<a, b, c>> = <<x, y, a, b, c>> /\ <<x, y, a, b, c>> \in Seq(S)

\* LEMMA: two and one, two and two, two and three.
LEMMA TwoAnd ==
    ASSUME NEW S, NEW x \in S, NEW y \in S, NEW a \in S, NEW b \in S, NEW c \in S
    PROVE  Together(S, x, y, a, b, c)
<1>1. PICK p : p = <<x, y>>
  OBVIOUS
<1>1b. p \in Seq(S) /\ Len(p) = 2 /\ p[1] = x /\ p[2] = y
  BY <1>1
<1>2. <<x, y>> \o <<a>> = <<x, y, a>> /\ <<x, y, a>> \in Seq(S)
  <2>1. PICK q : q = <<a>>
    OBVIOUS
  <2>1b. q \in Seq(S) /\ Len(q) = 1 /\ q[1] = a
    BY <2>1
  <2>2. PICK t : t = <<x, y, a>>
    OBVIOUS
  <2>2b. t \in Seq(S) /\ Len(t) = 3 /\ t[1] = x /\ t[2] = y /\ t[3] = a
    BY <2>2
  <2>3. PICK s : s = p \o q
    OBVIOUS
  <2>4. /\ s \in Seq(S) /\ Len(s) = Len(p) + Len(q) /\ \A k \in 1..Len(p) : s[k] = p[k]
        /\ \A k \in 1..Len(q) : s[Len(p) + k] = q[k]
    <3>1. p \in Seq(S) /\ q \in Seq(S)
      BY <1>1b, <2>1b
    <3>. QED BY <2>3, <3>1, Beside
  <2>5. Len(s) = 3 /\ s[1] = x /\ s[2] = y /\ s[3] = a
    <3>1. /\ Len(s) = 2 + 1 /\ \A k \in 1..2 : s[k] = p[k]
          /\ \A k \in 1..1 : s[2 + k] = q[k]
      BY <1>1b, <2>1b, <2>4
    <3>2. s[1] = p[1] /\ s[2] = p[2] /\ s[2 + 1] = q[1]
      BY <3>1
    <3>. QED BY <1>1b, <2>1b, <3>1, <3>2
  <2>6. \A k \in 1..Len(s) : s[k] = t[k]
    BY <2>2b, <2>5
  <2>7. s = t
    BY <2>2b, <2>4, <2>5, <2>6, Same
  <2>. QED BY <1>1, <2>1, <2>2, <2>2b, <2>3, <2>7
<1>3. <<x, y>> \o <<a, b>> = <<x, y, a, b>> /\ <<x, y, a, b>> \in Seq(S)
  <2>1. PICK q : q = <<a, b>>
    OBVIOUS
  <2>1b. q \in Seq(S) /\ Len(q) = 2 /\ q[1] = a /\ q[2] = b
    BY <2>1
  <2>2. PICK t : t = <<x, y, a, b>>
    OBVIOUS
  <2>2b. t \in Seq(S) /\ Len(t) = 4 /\ t[1] = x /\ t[2] = y /\ t[3] = a /\ t[4] = b
    BY <2>2
  <2>3. PICK s : s = p \o q
    OBVIOUS
  <2>4. /\ s \in Seq(S) /\ Len(s) = Len(p) + Len(q) /\ \A k \in 1..Len(p) : s[k] = p[k]
        /\ \A k \in 1..Len(q) : s[Len(p) + k] = q[k]
    <3>1. p \in Seq(S) /\ q \in Seq(S)
      BY <1>1b, <2>1b
    <3>. QED BY <2>3, <3>1, Beside
  <2>5. Len(s) = 4 /\ s[1] = x /\ s[2] = y /\ s[3] = a /\ s[4] = b
    <3>1. /\ Len(s) = 2 + 2 /\ \A k \in 1..2 : s[k] = p[k]
          /\ \A k \in 1..2 : s[2 + k] = q[k]
      BY <1>1b, <2>1b, <2>4
    <3>2. s[1] = p[1] /\ s[2] = p[2] /\ s[2 + 1] = q[1] /\ s[2 + 2] = q[2]
      BY <3>1
    <3>. QED BY <1>1b, <2>1b, <3>1, <3>2
  <2>6. \A k \in 1..Len(s) : s[k] = t[k]
    BY <2>2b, <2>5
  <2>7. s = t
    BY <2>2b, <2>4, <2>5, <2>6, Same
  <2>. QED BY <1>1, <2>1, <2>2, <2>2b, <2>3, <2>7
<1>4. <<x, y>> \o <<a, b, c>> = <<x, y, a, b, c>> /\ <<x, y, a, b, c>> \in Seq(S)
  <2>1. PICK q : q = <<a, b, c>>
    OBVIOUS
  <2>1b. q \in Seq(S) /\ Len(q) = 3 /\ q[1] = a /\ q[2] = b /\ q[3] = c
    BY <2>1
  <2>2. PICK t : t = <<x, y, a, b, c>>
    OBVIOUS
  <2>2b. t \in Seq(S) /\ Len(t) = 5 /\ t[1] = x /\ t[2] = y /\ t[3] = a /\ t[4] = b /\ t[5] = c
    BY <2>2
  <2>3. PICK s : s = p \o q
    OBVIOUS
  <2>4. /\ s \in Seq(S) /\ Len(s) = Len(p) + Len(q) /\ \A k \in 1..Len(p) : s[k] = p[k]
        /\ \A k \in 1..Len(q) : s[Len(p) + k] = q[k]
    <3>1. p \in Seq(S) /\ q \in Seq(S)
      BY <1>1b, <2>1b
    <3>. QED BY <2>3, <3>1, Beside
  <2>5. Len(s) = 5 /\ s[1] = x /\ s[2] = y /\ s[3] = a /\ s[4] = b /\ s[5] = c
    <3>1. /\ Len(s) = 2 + 3 /\ \A k \in 1..2 : s[k] = p[k]
          /\ \A k \in 1..3 : s[2 + k] = q[k]
      BY <1>1b, <2>1b, <2>4
    <3>2. s[1] = p[1] /\ s[2] = p[2] /\ s[2 + 1] = q[1] /\ s[2 + 2] = q[2] /\ s[2 + 3] = q[3]
      BY <3>1
    <3>. QED BY <1>1b, <2>1b, <3>1, <3>2
  <2>6. \A k \in 1..Len(s) : s[k] = t[k]
    BY <2>2b, <2>5
  <2>7. s = t
    BY <2>2b, <2>4, <2>5, <2>6, Same
  <2>. QED BY <1>1, <2>1, <2>2, <2>2b, <2>3, <2>7
<1>. QED BY <1>2, <1>3, <1>4 DEF Together

Apart(type, suffix, a, b, c) ==
    /\ AuditFields(AuditLine(type, <<a>>, suffix)) = <<<<Type, type>>, <<Msg, Serial>>, a>>
    /\ AuditFields(AuditLine(type, <<a, b>>, suffix)) = <<<<Type, type>>, <<Msg, Serial>>, a, b>>
    /\ AuditFields(AuditLine(type, <<a, b, c>>, suffix)) = <<<<Type, type>>, <<Msg, Serial>>, a, b, c>>
    /\ <<<<Type, type>>, <<Msg, Serial>>, a>> \in Sides
    /\ <<<<Type, type>>, <<Msg, Serial>>, a, b>> \in Sides
    /\ <<<<Type, type>>, <<Msg, Serial>>, a, b, c>> \in Sides

\* LEMMA: a record with one field, with two, and with three.
LEMMA AuditLineOf ==
    ASSUME NEW type \in Str, Free(type, {Space, GroupSeparator}), NEW suffix \in Enrichments,
           NEW a, FieldLike(a), NEW b, FieldLike(b), NEW c, FieldLike(c)
    PROVE  Apart(type, suffix, a, b, c)
<1>1. suffix \in Str /\ (suffix # << >> => suffix[1] = GroupSeparator)
  BY EnrichmentIs
<1>2. a \in Str \X Str /\ b \in Str \X Str /\ c \in Str \X Str
  BY DEF FieldLike
<1>3. <<a>> \in Seq(Str \X Str) /\ \A i \in DOMAIN <<a>> : FieldLike(<<a>>[i])
  BY <1>2
<1>4. <<a, b>> \in Seq(Str \X Str) /\ \A i \in DOMAIN <<a, b>> : FieldLike(<<a, b>>[i])
  BY <1>2
<1>5. <<a, b, c>> \in Seq(Str \X Str) /\ \A i \in DOMAIN <<a, b, c>> : FieldLike(<<a, b, c>>[i])
  BY <1>2
<1>6. /\ AuditFields(AuditLine(type, <<a>>, suffix)) = <<<<Type, type>>, <<Msg, Serial>>>> \o <<a>>
      /\ AuditFields(AuditLine(type, <<a, b>>, suffix)) = <<<<Type, type>>, <<Msg, Serial>>>> \o <<a, b>>
      /\ AuditFields(AuditLine(type, <<a, b, c>>, suffix)) = <<<<Type, type>>, <<Msg, Serial>>>> \o <<a, b, c>>
  <2>1. AuditFields(AuditLine(type, <<a>>, suffix)) = <<<<Type, type>>, <<Msg, Serial>>>> \o <<a>>
    BY <1>1, <1>3, AuditLineBack
  <2>2. AuditFields(AuditLine(type, <<a, b>>, suffix)) = <<<<Type, type>>, <<Msg, Serial>>>> \o <<a, b>>
    BY <1>1, <1>4, AuditLineBack
  <2>3. AuditFields(AuditLine(type, <<a, b, c>>, suffix)) = <<<<Type, type>>, <<Msg, Serial>>>> \o <<a, b, c>>
    BY <1>1, <1>5, AuditLineBack
  <2>. QED BY <2>1, <2>2, <2>3
<1>7. PICK x \in Str \X Str, y \in Str \X Str : x = <<Type, type>> /\ y = <<Msg, Serial>>
  <2>1. Type \in Str /\ Msg \in Str /\ Serial \in Str
    BY DEF Str, Type, Msg, Serial
  <2>. QED BY <2>1
<1>8. /\ <<x, y>> \o <<a>> = <<x, y, a>> /\ <<x, y, a>> \in Sides
      /\ <<x, y>> \o <<a, b>> = <<x, y, a, b>> /\ <<x, y, a, b>> \in Sides
      /\ <<x, y>> \o <<a, b, c>> = <<x, y, a, b, c>> /\ <<x, y, a, b, c>> \in Sides
  <2>1. Sides = Seq(Str \X Str)
    BY DEF Sides, Str
  <2>2. PICK T : T = Str \X Str
    OBVIOUS
  <2>3. x \in T /\ y \in T /\ a \in T /\ b \in T /\ c \in T
    BY <1>2, <2>2
  <2>4. Together(T, x, y, a, b, c)
    BY <2>3, TwoAnd
  <2>. QED BY <2>1, <2>2, <2>4 DEF Together
<1>. QED BY <1>6, <1>7, <1>8 DEF Apart
\* LEMMA: what the three records of an event are taken apart to.
LEMMA ThreeRecords ==
    ASSUME NEW ev \in AuditEvents, NEW suffix \in Enrichments
    PROVE  LET lines == AuditLines(ev, suffix)
               fan   == AuditFields(lines[1])
               sys   == AuditFields(lines[2])
               file  == AuditFields(lines[3])
               exec  == ev.perm = Mode["execute"]
           IN  /\ Value(fan, ObjTrust) = ev.trust
               /\ Value(sys, Msg) = Serial /\ Value(file, Msg) = Serial
               /\ Value(sys, Syscall) = IF exec THEN Exec ELSE <<50>>
               /\ Value(sys, Items) = IF exec THEN <<50>> ELSE <<49>>
               /\ Value(sys, Exe) = Encoded(ev.exe)
               /\ Value(file, Item) = <<48>> /\ Value(file, Name) = Encoded(ev.path)
<1>. DEFINE lines == AuditLines(ev, suffix)
            fan   == AuditFields(lines[1])
            sys   == AuditFields(lines[2])
            file  == AuditFields(lines[3])
            exec  == ev.perm = Mode["execute"]
<1>1. /\ ev.trust \in Str /\ Free(ev.trust, {Space, GroupSeparator})
      /\ Encoded(ev.exe) \in Str /\ Free(Encoded(ev.exe), {Space, GroupSeparator})
      /\ Encoded(ev.path) \in Str /\ Free(Encoded(ev.path), {Space, GroupSeparator})
  <2>1. Free(ev.trust, {Space, GroupSeparator})
    BY AuditEventIs DEF Free
  <2>. QED BY <2>1, AuditEventIs, EncodedIs
<1>2. PICK call, items : /\ call = (IF exec THEN Exec ELSE <<50>>)
                         /\ items = (IF exec THEN <<50>> ELSE <<49>>)
  OBVIOUS
<1>3. /\ call \in Str /\ Free(call, {Space, GroupSeparator})
      /\ items \in Str /\ Free(items, {Space, GroupSeparator})
      /\ <<48>> \in Str /\ Free(<<48>>, {Space, GroupSeparator})
      /\ <<70>> \in Str /\ Free(<<70>>, {Space, GroupSeparator})
      /\ <<83>> \in Str /\ Free(<<83>>, {Space, GroupSeparator})
      /\ <<80>> \in Str /\ Free(<<80>>, {Space, GroupSeparator})
  <2>1. ASSUME NEW k \in 48..90 PROVE <<k>> \in Str /\ Free(<<k>>, {Space, GroupSeparator})
    BY DEF Str, Free, Space, GroupSeparator
  <2>2. call = <<53>> \/ call = <<50>>
    BY <1>2 DEF Exec
  <2>3. items = <<50>> \/ items = <<49>>
    BY <1>2
  <2>4. \A k \in {48, 49, 50, 53, 70, 80, 83} : <<k>> \in Str /\ Free(<<k>>, {Space, GroupSeparator})
    BY <2>1
  <2>. QED BY <2>2, <2>3, <2>4
<1>4. PICK trust, exe, path : trust = ev.trust /\ exe = Encoded(ev.exe) /\ path = Encoded(ev.path)
  OBVIOUS
<1>5. PICK f1, s1, s2, s3, p1, p2 :
         /\ f1 = <<ObjTrust, trust>> /\ s1 = <<Syscall, call>> /\ s2 = <<Items, items>>
         /\ s3 = <<Exe, exe>> /\ p1 = <<Item, <<48>>>> /\ p2 = <<Name, path>>
  OBVIOUS
<1>6. /\ FieldLike(f1) /\ FieldLike(s1) /\ FieldLike(s2) /\ FieldLike(s3)
      /\ FieldLike(p1) /\ FieldLike(p2)
  BY <1>1, <1>3, <1>4, <1>5, WordField
<1>7. /\ lines[1] = AuditLine(<<70>>, <<f1>>, suffix)
      /\ lines[2] = AuditLine(<<83>>, <<s1, s2, s3>>, suffix)
      /\ lines[3] = AuditLine(<<80>>, <<p1, p2>>, suffix)
  BY <1>2, <1>4, <1>5 DEF AuditLines
<1>. HIDE DEF lines
<1>8. /\ fan = <<<<Type, <<70>>>>, <<Msg, Serial>>, f1>> /\ fan \in Sides
      /\ sys = <<<<Type, <<83>>>>, <<Msg, Serial>>, s1, s2, s3>> /\ sys \in Sides
      /\ file = <<<<Type, <<80>>>>, <<Msg, Serial>>, p1, p2>> /\ file \in Sides
  <2>1. fan = <<<<Type, <<70>>>>, <<Msg, Serial>>, f1>> /\ fan \in Sides
    <3>1. Apart(<<70>>, suffix, f1, f1, f1)
      BY <1>3, <1>6, AuditLineOf
    <3>. QED BY <1>7, <3>1 DEF Apart
  <2>2. sys = <<<<Type, <<83>>>>, <<Msg, Serial>>, s1, s2, s3>> /\ sys \in Sides
    <3>1. Apart(<<83>>, suffix, s1, s2, s3)
      BY <1>3, <1>6, AuditLineOf
    <3>. QED BY <1>7, <3>1 DEF Apart
  <2>3. file = <<<<Type, <<80>>>>, <<Msg, Serial>>, p1, p2>> /\ file \in Sides
    <3>1. Apart(<<80>>, suffix, p1, p2, p2)
      BY <1>3, <1>6, AuditLineOf
    <3>. QED BY <1>7, <3>1 DEF Apart
  <2>. QED BY <2>1, <2>2, <2>3
<1>. HIDE DEF fan, sys, file
<1>9. /\ DOMAIN fan = 1..3 /\ fan[1][1] = Type /\ fan[2][1] = Msg /\ fan[3] = f1
      /\ DOMAIN sys = 1..5 /\ sys[1][1] = Type /\ sys[2] = <<Msg, Serial>> /\ sys[3] = s1
      /\ sys[4] = s2 /\ sys[5] = s3
      /\ DOMAIN file = 1..4 /\ file[1][1] = Type /\ file[2] = <<Msg, Serial>> /\ file[3] = p1
      /\ file[4] = p2
  <2>1. DOMAIN fan = 1..3 /\ fan[1][1] = Type /\ fan[2][1] = Msg /\ fan[3] = f1
    BY <1>8
  <2>2. /\ DOMAIN sys = 1..5 /\ sys[1][1] = Type /\ sys[2] = <<Msg, Serial>> /\ sys[3] = s1
        /\ sys[4] = s2 /\ sys[5] = s3
    BY <1>8
  <2>3. /\ DOMAIN file = 1..4 /\ file[1][1] = Type /\ file[2] = <<Msg, Serial>> /\ file[3] = p1
        /\ file[4] = p2
    BY <1>8
  <2>. QED BY <2>1, <2>2, <2>3
<1>10. /\ f1[1] = ObjTrust /\ f1[2] = trust /\ s1[1] = Syscall /\ s1[2] = call /\ s2[1] = Items /\ s2[2] = items
       /\ s3[1] = Exe /\ s3[2] = exe /\ p1[1] = Item /\ p1[2] = <<48>> /\ p2[1] = Name /\ p2[2] = path
  BY <1>5
<1>11. /\ Type # ObjTrust /\ Msg # ObjTrust /\ Type # Msg /\ Type # Syscall /\ Msg # Syscall /\ Type # Items
       /\ Msg # Items /\ Syscall # Items /\ Type # Exe /\ Msg # Exe /\ Syscall # Exe /\ Items # Exe
       /\ Type # Item /\ Msg # Item /\ Type # Name /\ Msg # Name /\ Item # Name
  BY DEF Type, Msg, ObjTrust, Syscall, Items, Exe, Item, Name
<1>12. Value(fan, ObjTrust) = trust
  <2>1. 3 \in DOMAIN fan /\ \A i \in DOMAIN fan : i < 3 => fan[i][1] # fan[3][1]
    BY <1>9, <1>10, <1>11
  <2>2. Value(fan, fan[3][1]) = fan[3][2]
    BY <1>8, <2>1, ValueIs
  <2>. QED BY <1>9, <1>10, <2>2
<1>13. Value(sys, Msg) = Serial
  <2>1. 2 \in DOMAIN sys /\ \A i \in DOMAIN sys : i < 2 => sys[i][1] # sys[2][1]
    BY <1>9, <1>11
  <2>2. Value(sys, sys[2][1]) = sys[2][2]
    BY <1>8, <2>1, ValueIs
  <2>. QED BY <1>9, <2>2
<1>14. Value(sys, Syscall) = call
  <2>1. 3 \in DOMAIN sys /\ \A i \in DOMAIN sys : i < 3 => sys[i][1] # sys[3][1]
    BY <1>9, <1>10, <1>11
  <2>2. Value(sys, sys[3][1]) = sys[3][2]
    BY <1>8, <2>1, ValueIs
  <2>. QED BY <1>9, <1>10, <2>2
<1>15. Value(sys, Items) = items
  <2>1. 4 \in DOMAIN sys /\ \A i \in DOMAIN sys : i < 4 => sys[i][1] # sys[4][1]
    BY <1>9, <1>10, <1>11
  <2>2. Value(sys, sys[4][1]) = sys[4][2]
    BY <1>8, <2>1, ValueIs
  <2>. QED BY <1>9, <1>10, <2>2
<1>16. Value(sys, Exe) = exe
  <2>1. 5 \in DOMAIN sys /\ \A i \in DOMAIN sys : i < 5 => sys[i][1] # sys[5][1]
    BY <1>9, <1>10, <1>11
  <2>2. Value(sys, sys[5][1]) = sys[5][2]
    BY <1>8, <2>1, ValueIs
  <2>. QED BY <1>9, <1>10, <2>2
<1>17. Value(file, Msg) = Serial
  <2>1. 2 \in DOMAIN file /\ \A i \in DOMAIN file : i < 2 => file[i][1] # file[2][1]
    BY <1>9, <1>11
  <2>2. Value(file, file[2][1]) = file[2][2]
    BY <1>8, <2>1, ValueIs
  <2>. QED BY <1>9, <2>2
<1>18. Value(file, Item) = <<48>>
  <2>1. 3 \in DOMAIN file /\ \A i \in DOMAIN file : i < 3 => file[i][1] # file[3][1]
    BY <1>9, <1>10, <1>11
  <2>2. Value(file, file[3][1]) = file[3][2]
    BY <1>8, <2>1, ValueIs
  <2>. QED BY <1>9, <1>10, <2>2
<1>19. Value(file, Name) = path
  <2>1. 4 \in DOMAIN file /\ \A i \in DOMAIN file : i < 4 => file[i][1] # file[4][1]
    BY <1>9, <1>10, <1>11
  <2>2. Value(file, file[4][1]) = file[4][2]
    BY <1>8, <2>1, ValueIs
  <2>. QED BY <1>9, <1>10, <2>2
<1>. QED BY <1>2, <1>4, <1>12, <1>13, <1>14, <1>15, <1>16, <1>17, <1>18, <1>19 DEF lines, fan, sys, file

\* LEMMA: the assembler puts together what was denied.
LEMMA AssembledIs ==
    ASSUME NEW ev \in AuditEvents, NEW suffix \in Enrichments
    PROVE  Assembled(AuditLines(ev, suffix)) = Denial(ev)
<1>. DEFINE lines == AuditLines(ev, suffix)
            fan   == AuditFields(lines[1])
            sys   == AuditFields(lines[2])
            file  == AuditFields(lines[3])
<1>1. PICK exec : exec = (ev.perm = Mode["execute"])
  OBVIOUS
<1>2. /\ Value(fan, ObjTrust) = ev.trust
      /\ Value(sys, Msg) = Serial /\ Value(file, Msg) = Serial
      /\ Value(sys, Syscall) = IF exec THEN Exec ELSE <<50>>
      /\ Value(sys, Items) = IF exec THEN <<50>> ELSE <<49>>
      /\ Value(sys, Exe) = Encoded(ev.exe)
      /\ Value(file, Item) = <<48>> /\ Value(file, Name) = Encoded(ev.path)
  BY <1>1, ThreeRecords
<1>. HIDE DEF lines
<1>3. (Value(sys, Syscall) = Exec) = exec
  <2>1. Exec # <<50>>
    BY DEF Exec
  <2>. QED BY <1>1, <1>2, <2>1
<1>4. Key(file) = Key(sys)
  BY <1>2 DEF Key
<1>5. Decode(Value(sys, Exe)) = ev.exe /\ Decode(Value(file, Name)) = ev.path
  BY <1>2, AuditEventIs, EncodedIs
<1>6. Mode[IF exec THEN "execute" ELSE "open"] = ev.perm
  BY <1>1, AuditEventIs
<1>7. ev.path # Absent /\ ev.path # Null
  BY AuditEventIs, AuditAssumption, AbsentAssumption DEF Str
<1>. HIDE DEF fan, sys, file
<1>8. PICK name, xexe, call, items, item, trust :
         /\ name = Decode(Value(file, Name)) /\ xexe = Decode(Value(sys, Exe))
         /\ call = (Value(sys, Syscall) = Exec) /\ items = Value(sys, Items) /\ item = Value(file, Item)
         /\ trust = Value(fan, ObjTrust)
  OBVIOUS
<1>9. Assembled(lines) =
         LET path == IF /\ items = (IF call THEN <<50>> ELSE <<49>>)
                        /\ item = <<48>> /\ Key(file) = Key(sys)
                        /\ name # Null
                     THEN name ELSE Absent
         IN  [subject |-> <<<<Dec, Deny>>, <<Perm, Mode[IF call THEN "execute" ELSE "open"]>>,
                            <<Exe, xexe>>>>,
              object |-> IF path = Absent THEN Absent ELSE <<<<Path, path>>, <<Trust, trust>>>>]
  BY <1>8 DEF Assembled, fan, sys, file
<1>10. /\ name = ev.path /\ xexe = ev.exe /\ call = exec
       /\ items = (IF exec THEN <<50>> ELSE <<49>>) /\ item = <<48>> /\ trust = ev.trust
  BY <1>2, <1>3, <1>5, <1>8
<1>11. Assembled(lines) = Denial(ev)
  BY <1>4, <1>6, <1>7, <1>9, <1>10 DEF Denial
<1>. QED BY <1>11 DEF lines

\* No path and no program holds a backslash, which is unescaped once too often.
Unslashed == \A ev \in AuditEvents : Free(ev.path, {Backslash}) /\ Free(ev.exe, {Backslash})

Wholly(ev) == [perm |-> ev.perm, exe |-> ev.exe, path |-> ev.path, trust |-> ev.trust]

\* LEMMA: a value that is a string without a backslash is got as it is.
LEMMA GetPlain ==
    ASSUME NEW side, NEW name, Value(side, name) \in Str, Free(Value(side, name), {Backslash})
    PROVE  Get(side, name) = Value(side, name)
<1>1. Value(side, name) # Absent
  BY AbsentAssumption DEF Str
<1>. QED BY <1>1, UnescapePlain DEF Get

\* LEMMA: it is decided by what was denied.
LEMMA DenialDecided ==
    ASSUME Unslashed, NEW ev \in AuditEvents
    PROVE  /\ Denial(ev) # Absent /\ KeyOf(Denial(ev)) = Wholly(ev)
           /\ Decided(Denial(ev), Absent, 0) = P!Decide(Fact(Wholly(ev)), Absent)
<1>1. /\ ev.exe \in Str /\ ev.path \in Str /\ ev.trust \in Str /\ ev.perm \in Str
      /\ Free(ev.exe, {Backslash}) /\ Free(ev.path, {Backslash})
      /\ Free(ev.trust, {Backslash}) /\ Free(ev.perm, {Backslash})
  <2>1. Free(ev.trust, {Backslash})
    BY AuditEventIs DEF Free
  <2>2. Free(ev.perm, {Backslash})
    BY AuditEventIs DEF Free, Mode, Backslash
  <2>. QED BY <2>1, <2>2, AuditEventIs DEF Unslashed
<1>2. PICK subject, object : Denial(ev) = [subject |-> subject, object |-> object]
                             /\ subject = <<<<Dec, Deny>>, <<Perm, ev.perm>>, <<Exe, ev.exe>>>>
                             /\ object = <<<<Path, ev.path>>, <<Trust, ev.trust>>>>
  BY DEF Denial
<1>3. Dec \in Str /\ Deny \in Str /\ Perm \in Str /\ Exe \in Str /\ Path \in Str /\ Trust \in Str
  BY DEF Str, Dec, Deny, Perm, Exe, Path, Trust
<1>4. subject \in Sides /\ object \in Sides
  <2>1. Sides = Seq(Str \X Str)
    BY DEF Sides, Str
  <2>2. PICK a, b, c, d, e : /\ a = <<Dec, Deny>> /\ b = <<Perm, ev.perm>> /\ c = <<Exe, ev.exe>>
                             /\ d = <<Path, ev.path>> /\ e = <<Trust, ev.trust>>
    OBVIOUS
  <2>3. a \in Str \X Str /\ b \in Str \X Str /\ c \in Str \X Str /\ d \in Str \X Str /\ e \in Str \X Str
    BY <1>1, <1>3, <2>2
  <2>4. <<a, b, c>> \in Seq(Str \X Str) /\ <<d, e>> \in Seq(Str \X Str)
    BY <2>3
  <2>. QED BY <1>2, <2>1, <2>2, <2>4
<1>5. /\ DOMAIN subject = 1..3 /\ subject[1] = <<Dec, Deny>> /\ subject[2] = <<Perm, ev.perm>>
      /\ subject[3] = <<Exe, ev.exe>>
      /\ DOMAIN object = 1..2 /\ object[1] = <<Path, ev.path>> /\ object[2] = <<Trust, ev.trust>>
  BY <1>2
<1>6. Dec # Perm /\ Dec # Exe /\ Perm # Exe /\ Path # Trust
  BY DEF Dec, Perm, Exe, Path, Trust
<1>7. Value(subject, Dec) = Deny
  <2>1. 1 \in DOMAIN subject /\ \A i \in DOMAIN subject : i < 1 => subject[i][1] # subject[1][1]
    BY <1>5
  <2>2. Value(subject, subject[1][1]) = subject[1][2]
    BY <1>4, <2>1, ValueIs
  <2>. QED BY <1>5, <2>2
<1>8. Value(subject, Perm) = ev.perm
  <2>1. 2 \in DOMAIN subject /\ \A i \in DOMAIN subject : i < 2 => subject[i][1] # subject[2][1]
    BY <1>5, <1>6
  <2>2. Value(subject, subject[2][1]) = subject[2][2]
    BY <1>4, <2>1, ValueIs
  <2>. QED BY <1>5, <2>2
<1>9. Value(subject, Exe) = ev.exe
  <2>1. 3 \in DOMAIN subject /\ \A i \in DOMAIN subject : i < 3 => subject[i][1] # subject[3][1]
    BY <1>5, <1>6
  <2>2. Value(subject, subject[3][1]) = subject[3][2]
    BY <1>4, <2>1, ValueIs
  <2>. QED BY <1>5, <2>2
<1>10. Value(object, Path) = ev.path
  <2>1. 1 \in DOMAIN object /\ \A i \in DOMAIN object : i < 1 => object[i][1] # object[1][1]
    BY <1>5
  <2>2. Value(object, object[1][1]) = object[1][2]
    BY <1>4, <2>1, ValueIs
  <2>. QED BY <1>5, <2>2
<1>11. Value(object, Trust) = ev.trust
  <2>1. 2 \in DOMAIN object /\ \A i \in DOMAIN object : i < 2 => object[i][1] # object[2][1]
    BY <1>5, <1>6
  <2>2. Value(object, object[2][1]) = object[2][2]
    BY <1>4, <2>1, ValueIs
  <2>. QED BY <1>5, <2>2
<1>12. /\ Get(subject, Dec) = Deny /\ Get(subject, Perm) = ev.perm /\ Get(subject, Exe) = ev.exe
       /\ Get(object, Path) = ev.path /\ Get(object, Trust) = ev.trust
  <2>1. Free(Deny, {Backslash})
    BY DEF Free, Deny, Backslash
  <2>. QED BY <1>1, <1>3, <1>7, <1>8, <1>9, <1>10, <1>11, <2>1, GetPlain
<1>13. PICK record : record = Denial(ev) /\ record.subject = subject /\ record.object = object
  BY <1>2
<1>14. record # Absent
  <2>1. record \in [subject : Sides, object : Sides \cup {Absent}]
    BY <1>2, <1>4, <1>13
  <2>. QED BY <2>1, AbsentAssumption
<1>15. KeyOf(record) = Wholly(ev)
  BY <1>12, <1>13 DEF KeyOf, Wholly
<1>16. FieldNames(record) \subseteq {Dec, Perm, Exe, Path, Trust} /\ Dec \in FieldNames(record)
  <2>1. object # Absent
    BY <1>4, AbsentAssumption
  <2>2. \A i \in DOMAIN subject : subject[i][1] \in {Dec, Perm, Exe}
    BY <1>5
  <2>3. \A i \in DOMAIN object : object[i][1] \in {Path, Trust}
    BY <1>5
  <2>4. 1 \in DOMAIN subject /\ subject[1][1] = Dec
    BY <1>5
  <2>. QED BY <1>13, <2>1, <2>2, <2>3, <2>4 DEF FieldNames
<1>17. \A name \in FieldNames(record) : ~IsCorruptFieldName(name)
  <2>1. \A name \in {Dec, Perm, Exe, Path, Trust} : ~IsCorruptFieldName(name)
    BY DEF IsCorruptFieldName, Dec, Perm, Exe, Path, Trust, Space
  <2>. QED BY <1>16, <2>1
<1>18. IsDenial(record)
  <2>1. Deny # Absent
    BY <1>3, AbsentAssumption DEF Str
  <2>2. IsPrefix(Deny, Deny)
    BY DEF IsPrefix, Deny
  <2>. QED BY <1>12, <1>13, <2>1, <2>2 DEF IsDenial
<1>19. ~Truncated(record, Absent, 0)
  BY BoundsAssumption DEF Truncated
<1>20. Decided(record, Absent, 0) = P!Decide(Fact(KeyOf(record)), Absent)
  BY <1>14, <1>16, <1>17, <1>18, <1>19 DEF Decided
<1>. QED BY <1>13, <1>14, <1>15, <1>20

--------------------------------------------------------------------------------
(* The run                                                                 *)

ToolShape ==
    tool = [pc |-> tool.pc, known |-> tool.known, decided |-> tool.decided, key |-> tool.key, out |-> tool.out]

\* The line of an event in the audit log is all there is of it, and what was
\* taken from the line is what it says.
AuditInv ==
    /\ ToolShape
    /\ about.route = "audit" =>
          /\ about.event \in AuditEvents
          /\ \E suffix \in Enrichments : line = AuditLines(about.event, suffix)
          /\ tool.pc \in {"write", "done"} =>
                /\ tool.decided = Decided(Assembled(line), Absent, 0)
                /\ tool.key = IF Assembled(line) = Absent THEN Absent ELSE KeyOf(Assembled(line))

\* LEMMA: the invariant holds of every run.
LEMMA AuditInvHolds == Spec => []AuditInv
<1>1. Init => AuditInv
  BY AbsentAssumption DEF Init, AuditInv, ToolShape, NoEvent
<1>2. AuditInv /\ [Next]_vars => AuditInv'
  <2>. SUFFICES ASSUME AuditInv, [Next]_vars PROVE AuditInv'
    OBVIOUS
  <2>1. ASSUME NEW conf \in Confs, ReadConf(conf) PROVE AuditInv'
    BY <2>1 DEF AuditInv, ToolShape, ReadConf
  <2>2. ASSUME ConfFails PROVE AuditInv'
    BY <2>2 DEF AuditInv, ToolShape, ConfFails
  <2>3. ASSUME Quiet, NEW ev \in Events, NEW frame \in Frames, LogRecord(ev, frame) PROVE AuditInv'
    BY <2>3 DEF AuditInv, ToolShape, LogRecord, Written
  <2>4. ASSUME Quiet, NEW ev \in Events, NEW name \in Garbage, LogFreed(ev, name) PROVE AuditInv'
    BY <2>4, AbsentAssumption DEF AuditInv, ToolShape, LogFreed, Written, NoEvent
  <2>5. ASSUME Quiet, NEW text \in Chatter, LogOther(text) PROVE AuditInv'
    BY <2>5, AbsentAssumption DEF AuditInv, ToolShape, LogOther, Written, NoEvent
  <2>6. ASSUME Quiet, NEW ev \in AuditEvents, NEW suffix \in Enrichments, LogAudit(ev, suffix)
        PROVE  AuditInv'
    BY <2>6 DEF AuditInv, ToolShape, LogAudit, Written, Quiet
  <2>7. ASSUME Take PROVE AuditInv'
    BY <2>7 DEF AuditInv, ToolShape, Take
  <2>8. ASSUME WriteText \/ WriteDocument \/ WriteRow \/ WriteRowDocument PROVE AuditInv'
    <3>1. PICK form, text : Writes(form, text)
      BY <2>8 DEF WriteText, WriteDocument, WriteRow, WriteRowDocument
    <3>. QED BY <3>1 DEF AuditInv, ToolShape, Writes
  <2>9. CASE UNCHANGED vars
    BY <2>9 DEF AuditInv, ToolShape, vars
  <2>. QED BY <2>1, <2>2, <2>3, <2>4, <2>5, <2>6, <2>7, <2>8, <2>9 DEF Next
<1>. QED BY <1>1, <1>2, PTL DEF Spec

\* THEOREM: a denial of the audit log is decided by its own fields: by what
\* was denied, whatever bytes but a backslash the path and the program hold.
\* The line that says so goes through auditd's quoting or hex, ENRICHED's
\* suffix, the cuts and the field lookups of audit.rs, and model::get.
THEOREM AuditIsWhole ==
    ASSUME Unslashed
    PROVE  Spec => [](about.route = "audit" => WholeIsActed)
<1>1. AuditInv => (about.route = "audit" => WholeIsActed)
  <2>. SUFFICES ASSUME AuditInv, about.route = "audit", tool.pc = "write" PROVE WholeIsActed
    BY DEF WholeIsActed
  <2>1. PICK ev, suffix : /\ ev = about.event /\ ev \in AuditEvents /\ suffix \in Enrichments
                          /\ line = AuditLines(ev, suffix)
    BY DEF AuditInv
  <2>2. Assembled(line) = Denial(ev)
    BY <2>1, AssembledIs
  <2>3. /\ tool.decided = P!Decide(Fact(Wholly(ev)), Absent)
        /\ tool.key = Wholly(ev)
    BY <2>1, <2>2, DenialDecided DEF AuditInv
  <2>4. \A name, value : IfCarried(name, value) = value
    BY DEF IfCarried, Carried
  <2>. QED BY <2>1, <2>3, <2>4 DEF WholeIsActed, Wholly
<1>. QED BY <1>1, AuditInvHolds, PTL
--------------------------------------------------------------------------------
(* A reader, byte by byte                                                  *)

\* The reader g is in state s ahead of the text t and in state r behind it.
Runs(g, S, t, s, r) ==
    \E f \in [0..Len(t) -> S] :
       f[0] = s /\ f[Len(t)] = r /\ \A k \in 1..Len(t) : f[k] = g[f[k - 1]][t[k]]

\* LEMMA: of one byte, and of none.
LEMMA RunsOne ==
    ASSUME NEW g, NEW S, NEW s \in S, NEW byte, g[s][byte] \in S
    PROVE  Runs(g, S, <<byte>>, s, g[s][byte])
<1>0. PICK t : t = <<byte>>
  OBVIOUS
<1>1. t = <<byte>> /\ Len(t) = 1 /\ t[1] = byte
  BY <1>0
<1>2. PICK f : f = [k \in 0..1 |-> IF k = 0 THEN s ELSE g[s][byte]]
  OBVIOUS
<1>3. f \in [0..1 -> S] /\ f[0] = s /\ f[1] = g[s][byte]
  BY <1>2
<1>4. \A k \in 1..1 : f[k] = g[f[k - 1]][t[k]]
  BY <1>1, <1>3
<1>5. Runs(g, S, t, s, g[s][byte])
  BY <1>1, <1>3, <1>4 DEF Runs
<1>. QED BY <1>1, <1>5

\* LEMMA: it stays where it is on nothing.
LEMMA RunsNone ==
    ASSUME NEW g, NEW S, NEW s \in S
    PROVE  Runs(g, S, << >>, s, s)
<1>1. PICK t : t = << >> /\ Len(t) = 0
  OBVIOUS
<1>2. PICK f : f = [k \in 0..0 |-> s]
  OBVIOUS
<1>3. f \in [0..0 -> S] /\ f[0] = s /\ \A k \in 1..0 : f[k] = g[f[k - 1]][t[k]]
  BY <1>2
<1>4. Runs(g, S, t, s, s)
  BY <1>1, <1>3 DEF Runs
<1>. QED BY <1>1, <1>4

\* LEMMA: of one text and of another behind it.
LEMMA RunsOn ==
    ASSUME NEW g, NEW S, NEW t \in Str, NEW u \in Str, NEW s, NEW r, NEW q,
           Runs(g, S, t, s, r), Runs(g, S, u, r, q)
    PROVE  Runs(g, S, t \o u, s, q)
<1>1. PICK m \in Nat, n \in Nat : m = Len(t) /\ n = Len(u)
  BY DEF Str
<1>2. PICK w : w = t \o u
  OBVIOUS
<1>3. /\ Len(w) = m + n /\ \A k \in 1..m : w[k] = t[k]
      /\ \A k \in 1..n : w[m + k] = u[k]
  BY <1>1, <1>2, Behind
<1>4. PICK e \in [0..m -> S] : e[0] = s /\ e[m] = r /\ \A k \in 1..m : e[k] = g[e[k - 1]][t[k]]
  BY <1>1 DEF Runs
<1>5. PICK f \in [0..n -> S] : f[0] = r /\ f[n] = q /\ \A k \in 1..n : f[k] = g[f[k - 1]][u[k]]
  BY <1>1 DEF Runs
<1>6. PICK h : h = [k \in 0..m + n |-> IF k <= m THEN e[k] ELSE f[k - m]]
  OBVIOUS
<1>7. \A k \in 0..m : h[k] = e[k]
  BY <1>6
<1>8. \A k \in 0..n : h[m + k] = f[k]
  <2>1. SUFFICES ASSUME NEW k \in 0..n PROVE h[m + k] = f[k]
    OBVIOUS
  <2>2. m + k \in 0..m + n /\ m + k - m = k
    OBVIOUS
  <2>3. CASE k = 0
    BY <1>4, <1>5, <1>6, <2>2, <2>3
  <2>4. CASE k # 0
    <3>1. ~(m + k <= m)
      BY <2>4
    <3>. QED BY <1>6, <2>2, <3>1
  <2>. QED BY <2>3, <2>4
<1>9. ASSUME NEW k \in 0..m + n PROVE h[k] \in S
  <2>1. CASE k <= m
    BY <1>7, <2>1
  <2>2. CASE ~(k <= m)
    <3>1. k - m \in 0..n
      BY <2>2
    <3>. QED BY <1>6, <2>2, <3>1
  <2>. QED BY <2>1, <2>2
<1>10. h \in [0..m + n -> S]
  BY <1>6, <1>9
<1>11. ASSUME NEW k \in 1..m + n PROVE h[k] = g[h[k - 1]][w[k]]
  <2>1. CASE k <= m
    <3>1. k \in 1..m /\ k \in 0..m /\ k - 1 \in 0..m
      BY <2>1
    <3>. QED BY <1>3, <1>4, <1>7, <3>1
  <2>2. CASE ~(k <= m)
    <3>1. PICK j \in 1..n : k = m + j
      <4>1. k - m \in 1..n /\ k = m + (k - m)
        BY <2>2
      <4>. QED BY <4>1
    <3>2. j \in 0..n /\ j - 1 \in 0..n /\ k - 1 = m + (j - 1)
      BY <3>1
    <3>3. h[k] = f[j] /\ h[k - 1] = f[j - 1] /\ w[k] = u[j]
      BY <1>3, <1>8, <3>1, <3>2
    <3>. QED BY <1>5, <3>3
  <2>. QED BY <2>1, <2>2
<1>12. h[0] = s /\ h[m + n] = q
  <2>1. 0 \in 0..m /\ n \in 0..n
    OBVIOUS
  <2>. QED BY <1>4, <1>5, <1>7, <1>8, <2>1
<1>13. PICK l : l = m + n
  OBVIOUS
<1>14. Len(w) = l /\ h \in [0..l -> S] /\ h[0] = s /\ h[l] = q
  BY <1>3, <1>10, <1>12, <1>13
<1>15. \A k \in 1..l : h[k] = g[h[k - 1]][w[k]]
  BY <1>11, <1>13
<1>16. Runs(g, S, w, s, q)
  BY <1>14, <1>15 DEF Runs
<1>. QED BY <1>2, <1>16

\* Each text of ss takes the reader from one state of w to the next.
RunsEach(g, S, ss, w) ==
    /\ w \in [0..Len(ss) -> S]
    /\ \A i \in 1..Len(ss) : Runs(g, S, ss[i], w[i - 1], w[i])

\* LEMMA: of texts, put together.
LEMMA RunsAll ==
    ASSUME NEW g, NEW S, NEW ss \in Seq(Str), NEW w, RunsEach(g, S, ss, w)
    PROVE  Runs(g, S, FlattenSeq(ss), w[0], w[Len(ss)]) /\ FlattenSeq(ss) \in Str
<1>1. PICK n \in Nat : n = Len(ss)
  OBVIOUS
<1>2. PICK F : F = [m \in 0..n |-> FlattenSeq(SubSeq(ss, 1, m))]
  OBVIOUS
<1>3. /\ F[0] = << >> /\ F[n] = FlattenSeq(ss) /\ \A m \in 0..n : F[m] \in Str
      /\ \A m \in 1..n : F[m] = F[m - 1] \o ss[m] /\ ss[m] \in Str
  <2>1. \A m \in 0..n : F[m] = FlattenSeq(SubSeq(ss, 1, m))
    BY <1>2
  <2>2. 0 \in 0..n /\ n \in 0..n /\ \A m \in 1..n : m \in 0..n /\ m - 1 \in 0..n
    OBVIOUS
  <2>3. ss \in Seq(Seq(Nat))
    BY DEF Str
  <2>4. \A m \in 1..n : ss[m] \in Str
    BY <1>1
  <2>. QED BY <1>1, <2>1, <2>2, <2>3, <2>4, FlattenPrefix DEF Str
<1>. DEFINE Known == {m \in Nat : m <= n => Runs(g, S, F[m], w[0], w[m])}
<1>4. 0 \in Known
  <2>1. w[0] \in S
    BY <1>1 DEF RunsEach
  <2>. QED BY <1>3, <2>1, RunsNone
<1>5. ASSUME NEW m \in Nat, m \in Known PROVE m + 1 \in Known
  <2>1. SUFFICES ASSUME m + 1 <= n PROVE Runs(g, S, F[m + 1], w[0], w[m + 1])
    OBVIOUS
  <2>2. m + 1 \in 1..n /\ m + 1 - 1 = m /\ m \in 0..n /\ Runs(g, S, F[m], w[0], w[m])
    BY <1>5, <2>1
  <2>3. Runs(g, S, ss[m + 1], w[m], w[m + 1])
    BY <1>1, <2>2 DEF RunsEach
  <2>4. PICK j : j = m + 1
    OBVIOUS
  <2>5. j \in 1..n /\ j - 1 = m
    BY <2>2, <2>4
  <2>6. F[j] = F[m] \o ss[j] /\ ss[j] \in Str
    BY <1>3, <2>5
  <2>7. F[m] \in Str
    BY <1>3, <2>2
  <2>8. Runs(g, S, F[m] \o ss[j], w[0], w[j])
    BY <2>2, <2>3, <2>4, <2>6, <2>7, RunsOn
  <2>. QED BY <2>4, <2>6, <2>8
<1>6. Nat \subseteq Known
  <2>. HIDE DEF Known
  <2>. QED BY <1>4, <1>5, Induction
<1>7. Runs(g, S, F[n], w[0], w[n])
  BY <1>6
<1>8. n \in 0..n
  OBVIOUS
<1>. QED BY <1>1, <1>3, <1>7, <1>8
--------------------------------------------------------------------------------
(* The shell                                                               *)

Shell(mode, word, words, lines) ==
    [mode |-> mode, word |-> word, words |-> words, lines |-> lines]
ShellStates ==
    [mode : {"bare", "quoted", "escaped"}, word : Str, words : Seq(Str), lines : Seq(Seq(Str))]
ShellReader == [s \in ShellStates |-> [byte \in Nat |-> ShellTake(s, byte)]]

\* The shell is in state s ahead of the text and in state r behind it.
Reads(text, s, r) ==
    /\ text \in Str /\ s \in ShellStates /\ r \in ShellStates
    /\ Runs(ShellReader, ShellStates, text, s, r)

\* LEMMA: the states.
LEMMA ShellIs ==
    ASSUME NEW mode \in {"bare", "quoted", "escaped"}, NEW word \in Str, NEW words \in Seq(Str),
           NEW lines \in Seq(Seq(Str))
    PROVE  Shell(mode, word, words, lines) \in ShellStates
BY DEF Shell, ShellStates

\* LEMMA: a sequence, and one element more.
LEMMA Longer ==
    ASSUME NEW S, NEW s \in Seq(S), NEW e \in S
    PROVE  /\ Append(s, e) \in Seq(S) /\ Len(Append(s, e)) = Len(s) + 1 /\ Append(s, e)[Len(s) + 1] = e
           /\ \A k \in 1..Len(s) : Append(s, e)[k] = s[k]
OBVIOUS

\* What the shell makes of a byte in a state.
Takes(byte, s, r) == s \in ShellStates /\ r \in ShellStates /\ ShellTake(s, byte) = r

\* LEMMA: a byte taken is read.
LEMMA TakenIsRead ==
    ASSUME NEW byte \in Nat, NEW s, NEW r, Takes(byte, s, r)
    PROVE  Reads(<<byte>>, s, r)
<1>1. s \in ShellStates /\ r \in ShellStates /\ ShellTake(s, byte) = r
  BY DEF Takes
<1>2. ShellReader[s][byte] = r
  BY <1>1 DEF ShellReader
<1>3. Runs(ShellReader, ShellStates, <<byte>>, s, ShellReader[s][byte])
  BY <1>1, <1>2, RunsOne
<1>4. <<byte>> \in Str
  BY DEF Str
<1>. QED BY <1>1, <1>2, <1>3, <1>4 DEF Reads

\* LEMMA: a byte within quotes, and a quote at their end.
LEMMA TakesQuoted ==
    ASSUME NEW word \in Str, NEW words \in Seq(Str), NEW lines \in Seq(Seq(Str)), NEW byte \in Nat
    PROVE  /\ byte # Apostrophe =>
                 Takes(byte, Shell("quoted", word, words, lines), Shell("quoted", Append(word, byte), words, lines))
           /\ Takes(Apostrophe, Shell("quoted", word, words, lines), Shell("bare", word, words, lines))
<1>1. Append(word, byte) \in Str
  BY Longer DEF Str
<1>2. /\ Shell("quoted", word, words, lines) \in ShellStates
      /\ Shell("quoted", Append(word, byte), words, lines) \in ShellStates
      /\ Shell("bare", word, words, lines) \in ShellStates
  BY <1>1, ShellIs
<1>3. byte # Apostrophe =>
         ShellTake(Shell("quoted", word, words, lines), byte) = Shell("quoted", Append(word, byte), words, lines)
  BY DEF Shell, ShellTake
<1>4. ShellTake(Shell("quoted", word, words, lines), Apostrophe) = Shell("bare", word, words, lines)
  BY DEF Shell, ShellTake
<1>. QED BY <1>2, <1>3, <1>4 DEF Takes

\* LEMMA: a backslash outside of them, and the byte behind it.
LEMMA TakesEscaped ==
    ASSUME NEW word \in Str, NEW words \in Seq(Str), NEW lines \in Seq(Seq(Str)), NEW byte \in Nat
    PROVE  /\ Takes(Backslash, Shell("bare", word, words, lines), Shell("escaped", word, words, lines))
           /\ Takes(byte, Shell("escaped", word, words, lines), Shell("bare", Append(word, byte), words, lines))
<1>1. Append(word, byte) \in Str
  BY Longer DEF Str
<1>2. /\ Shell("escaped", word, words, lines) \in ShellStates
      /\ Shell("bare", Append(word, byte), words, lines) \in ShellStates
      /\ Shell("bare", word, words, lines) \in ShellStates
  BY <1>1, ShellIs
<1>3. ShellTake(Shell("escaped", word, words, lines), byte) = Shell("bare", Append(word, byte), words, lines)
  BY DEF Shell, ShellTake
<1>4. ShellTake(Shell("bare", word, words, lines), Backslash) = Shell("escaped", word, words, lines)
  BY DEF Shell, ShellTake, Apostrophe, Backslash
<1>. QED BY <1>2, <1>3, <1>4 DEF Takes

\* LEMMA: an opening quote, a space, a newline and any other byte outside of
\* quotes.
LEMMA TakesBare ==
    ASSUME NEW word \in Str, NEW words \in Seq(Str), NEW lines \in Seq(Seq(Str)), NEW byte \in Nat
    PROVE  /\ Takes(Apostrophe, Shell("bare", word, words, lines), Shell("quoted", word, words, lines))
           /\ Takes(Space, Shell("bare", word, words, lines), Shell("bare", << >>, Append(words, word), lines))
           /\ Takes(Newline, Shell("bare", word, words, lines),
                    Shell("bare", << >>, << >>, Append(lines, Append(words, word))))
           /\ byte \notin {Apostrophe, Backslash, Space, Newline} =>
                 Takes(byte, Shell("bare", word, words, lines), Shell("bare", Append(word, byte), words, lines))
<1>1. /\ Append(word, byte) \in Str /\ Append(words, word) \in Seq(Str)
      /\ Append(lines, Append(words, word)) \in Seq(Seq(Str)) /\ << >> \in Str /\ << >> \in Seq(Str)
  <2>1. Append(word, byte) \in Str /\ Append(words, word) \in Seq(Str)
    BY Longer DEF Str
  <2>2. Append(lines, Append(words, word)) \in Seq(Seq(Str))
    BY <2>1, Longer
  <2>3. << >> \in Str /\ << >> \in Seq(Str)
    BY DEF Str
  <2>. QED BY <2>1, <2>2, <2>3
<1>2. /\ Shell("bare", word, words, lines) \in ShellStates
      /\ Shell("quoted", word, words, lines) \in ShellStates
      /\ Shell("bare", Append(word, byte), words, lines) \in ShellStates
      /\ Shell("bare", << >>, Append(words, word), lines) \in ShellStates
      /\ Shell("bare", << >>, << >>, Append(lines, Append(words, word))) \in ShellStates
  BY <1>1, ShellIs
<1>3. ShellTake(Shell("bare", word, words, lines), Apostrophe) = Shell("quoted", word, words, lines)
  BY DEF Shell, ShellTake
<1>4. ShellTake(Shell("bare", word, words, lines), Space) = Shell("bare", << >>, Append(words, word), lines)
  <2>1. PICK s : s = Shell("bare", word, words, lines)
    OBVIOUS
  <2>2. s.mode = "bare" /\ s.word = word /\ s.words = words
    BY <2>1 DEF Shell
  <2>3. ShellTake(s, Space) = [s EXCEPT !.word = << >>, !.words = Append(@, s.word)]
    BY <2>2 DEF ShellTake, Apostrophe, Backslash, Space
  <2>4. PICK e, v : e = << >> /\ v = Append(words, word)
    OBVIOUS
  <2>5. [s EXCEPT !.word = e, !.words = v] = Shell("bare", e, v, lines)
    <3>1. PICK x : x = [s EXCEPT !.word = e]
      OBVIOUS
    <3>2. x = Shell("bare", e, words, lines)
      BY <2>1, <3>1 DEF Shell
    <3>3. [s EXCEPT !.word = e, !.words = v] = [x EXCEPT !.words = v]
      BY <3>1, Zenon
    <3>4. [x EXCEPT !.words = v] = Shell("bare", e, v, lines)
      BY <3>2 DEF Shell
    <3>. QED BY <3>3, <3>4
  <2>6. [s EXCEPT !.word = << >>, !.words = Append(@, s.word)] = [s EXCEPT !.word = e, !.words = v]
    BY <2>2, <2>4, Zenon
  <2>. QED BY <2>1, <2>3, <2>4, <2>5, <2>6
<1>5. ShellTake(Shell("bare", word, words, lines), Newline) =
         Shell("bare", << >>, << >>, Append(lines, Append(words, word)))
  <2>1. PICK s : s = Shell("bare", word, words, lines)
    OBVIOUS
  <2>2. s.mode = "bare" /\ s.word = word /\ s.words = words /\ s.lines = lines
    BY <2>1 DEF Shell
  <2>3. ShellTake(s, Newline) =
           [s EXCEPT !.word = << >>, !.words = << >>, !.lines = Append(@, Append(s.words, s.word))]
    BY <2>2 DEF ShellTake, Apostrophe, Backslash, Space, Newline
  <2>4. PICK e, v : e = << >> /\ v = Append(lines, Append(words, word))
    OBVIOUS
  <2>5. [s EXCEPT !.word = e, !.words = e, !.lines = v] = Shell("bare", e, e, v)
    <3>1. PICK x : x = [s EXCEPT !.word = e]
      OBVIOUS
    <3>2. x = Shell("bare", e, words, lines)
      BY <2>1, <3>1 DEF Shell
    <3>3. PICK y : y = [x EXCEPT !.words = e]
      OBVIOUS
    <3>4. y = Shell("bare", e, e, lines)
      BY <3>2, <3>3 DEF Shell
    <3>5. [s EXCEPT !.word = e, !.words = e, !.lines = v] = [y EXCEPT !.lines = v]
      BY <3>1, <3>3, Zenon
    <3>6. [y EXCEPT !.lines = v] = Shell("bare", e, e, v)
      BY <3>4 DEF Shell
    <3>. QED BY <3>5, <3>6
  <2>6. [s EXCEPT !.word = << >>, !.words = << >>, !.lines = Append(@, Append(s.words, s.word))] =
           [s EXCEPT !.word = e, !.words = e, !.lines = v]
    BY <2>2, <2>4, Zenon
  <2>. QED BY <2>1, <2>3, <2>4, <2>5, <2>6
<1>6. byte \notin {Apostrophe, Backslash, Space, Newline} =>
         ShellTake(Shell("bare", word, words, lines), byte) = Shell("bare", Append(word, byte), words, lines)
  BY DEF Shell, ShellTake
<1>7. Takes(Apostrophe, Shell("bare", word, words, lines), Shell("quoted", word, words, lines))
  BY <1>2, <1>3 DEF Takes
<1>8. Takes(Space, Shell("bare", word, words, lines), Shell("bare", << >>, Append(words, word), lines))
  BY <1>2, <1>4 DEF Takes
<1>9. Takes(Newline, Shell("bare", word, words, lines),
            Shell("bare", << >>, << >>, Append(lines, Append(words, word))))
  BY <1>2, <1>5 DEF Takes
<1>10. byte \notin {Apostrophe, Backslash, Space, Newline} =>
          Takes(byte, Shell("bare", word, words, lines), Shell("bare", Append(word, byte), words, lines))
  BY <1>2, <1>6 DEF Takes
<1>. QED BY <1>7, <1>8, <1>9, <1>10

\* LEMMA: one text and another behind it.
LEMMA ReadsOn ==
    ASSUME NEW t, NEW u, NEW s, NEW r, NEW q, Reads(t, s, r), Reads(u, r, q)
    PROVE  Reads(t \o u, s, q)
<1>1. t \in Str /\ u \in Str /\ t \o u \in Str
  BY Behind DEF Reads
<1>2. Runs(ShellReader, ShellStates, t \o u, s, q)
  BY <1>1, RunsOn DEF Reads
<1>. QED BY <1>1, <1>2 DEF Reads

\* LEMMA: what is read is what the shell makes of the whole text.
LEMMA ShellScan ==
    ASSUME NEW t \in Str, NEW r, Reads(t, ShellStart, r)
    PROVE  ShellLines(t) = r.lines
<1>1. PICK n \in Nat : n = Len(t) /\ DOMAIN t = 1..n /\ \A k \in 1..n : t[k] \in Nat
  BY DEF Str
<1>2. PICK f \in [0..n -> ShellStates] :
         f[0] = ShellStart /\ f[n] = r /\ \A k \in 1..n : f[k] = ShellReader[f[k - 1]][t[k]]
  BY <1>1 DEF Reads, Runs
<1>. DEFINE Upto(h, k) == IF k = 0 THEN ShellStart ELSE ShellTake(h[k - 1], t[k])
            IsUpto(h) == h = [k \in 0..Len(t) |-> Upto(h, k)]
            upto == CHOOSE h : IsUpto(h)
<1>3. ASSUME NEW k \in 1..n PROVE f[k] = ShellTake(f[k - 1], t[k])
  <2>1. k - 1 \in 0..n
    OBVIOUS
  <2>2. f[k - 1] \in ShellStates /\ t[k] \in Nat
    BY <1>1, <2>1
  <2>. QED BY <1>2, <2>2 DEF ShellReader
<1>4. IsUpto(f)
  <2>1. ASSUME NEW k \in 0..n PROVE f[k] = Upto(f, k)
    <3>1. k # 0 => k \in 1..n
      OBVIOUS
    <3>. QED BY <1>2, <1>3, <3>1
  <2>2. f = [k \in 0..n |-> f[k]]
    OBVIOUS
  <2>. HIDE DEF Upto
  <2>. QED BY <1>1, <2>1, <2>2
<1>5. IsUpto(upto)
  <2>. HIDE DEF IsUpto
  <2>. QED BY <1>4
<1>6. ShellLines(t) = upto[n].lines
  BY <1>1 DEF ShellLines, Scan
<1>. HIDE DEF upto
<1>7. \A k \in 0..n : upto[k] = IF k = 0 THEN ShellStart ELSE ShellTake(upto[k - 1], t[k])
  BY <1>1, <1>5
<1>. DEFINE Settled == {m \in Nat : m <= n => upto[m] = f[m]}
<1>8. 0 \in Settled
  BY <1>2, <1>7
<1>9. ASSUME NEW m \in Nat, m \in Settled PROVE m + 1 \in Settled
  <2>1. SUFFICES ASSUME m + 1 <= n PROVE upto[m + 1] = f[m + 1]
    OBVIOUS
  <2>2. PICK j : j = m + 1
    OBVIOUS
  <2>3. j \in 1..n /\ j \in 0..n /\ j # 0 /\ j - 1 = m /\ upto[m] = f[m]
    BY <1>9, <2>1, <2>2
  <2>. QED BY <1>3, <1>7, <2>2, <2>3
<1>10. Nat \subseteq Settled
  <2>. HIDE DEF Settled
  <2>. QED BY <1>8, <1>9, Induction
<1>. QED BY <1>2, <1>6, <1>10
\* LEMMA: a byte as it is quoted.
LEMMA ReadsQuoted ==
    ASSUME NEW word \in Str, NEW words \in Seq(Str), NEW lines \in Seq(Seq(Str)), NEW byte \in Nat
    PROVE  Reads(Quoted(byte), Shell("quoted", word, words, lines), Shell("quoted", Append(word, byte), words, lines))
<1>0. Apostrophe \in Nat /\ Backslash \in Nat /\ Append(word, byte) \in Str
  BY Longer DEF Apostrophe, Backslash, Str
<1>1. CASE byte # Apostrophe
  <2>1. Quoted(byte) = <<byte>>
    BY <1>1 DEF Quoted
  <2>. QED BY <1>1, <2>1, TakesQuoted, TakenIsRead
<1>2. CASE byte = Apostrophe
  <2>. DEFINE a == Shell("quoted", word, words, lines)
              b == Shell("bare", word, words, lines)
              c == Shell("escaped", word, words, lines)
              d == Shell("bare", Append(word, byte), words, lines)
              e == Shell("quoted", Append(word, byte), words, lines)
  <2>1. Reads(<<Apostrophe>>, a, b)
    BY <1>0, TakesQuoted, TakenIsRead
  <2>2. Reads(<<Backslash>>, b, c)
    BY <1>0, TakesEscaped, TakenIsRead
  <2>3. Reads(<<Apostrophe>>, c, d)
    BY <1>0, <1>2, TakesEscaped, TakenIsRead
  <2>4. Reads(<<Apostrophe>>, d, e)
    BY <1>0, TakesBare, TakenIsRead
  <2>. HIDE DEF a, b, c, d, e
  <2>5. Reads(<<Apostrophe>> \o <<Backslash>>, a, c)
    BY <2>1, <2>2, ReadsOn
  <2>6. Reads((<<Apostrophe>> \o <<Backslash>>) \o <<Apostrophe>>, a, d)
    BY <2>3, <2>5, ReadsOn
  <2>7. Reads(((<<Apostrophe>> \o <<Backslash>>) \o <<Apostrophe>>) \o <<Apostrophe>>, a, e)
    BY <2>4, <2>6, ReadsOn
  <2>8. Quoted(byte) = ((<<Apostrophe>> \o <<Backslash>>) \o <<Apostrophe>>) \o <<Apostrophe>>
    BY <1>2 DEF Quoted
  <2>. QED BY <2>7, <2>8 DEF a, e
<1>. QED BY <1>1, <1>2

\* LEMMA: whatever bytes are between the quotes, the shell has them in its word.
LEMMA ReadsSpelled ==
    ASSUME NEW path \in Str, NEW words \in Seq(Str), NEW lines \in Seq(Seq(Str))
    PROVE  Reads(Spelled(path, Quoted), Shell("quoted", << >>, words, lines), Shell("quoted", path, words, lines))
<1>0. PICK n \in Nat : n = Len(path)
  BY DEF Str
<1>1. n = Len(path) /\ DOMAIN path = 1..n /\ \A k \in 1..n : path[k] \in Nat
  BY <1>0 DEF Str
<1>2. PICK ss : ss = [k \in DOMAIN path |-> Quoted(path[k])]
  OBVIOUS
<1>3. PICK w : w = [k \in 0..n |-> Shell("quoted", SubSeq(path, 1, k), words, lines)]
  OBVIOUS
<1>4. ASSUME NEW k \in 0..n PROVE SubSeq(path, 1, k) \in Str
  BY <1>1, SliceIn DEF Str
<1>5. ASSUME NEW k \in 1..n PROVE SubSeq(path, 1, k) = Append(SubSeq(path, 1, k - 1), path[k])
  BY <1>1 DEF Str
<1>6. ASSUME NEW k \in 1..n
      PROVE  Reads(ss[k], w[k - 1], w[k])
  <2>1. k - 1 \in 0..n /\ k \in 0..n /\ path[k] \in Nat
    BY <1>1
  <2>2. SubSeq(path, 1, k - 1) \in Str
    BY <1>4, <2>1
  <2>3. Reads(Quoted(path[k]), Shell("quoted", SubSeq(path, 1, k - 1), words, lines),
              Shell("quoted", Append(SubSeq(path, 1, k - 1), path[k]), words, lines))
    BY <2>1, <2>2, ReadsQuoted
  <2>. QED BY <1>1, <1>2, <1>3, <1>5, <2>1, <2>3
<1>7. ss \in Seq(Str) /\ Len(ss) = n
  <2>1. ss = [k \in 1..n |-> ss[k]]
    BY <1>1, <1>2
  <2>2. \A k \in 1..n : ss[k] \in Str
    BY <1>6 DEF Reads
  <2>3. ss \in [1..n -> Str]
    BY <2>1, <2>2
  <2>. QED BY <2>3
<1>8. w \in [0..n -> ShellStates]
  <2>1. \A k \in 0..n : Shell("quoted", SubSeq(path, 1, k), words, lines) \in ShellStates
    BY <1>4, ShellIs
  <2>. QED BY <1>3, <2>1
<1>9. RunsEach(ShellReader, ShellStates, ss, w)
  BY <1>6, <1>7, <1>8 DEF RunsEach, Reads
<1>10. Runs(ShellReader, ShellStates, FlattenSeq(ss), w[0], w[n]) /\ FlattenSeq(ss) \in Str
  BY <1>7, <1>9, RunsAll
<1>11. w[0] = Shell("quoted", << >>, words, lines) /\ w[n] = Shell("quoted", path, words, lines)
  <2>1. SubSeq(path, 1, 0) = << >> /\ SubSeq(path, 1, n) = path /\ 0 \in 0..n /\ n \in 0..n
    BY <1>1 DEF Str
  <2>. QED BY <1>3, <2>1
<1>12. FlattenSeq(ss) = Spelled(path, Quoted)
  BY <1>2 DEF Spelled
<1>13. w[0] \in ShellStates /\ w[n] \in ShellStates
  BY <1>8
<1>. QED BY <1>10, <1>11, <1>12, <1>13 DEF Reads

\* LEMMA: the shell reads the two commands of a trust entry, and as the operand
\* of the first the bytes of the path, whatever they are.
LEMMA TrustReadBack ==
    ASSUME NEW path \in Str
    PROVE  ShellLines(RenderTrust(path)) = <<<<FileAdd, path>>, <<Update>>>>
<1>. DEFINE none == << >>
            first == <<FileAdd>>
            line1 == <<FileAdd, path>>
            a == Shell("bare", none, none, none)
            b == Shell("bare", FileAdd, none, none)
            c == Shell("bare", none, first, none)
            d == Shell("quoted", none, first, none)
            e == Shell("quoted", path, first, none)
            f == Shell("bare", path, first, none)
            g == Shell("bare", none, none, <<line1>>)
            h == Shell("bare", Update, none, <<line1>>)
            i == Shell("bare", none, none, <<line1, <<Update>>>>)
<1>1. /\ none \in Str /\ none \in Seq(Str) /\ none \in Seq(Seq(Str)) /\ FileAdd \in Str /\ Update \in Str
      /\ first \in Seq(Str) /\ line1 \in Seq(Str) /\ <<line1>> \in Seq(Seq(Str))
      /\ 97 \in Nat /\ 117 \in Nat /\ Space \in Nat /\ Newline \in Nat /\ Apostrophe \in Nat
  BY DEF Str, FileAdd, Update, Space, Newline, Apostrophe
<1>2. /\ Append(none, 97) = FileAdd /\ Append(none, FileAdd) = first /\ Append(first, path) = line1
      /\ Append(none, line1) = <<line1>> /\ Append(none, 117) = Update /\ Append(none, Update) = <<Update>>
      /\ Append(<<line1>>, <<Update>>) = <<line1, <<Update>>>>
  <2>1. \A x : Append(<< >>, x) = <<x>>
    OBVIOUS
  <2>2. ASSUME NEW x, NEW y PROVE Append(<<x>>, y) = <<x, y>>
    <3>0. PICK S : S = {x, y}
      OBVIOUS
    <3>1. PICK s : s = <<x>>
      OBVIOUS
    <3>2. x \in S /\ y \in S /\ s \in Seq(S) /\ Len(s) = 1 /\ s[1] = x
      BY <3>0, <3>1
    <3>3. PICK t : t = Append(s, y)
      OBVIOUS
    <3>4. t \in Seq(S) /\ Len(t) = 2 /\ t[1] = x /\ t[2] = y
      <4>1. t \in Seq(S) /\ Len(t) = Len(s) + 1 /\ t[Len(s) + 1] = y
        BY <3>2, <3>3, Longer
      <4>2. \A k \in 1..Len(s) : t[k] = s[k]
        BY <3>2, <3>3, Longer
      <4>. QED BY <3>2, <4>1, <4>2
    <3>5. PICK u : u = <<x, y>>
      OBVIOUS
    <3>6. u \in Seq(S) /\ Len(u) = 2 /\ u[1] = x /\ u[2] = y
      BY <3>0, <3>5
    <3>7. t = u
      BY <3>4, <3>6
    <3>. QED BY <3>1, <3>3, <3>5, <3>7
  <2>. QED BY <2>1, <2>2, Zenon DEF FileAdd, Update
<1>3. 97 \notin {Apostrophe, Backslash, Space, Newline} /\ 117 \notin {Apostrophe, Backslash, Space, Newline}
  BY DEF Apostrophe, Backslash, Space, Newline
<1>. HIDE DEF none, first, line1
<1>4. Reads(FileAdd, a, b)
  <2>1. Takes(97, a, b)
    BY <1>1, <1>2, <1>3, TakesBare
  <2>2. FileAdd = <<97>>
    BY DEF FileAdd
  <2>. QED BY <1>1, <2>1, <2>2, TakenIsRead
<1>5. Reads(<<Space>>, b, c)
  <2>1. Takes(Space, Shell("bare", FileAdd, none, none), Shell("bare", << >>, Append(none, FileAdd), none))
    BY <1>1, TakesBare
  <2>2. Takes(Space, b, c)
    BY <1>2, <2>1, Zenon DEF none
  <2>. HIDE DEF b, c
  <2>. QED BY <1>1, <2>2, TakenIsRead
<1>6. Reads(<<Apostrophe>>, c, d)
  BY <1>1, TakesBare, TakenIsRead
<1>7. Reads(Spelled(path, Quoted), d, e)
  BY <1>1, ReadsSpelled DEF none
<1>8. Reads(<<Apostrophe>>, e, f)
  BY <1>1, TakesQuoted, TakenIsRead
<1>9. Reads(<<Newline>>, f, g)
  <2>1. Takes(Newline, Shell("bare", path, first, none),
              Shell("bare", << >>, << >>, Append(none, Append(first, path))))
    BY <1>1, TakesBare
  <2>2. Takes(Newline, f, g)
    BY <1>2, <2>1, Zenon DEF none
  <2>. HIDE DEF f, g
  <2>. QED BY <1>1, <2>2, TakenIsRead
<1>10. Reads(Update, g, h)
  <2>1. Takes(117, g, h)
    <3>1. Takes(117, Shell("bare", none, none, <<line1>>), Shell("bare", Append(none, 117), none, <<line1>>))
      BY <1>1, <1>3, TakesBare
    <3>. QED BY <1>2, <3>1, Zenon
  <2>2. Update = <<117>>
    BY DEF Update
  <2>. QED BY <1>1, <2>1, <2>2, TakenIsRead
<1>11. Reads(<<Newline>>, h, i)
  <2>1. Takes(Newline, Shell("bare", Update, none, <<line1>>),
              Shell("bare", << >>, << >>, Append(<<line1>>, Append(none, Update))))
    BY <1>1, TakesBare
  <2>2. Takes(Newline, h, i)
    BY <1>2, <2>1, Zenon DEF none
  <2>. HIDE DEF h, i
  <2>. QED BY <1>1, <2>2, TakenIsRead
<1>12. a = ShellStart /\ i.lines = <<line1, <<Update>>>>
  BY DEF a, i, none, Shell, ShellStart
<1>. HIDE DEF a, b, c, d, e, f, g, h, i
<1>13. Reads(ShellQuote(path), c, f)
  BY <1>6, <1>7, <1>8, ReadsOn DEF ShellQuote
<1>14. Reads(RenderTrust(path), a, i)
  BY <1>4, <1>5, <1>9, <1>10, <1>11, <1>13, ReadsOn DEF RenderTrust
<1>15. RenderTrust(path) \in Str
  BY <1>14 DEF Reads
<1>. QED BY <1>12, <1>14, <1>15, ShellScan DEF line1
--------------------------------------------------------------------------------
(* The text of a rule                                                      *)

\* LEMMA: without its first byte.
LEMMA Dropped ==
    ASSUME NEW s \in Str, Len(s) # 0, NEW t \in Str
    PROVE  SubSeq(s \o t, 2, Len(s \o t)) = SubSeq(s, 2, Len(s)) \o t
<1>1. PICK p \in Nat, q \in Nat : p = Len(s) /\ q = Len(t) /\ p # 0
  BY DEF Str
<1>2. PICK u : u = s \o t
  OBVIOUS
<1>3. /\ u \in Str /\ Len(u) = p + q /\ \A k \in 1..p : u[k] = s[k]
      /\ \A k \in 1..q : u[p + k] = t[k]
  BY <1>1, <1>2, Behind
<1>4. PICK v, r : v = SubSeq(u, 2, Len(u)) /\ r = SubSeq(s, 2, Len(s))
  OBVIOUS
<1>5. v \in Str /\ Len(v) = p + q - 1 /\ \A k \in 1..p + q - 1 : v[k] = u[k + 1]
  <2>1. PICK l : l = Len(u)
    OBVIOUS
  <2>2. l = p + q /\ l # 0
    BY <1>1, <1>3, <2>1
  <2>3. v \in Str /\ Len(v) = l - 1 /\ \A k \in 1..l - 1 : v[k] = u[k + 1]
    BY <1>3, <1>4, <2>1, <2>2, Tailed
  <2>. QED BY <2>2, <2>3
<1>6. r \in Str /\ Len(r) = p - 1 /\ \A k \in 1..p - 1 : r[k] = s[k + 1]
  BY <1>1, <1>4, Tailed
<1>7. PICK w : w = r \o t
  OBVIOUS
<1>8. /\ w \in Str /\ Len(w) = p - 1 + q /\ \A k \in 1..p - 1 : w[k] = r[k]
      /\ \A k \in 1..q : w[p - 1 + k] = t[k]
  <2>1. PICK l : l = Len(r)
    OBVIOUS
  <2>2. /\ w \in Str /\ Len(w) = l + q /\ \A k \in 1..l : w[k] = r[k]
        /\ \A k \in 1..q : w[l + k] = t[k]
    BY <1>1, <1>6, <1>7, <2>1, Behind
  <2>. QED BY <1>6, <2>1, <2>2
<1>9. ASSUME NEW k \in 1..p + q - 1 PROVE v[k] = w[k]
  <2>1. CASE k <= p - 1
    <3>1. k \in 1..p - 1 /\ k + 1 \in 1..p
      BY <1>1, <2>1
    <3>. QED BY <1>3, <1>5, <1>6, <1>8, <3>1
  <2>2. CASE ~(k <= p - 1)
    <3>1. PICK j \in 1..q : k = p - 1 + j /\ k + 1 = p + j
      <4>1. k - (p - 1) \in 1..q /\ k = p - 1 + (k - (p - 1)) /\ k + 1 = p + (k - (p - 1))
        BY <1>1, <2>2
      <4>. QED BY <4>1
    <3>2. v[k] = u[p + j]
      BY <1>5, <3>1
    <3>3. w[k] = t[j]
      BY <1>8, <3>1
    <3>. QED BY <1>3, <3>2, <3>3
  <2>. QED BY <2>1, <2>2
<1>10. v = w
  <2>1. p + q - 1 = p - 1 + q
    BY <1>1
  <2>. QED BY <1>5, <1>8, <1>9, <2>1, Same DEF Str
<1>. QED BY <1>2, <1>4, <1>7, <1>10

\* LEMMA: one word, and one word more.
LEMMA JoinedOne ==
    ASSUME NEW t \in Str
    PROVE  Joined(<<t>>) = t /\ <<t>> \in Seq(Str) /\ Len(<<t>>) = 1
<1>1. PICK ts : ts = <<t>>
  OBVIOUS
<1>2. ts \in Seq(Str) /\ Len(ts) = 1 /\ DOMAIN ts = 1..1 /\ ts[1] = t
  BY <1>1
<1>3. <<Space>> \in Str /\ Len(<<Space>>) = 1
  BY DEF Str, Space
<1>4. PICK v : v = <<Space>> \o t
  OBVIOUS
<1>5. v \in Str
  BY <1>3, <1>4, Behind
<1>6. PICK ss : ss = [k \in 1..1 |-> v]
  OBVIOUS
<1>7. ss \in Seq(Str) /\ Len(ss) = 1 /\ ss[1] = v
  BY <1>5, <1>6
<1>8. FlattenSeq(ss) = v
  <2>1. ss \in Seq(Seq(Nat)) /\ 1 \in 1..Len(ss)
    BY <1>7 DEF Str
  <2>2. FlattenSeq(SubSeq(ss, 1, 1)) = FlattenSeq(SubSeq(ss, 1, 1 - 1)) \o ss[1]
    BY <2>1, FlattenPrefix
  <2>3. FlattenSeq(SubSeq(ss, 1, 1)) = FlattenSeq(ss) /\ FlattenSeq(SubSeq(ss, 1, 0)) = << >>
    BY <1>7, <2>1, FlattenPrefix
  <2>4. << >> \o v = v
    BY <1>5 DEF Str
  <2>5. 1 - 1 = 0
    OBVIOUS
  <2>. QED BY <1>7, <2>2, <2>3, <2>4, <2>5
<1>9. ss = [k \in DOMAIN ts |-> <<Space>> \o ts[k]]
  BY <1>2, <1>4, <1>6
<1>10. Joined(ts) = SubSeq(v, 2, Len(v))
  BY <1>8, <1>9 DEF Joined, Spelled
<1>11. SubSeq(v, 2, Len(v)) = t
  <2>1. SubSeq(v, Len(<<Space>>) + 1, Len(<<Space>>) + Len(t)) = t
    BY <1>3, <1>4, Ahead
  <2>2. Len(v) = Len(<<Space>>) + Len(t)
    BY <1>3, <1>4, Behind
  <2>. QED BY <1>3, <2>1, <2>2
<1>. QED BY <1>1, <1>2, <1>10, <1>11

\* LEMMA: a word more.
LEMMA JoinedMore ==
    ASSUME NEW ts \in Seq(Str), Len(ts) # 0, NEW t \in Str
    PROVE  Joined(Append(ts, t)) = Joined(ts) \o (<<Space>> \o t)
<1>1. PICK n \in Nat : n = Len(ts) /\ n # 0
  OBVIOUS
<1>2. PICK us : us = Append(ts, t)
  OBVIOUS
<1>3. /\ us \in Seq(Str) /\ Len(us) = n + 1 /\ DOMAIN us = 1..n + 1 /\ DOMAIN ts = 1..n
      /\ us[n + 1] = t /\ \A k \in 1..n : us[k] = ts[k]
  BY <1>1, <1>2
<1>4. <<Space>> \in Str /\ Len(<<Space>>) = 1
  BY DEF Str, Space
<1>5. PICK ss : ss = [k \in 1..n + 1 |-> <<Space>> \o us[k]]
  OBVIOUS
<1>6. ASSUME NEW k \in 1..n + 1 PROVE ss[k] \in Str /\ Len(ss[k]) = 1 + Len(us[k]) /\ ss[k] = <<Space>> \o us[k]
  <2>1. us[k] \in Str
    BY <1>3
  <2>. QED BY <1>4, <1>5, <2>1, Behind
<1>7. ss \in Seq(Seq(Nat)) /\ Len(ss) = n + 1
  BY <1>5, <1>6 DEF Str
<1>8. SubSeq(ss, 1, n) = [k \in DOMAIN ts |-> <<Space>> \o ts[k]]
  <2>1. PICK a, b : a = SubSeq(ss, 1, n) /\ b = [k \in 1..n |-> <<Space>> \o ts[k]]
    OBVIOUS
  <2>2. a \in Seq(Seq(Nat)) /\ Len(a) = n /\ \A k \in 1..n : a[k] = ss[k]
    <3>1. 1 \in 1..Len(ss) + 1 /\ n \in 1 - 1..Len(ss) /\ n - 1 + 1 = n /\ \A k \in 1..n : 1 + k - 1 = k
      BY <1>1, <1>7
    <3>. QED BY <1>7, <2>1, <3>1, SliceIn
  <2>3. ASSUME NEW k \in 1..n PROVE b[k] = ss[k] /\ ss[k] \in Seq(Nat)
    <3>1. k \in 1..n + 1
      OBVIOUS
    <3>. QED BY <1>3, <1>6, <2>1, <3>1 DEF Str
  <2>4. b \in Seq(Seq(Nat)) /\ Len(b) = n
    <3>1. b = [k \in 1..n |-> b[k]]
      BY <2>1
    <3>2. b \in [1..n -> Seq(Nat)]
      BY <2>3, <3>1
    <3>. QED BY <3>2
  <2>5. a = b
    BY <2>2, <2>3, <2>4, Same
  <2>. QED BY <1>3, <2>1, <2>5
<1>9. PICK f : f = FlattenSeq(SubSeq(ss, 1, n))
  OBVIOUS
<1>10. f \in Str /\ FlattenSeq(ss) = f \o ss[n + 1]
  <2>1. n + 1 \in 1..Len(ss) /\ n \in 0..Len(ss) /\ n + 1 - 1 = n
    BY <1>7
  <2>2. PICK m : m = n + 1
    OBVIOUS
  <2>3. m \in 1..Len(ss) /\ m - 1 = n /\ m = Len(ss)
    BY <1>7, <2>1, <2>2
  <2>4. FlattenSeq(SubSeq(ss, 1, m)) = FlattenSeq(SubSeq(ss, 1, m - 1)) \o ss[m]
    BY <1>7, <2>3, FlattenPrefix
  <2>5. FlattenSeq(SubSeq(ss, 1, m)) = FlattenSeq(ss)
    BY <1>7, <2>3, FlattenPrefix
  <2>6. f \in Seq(Nat)
    BY <1>7, <1>9, <2>1, FlattenPrefix
  <2>. QED BY <1>9, <2>2, <2>3, <2>4, <2>5, <2>6 DEF Str
<1>11. Joined(ts) = SubSeq(f, 2, Len(f))
  BY <1>8, <1>9 DEF Joined, Spelled
<1>12. ss[n + 1] \in Str /\ ss[n + 1] = <<Space>> \o t
  <2>1. n + 1 \in 1..n + 1
    OBVIOUS
  <2>. QED BY <1>3, <1>6, <2>1
<1>13. Joined(us) = SubSeq(f \o ss[n + 1], 2, Len(f \o ss[n + 1]))
  BY <1>3, <1>5, <1>10 DEF Joined, Spelled
<1>14. Len(f) # 0
  <2>1. n \in 1..Len(ss) /\ n - 1 \in 0..Len(ss) /\ n \in 1..n + 1
    BY <1>1, <1>7
  <2>2. f = FlattenSeq(SubSeq(ss, 1, n - 1)) \o ss[n] /\ FlattenSeq(SubSeq(ss, 1, n - 1)) \in Seq(Nat)
    BY <1>7, <1>9, <2>1, FlattenPrefix
  <2>3. PICK h : h = FlattenSeq(SubSeq(ss, 1, n - 1))
    OBVIOUS
  <2>4. h \in Str /\ ss[n] \in Str /\ f = h \o ss[n]
    BY <1>6, <2>1, <2>2, <2>3 DEF Str
  <2>5. Len(f) = Len(h) + Len(ss[n]) /\ Len(h) \in Nat /\ Len(ss[n]) \in Nat
    BY <2>4, Behind
  <2>6. Len(ss[n]) = 1 + Len(us[n]) /\ us[n] \in Str
    BY <1>3, <1>6, <2>1
  <2>7. Len(us[n]) \in Nat
    BY <2>6 DEF Str
  <2>. QED BY <2>5, <2>6, <2>7
<1>. QED BY <1>2, <1>10, <1>11, <1>12, <1>13, <1>14, Dropped

\* The words us are the words ts and t.
OneMore(us, ts, t) ==
    /\ us \in Seq(Str) /\ Len(us) # 0 /\ Len(us) = Len(ts) + 1 /\ us[Len(ts) + 1] = t
    /\ \A k \in 1..Len(ts) : us[k] = ts[k]
    /\ Joined(us) = Joined(ts) \o (<<Space>> \o t)

\* LEMMA: so a sequence of words is joined one by one.
LEMMA JoinedStep ==
    ASSUME NEW ts, ts \in Seq(Str), Len(ts) # 0, NEW t, t \in Str, NEW us, us = Append(ts, t)
    PROVE  OneMore(us, ts, t)
<1>1. /\ us \in Seq(Str) /\ Len(us) = Len(ts) + 1 /\ Len(ts) \in Nat /\ us[Len(ts) + 1] = t
      /\ \A k \in 1..Len(ts) : us[k] = ts[k]
  BY Longer
<1>2. Joined(us) = Joined(ts) \o (<<Space>> \o t)
  BY JoinedMore
<1>. QED BY <1>1, <1>2 DEF OneMore

\* The string u is the n bytes of s and the byte b.
OneBehind(u, s, b, n) ==
    u \in Seq(Nat) /\ Len(u) = n + 1 /\ u[n + 1] = b /\ \A k \in 1..n : u[k] = s[k]

\* LEMMA: a byte behind a string, and behind one byte and behind two.
LEMMA Beside1 ==
    ASSUME NEW s, NEW b, NEW n, NEW u, s \in Seq(Nat), b \in Nat, n \in Nat, Len(s) = n, u = s \o <<b>>
    PROVE  OneBehind(u, s, b, n)
<1>1. PICK t : t = <<b>>
  OBVIOUS
<1>2. t \in Seq(Nat) /\ Len(t) = 1 /\ t[1] = b
  BY <1>1
<1>3. u = s \o t
  BY <1>1
<1>4. u \in Seq(Nat) /\ Len(u) = n + 1 /\ \A k \in 1..n : u[k] = s[k]
  BY <1>2, <1>3
<1>5. u[n + 1] = b
  BY <1>2, <1>3
<1>. QED BY <1>4, <1>5 DEF OneBehind

\* LEMMA: a byte and a byte.
LEMMA TwoBytes ==
    ASSUME NEW a \in Nat, NEW b \in Nat
    PROVE  <<a>> \o <<b>> = <<a, b>>
<1>1. PICK s : s = <<a>>
  OBVIOUS
<1>2. s \in Seq(Nat) /\ Len(s) = 1 /\ s[1] = a
  BY <1>1
<1>3. PICK u : u = s \o <<b>>
  OBVIOUS
<1>4. PICK n \in Nat : n = 1
  OBVIOUS
<1>5. u \in Seq(Nat) /\ Len(u) = n + 1 /\ u[n + 1] = b /\ \A k \in 1..n : u[k] = s[k]
  <2>1. s \in Seq(Nat) /\ Len(s) = n
    BY <1>2, <1>4
  <2>2. OneBehind(u, s, b, n)
    BY <1>3, <1>4, <2>1, Beside1, Zenon
  <2>. QED BY <2>2 DEF OneBehind
<1>6. u \in Seq(Nat) /\ Len(u) = 2 /\ u[2] = b
  BY <1>4, <1>5
<1>7. u[1] = a
  BY <1>2, <1>4, <1>5
<1>8. PICK v : v = <<a, b>>
  OBVIOUS
<1>9. v \in Seq(Nat) /\ Len(v) = 2 /\ v[1] = a /\ v[2] = b
  BY <1>8
<1>10. \A k \in 1..2 : u[k] = v[k]
  BY <1>6, <1>7, <1>9
<1>11. u = v
  BY <1>6, <1>9, <1>10
<1>. QED BY <1>1, <1>3, <1>8, <1>11

\* LEMMA: two bytes and a byte.
LEMMA ThreeBytes ==
    ASSUME NEW a \in Nat, NEW b \in Nat, NEW c \in Nat
    PROVE  <<a, b>> \o <<c>> = <<a, b, c>>
<1>1. PICK s : s = <<a, b>>
  OBVIOUS
<1>2. s \in Seq(Nat) /\ Len(s) = 2 /\ s[1] = a /\ s[2] = b
  BY <1>1
<1>3. PICK u : u = s \o <<c>>
  OBVIOUS
<1>4. PICK n \in Nat : n = 2
  OBVIOUS
<1>5. u \in Seq(Nat) /\ Len(u) = n + 1 /\ u[n + 1] = c /\ \A k \in 1..n : u[k] = s[k]
  <2>1. s \in Seq(Nat) /\ Len(s) = n
    BY <1>2, <1>4
  <2>2. OneBehind(u, s, c, n)
    BY <1>3, <1>4, <2>1, Beside1, Zenon
  <2>. QED BY <2>2 DEF OneBehind
<1>6. u \in Seq(Nat) /\ Len(u) = 3 /\ u[3] = c
  BY <1>4, <1>5
<1>7. u[1] = a /\ u[2] = b
  <2>1. 1 \in 1..n /\ 2 \in 1..n
    BY <1>4
  <2>. QED BY <1>2, <1>5, <2>1
<1>8. PICK v : v = <<a, b, c>>
  OBVIOUS
<1>9. v \in Seq(Nat) /\ Len(v) = 3 /\ v[1] = a /\ v[2] = b /\ v[3] = c
  BY <1>8
<1>10. \A k \in 1..3 : u[k] = v[k]
  BY <1>6, <1>7, <1>9
<1>11. u = v
  BY <1>6, <1>9, <1>10
<1>. QED BY <1>1, <1>3, <1>8, <1>11

\* Three strings, put together either way.
Regrouped(a, b, c) == (a \o b) \o c = a \o (b \o c)

\* LEMMA: it makes no difference.
LEMMA Either ==
    ASSUME NEW a, NEW b, NEW c, a \in Str, b \in Str, c \in Str
    PROVE  Regrouped(a, b, c)
BY ConcatAssociative DEF Str, Regrouped

\* LEMMA: a string and another.
LEMMA Both ==
    ASSUME NEW a \in Str, NEW b \in Str
    PROVE  a \o b \in Str
BY Behind

\* A blank and a field, behind a string, all in one or piece by piece.
Tacked(u, name, value) ==
    u \o (<<Space>> \o Field(name, value)) = u \o <<Space>> \o name \o <<Equals>> \o value

\* LEMMA: it makes no difference either.
LEMMA FieldBehind ==
    ASSUME NEW u, NEW name, NEW value, u \in Str, name \in Str, value \in Str
    PROVE  Tacked(u, name, value)
<1>1. PICK s, q : s = <<Space>> /\ q = <<Equals>>
  OBVIOUS
<1>2. s \in Str /\ q \in Str
  BY <1>1 DEF Str, Space, Equals
<1>3. PICK f : f = name \o q
  OBVIOUS
<1>4. f \in Str
  BY <1>2, <1>3, Both
<1>5. u \o (s \o (f \o value)) = (u \o s) \o (f \o value)
  <2>1. PICK g : g = f \o value
    OBVIOUS
  <2>2. g \in Str
    BY <1>4, <2>1, Both
  <2>3. (u \o s) \o g = u \o (s \o g)
    BY <1>2, <2>2, Either DEF Regrouped
  <2>. QED BY <2>1, <2>3, Zenon
<1>6. PICK v : v = u \o s
  OBVIOUS
<1>7. v \in Str
  BY <1>2, <1>6, Both
<1>8. v \o (f \o value) = (v \o f) \o value
  BY <1>4, <1>7, Either DEF Regrouped
<1>9. v \o f = (v \o name) \o q
  BY <1>2, <1>3, <1>7, Either DEF Regrouped
<1>. QED BY <1>1, <1>3, <1>5, <1>6, <1>8, <1>9, Zenon DEF Field, Tacked

\* LEMMA: what neither of two strings holds.
LEMMA ConcatFree ==
    ASSUME NEW s \in Str, NEW t \in Str, NEW bytes, Free(s, bytes), Free(t, bytes)
    PROVE  s \o t \in Str /\ Free(s \o t, bytes)
<1>1. PICK p \in Nat, q \in Nat : p = Len(s) /\ q = Len(t)
  BY DEF Str
<1>2. PICK u : u = s \o t
  OBVIOUS
<1>3. /\ u \in Str /\ DOMAIN u = 1..p + q /\ DOMAIN s = 1..p /\ DOMAIN t = 1..q
      /\ \A k \in 1..p : u[k] = s[k]
      /\ \A k \in 1..q : u[p + k] = t[k]
  BY <1>1, <1>2, Behind
<1>4. ASSUME NEW k \in DOMAIN u PROVE u[k] \notin bytes
  <2>1. CASE k <= p
    <3>1. k \in 1..p
      BY <1>3, <2>1
    <3>. QED BY <1>3, <3>1 DEF Free
  <2>2. CASE ~(k <= p)
    <3>1. PICK j \in 1..q : k = p + j
      <4>1. k - p \in 1..q /\ k = p + (k - p)
        BY <1>3, <2>2
      <4>. QED BY <4>1
    <3>2. u[p + j] = t[j] /\ j \in DOMAIN t
      <4>1. \A i \in 1..q : u[p + i] = t[i]
        BY <1>3, Zenon
      <4>2. DOMAIN t = 1..q
        BY <1>3, Zenon
      <4>. QED BY <3>1, <4>1, <4>2, Zenon
    <3>3. u[k] = t[j]
      BY <3>1, <3>2
    <3>. QED BY <3>2, <3>3 DEF Free
  <2>. QED BY <2>1, <2>2
<1>. QED BY <1>2, <1>3, <1>4 DEF Free

\* The word a rule has for an exe, and its words.
WordOf(exe) == IF exe = Absent THEN All ELSE Field(Exe, exe)
RuleWords(perm, word, path) == <<Allow, Field(Perm, perm), word, Colon, Field(Path, path)>>

\* LEMMA: the text of a rule is its words and a newline.
LEMMA RenderIsJoined ==
    ASSUME NEW perm \in Str, NEW word \in Str, NEW path \in Str, NEW exe,
           word = WordOf(exe)
    PROVE  RenderRule(perm, exe, path) = Joined(RuleWords(perm, word, path)) \o <<Newline>>
<1>1. PICK s, c, f, g :
         s = <<Space>> /\ c = Colon /\ f = Field(Perm, perm) /\ g = Field(Path, path)
  OBVIOUS
<1>2. /\ s \in Str /\ c \in Str /\ Allow \in Str /\ Perm \in Str /\ Path \in Str
      /\ <<Equals>> \in Str /\ <<Newline>> \in Str
  BY <1>1 DEF Str, Space, Colon, Allow, Perm, Path, Equals, Newline
<1>3. f \in Str /\ g \in Str
  <2>1. \A name \in Str, value \in Str : Field(name, value) \in Str
    BY <1>2, Both DEF Field
  <2>. QED BY <1>1, <1>2, <2>1
<1>4. PICK u1, u2, u3, u4 :
         /\ u1 = Allow \o (s \o f) /\ u2 = u1 \o (s \o word) /\ u3 = u2 \o (s \o c)
         /\ u4 = u3 \o (s \o g)
  OBVIOUS
<1>5. /\ u1 \in Str /\ u2 \in Str /\ u3 \in Str /\ s \o f \in Str /\ s \o word \in Str /\ s \o c \in Str
  <2>1. s \o f \in Str /\ s \o word \in Str /\ s \o c \in Str
    BY <1>2, <1>3, Both
  <2>2. u1 \in Str
    BY <1>2, <1>4, <2>1, Both
  <2>3. u2 \in Str
    BY <1>4, <2>1, <2>2, Both
  <2>4. u3 \in Str
    BY <1>4, <2>1, <2>3, Both
  <2>. QED BY <2>1, <2>2, <2>3, <2>4
<1>6. Joined(RuleWords(perm, word, path)) = u4
  <2>1. PICK t1 : t1 = <<Allow>>
    OBVIOUS
  <2>2. t1 \in Seq(Str) /\ Len(t1) = 1 /\ t1[1] = Allow /\ Joined(t1) = Allow
    BY <1>2, <2>1, JoinedOne
  <2>3. PICK t2 : t2 = Append(t1, f)
    OBVIOUS
  <2>4. /\ t2 \in Seq(Str) /\ Len(t2) # 0 /\ Len(t2) = 2 /\ t2[2] = f /\ t2[1] = Allow
        /\ Joined(t2) = u1
    <3>1. OneMore(t2, t1, f)
      <4>1. Len(t1) # 0
        BY <2>2
      <4>. QED BY <1>3, <2>2, <2>3, <4>1, JoinedStep, Zenon
    <3>2. Joined(t2) = u1
      BY <1>1, <1>4, <2>2, <3>1, Zenon DEF OneMore
    <3>. QED BY <2>2, <3>1, <3>2 DEF OneMore
  <2>5. PICK t3 : t3 = Append(t2, word)
    OBVIOUS
  <2>6. /\ t3 \in Seq(Str) /\ Len(t3) # 0 /\ Len(t3) = 3 /\ t3[3] = word /\ t3[2] = f /\ t3[1] = Allow
        /\ Joined(t3) = u2
    <3>1. OneMore(t3, t2, word)
      <4>1. Len(t2) # 0
        BY <2>4
      <4>. QED BY <2>4, <2>5, <4>1, JoinedStep, Zenon
    <3>2. Joined(t3) = u2
      BY <1>1, <1>4, <2>4, <3>1, Zenon DEF OneMore
    <3>. QED BY <2>4, <3>1, <3>2 DEF OneMore
  <2>7. PICK t4 : t4 = Append(t3, c)
    OBVIOUS
  <2>8. /\ t4 \in Seq(Str) /\ Len(t4) # 0 /\ Len(t4) = 4 /\ t4[4] = c /\ t4[3] = word /\ t4[2] = f
        /\ t4[1] = Allow /\ Joined(t4) = u3
    <3>1. OneMore(t4, t3, c)
      <4>1. Len(t3) # 0
        BY <2>6
      <4>. QED BY <1>2, <2>6, <2>7, <4>1, JoinedStep, Zenon
    <3>2. Joined(t4) = u3
      BY <1>1, <1>4, <2>6, <3>1, Zenon DEF OneMore
    <3>. QED BY <2>6, <3>1, <3>2 DEF OneMore
  <2>9. PICK t5 : t5 = Append(t4, g)
    OBVIOUS
  <2>10. /\ t5 \in Seq(Str) /\ Len(t5) = 5 /\ t5[5] = g /\ t5[4] = c /\ t5[3] = word /\ t5[2] = f
         /\ t5[1] = Allow /\ Joined(t5) = u4
    <3>1. OneMore(t5, t4, g)
      <4>1. Len(t4) # 0
        BY <2>8
      <4>. QED BY <1>3, <2>8, <2>9, <4>1, JoinedStep, Zenon
    <3>2. Joined(t5) = u4
      BY <1>1, <1>4, <2>8, <3>1, Zenon DEF OneMore
    <3>. QED BY <2>8, <3>1, <3>2 DEF OneMore
  <2>11. t5 = RuleWords(perm, word, path)
    <3>1. PICK v : v = <<Allow, f, word, c, g>>
      OBVIOUS
    <3>2. v \in Seq(Str) /\ Len(v) = 5 /\ v[1] = Allow /\ v[2] = f /\ v[3] = word /\ v[4] = c /\ v[5] = g
      BY <1>2, <1>3, <3>1
    <3>3. \A k \in 1..5 : t5[k] = v[k]
      BY <2>10, <3>2
    <3>4. t5 = v
      BY <2>10, <3>2, <3>3, Same
    <3>. QED BY <1>1, <3>1, <3>4, Zenon DEF RuleWords
  <2>. QED BY <2>10, <2>11
<1>7. u1 = Allow \o s \o Perm \o <<Equals>> \o perm
  <2>1. Allow \o (<<Space>> \o Field(Perm, perm)) = Allow \o <<Space>> \o Perm \o <<Equals>> \o perm
    <3>1. Allow \in Str /\ Perm \in Str
      BY <1>2
    <3>2. Tacked(Allow, Perm, perm)
      BY <3>1, FieldBehind
    <3>. QED BY <3>2, Zenon DEF Tacked
  <2>. QED BY <1>1, <1>4, <2>1, Zenon
<1>8. u2 = (u1 \o s) \o word
  <2>1. (u1 \o s) \o word = u1 \o (s \o word)
    <3>1. u1 \in Str /\ s \in Str
      BY <1>2, <1>5
    <3>2. Regrouped(u1, s, word)
      BY <3>1, Either
    <3>. QED BY <3>2, Zenon DEF Regrouped
  <2>. QED BY <1>4, <2>1, Zenon
<1>9. u4 = (u2 \o Separator) \o Path \o <<Equals>> \o path
  <2>1. u4 = u3 \o s \o Path \o <<Equals>> \o path
    <3>1. u3 \o (<<Space>> \o Field(Path, path)) = u3 \o <<Space>> \o Path \o <<Equals>> \o path
      <4>1. u3 \in Str /\ Path \in Str
        BY <1>2, <1>5
      <4>2. Tacked(u3, Path, path)
        BY <4>1, FieldBehind
      <4>. QED BY <4>2, Zenon DEF Tacked
    <3>. QED BY <1>1, <1>4, <3>1, Zenon
  <2>2. u3 \o s = u2 \o ((s \o c) \o s)
    <3>1. PICK x : x = s \o c
      OBVIOUS
    <3>2. x \in Str
      BY <1>5, <3>1
    <3>3. (u2 \o x) \o s = u2 \o (x \o s)
      <4>1. u2 \in Str /\ s \in Str
        BY <1>2, <1>5
      <4>2. Regrouped(u2, x, s)
        BY <3>2, <4>1, Either
      <4>. QED BY <4>2, Zenon DEF Regrouped
    <3>. QED BY <1>4, <3>1, <3>3, Zenon
  <2>3. (s \o c) \o s = Separator
    <3>1. <<32>> \o <<58>> = <<32, 58>> /\ <<32, 58>> \o <<32>> = <<32, 58, 32>>
      <4>1. 32 \in Nat /\ 58 \in Nat
        OBVIOUS
      <4>. QED BY <4>1, TwoBytes, ThreeBytes
    <3>. QED BY <1>1, <3>1, Zenon DEF Space, Colon, Separator
  <2>. QED BY <2>1, <2>2, <2>3, Zenon
<1>. QED BY <1>1, <1>6, <1>7, <1>8, <1>9, Zenon DEF RenderRule, Field, WordOf

\* The parts of a string are what lies between the bounds b of its cuts.
Parted(s, cuts, b, n) == SplitAt(s, cuts) = [i \in 1..n |-> SubSeq(s, b[i - 1] + 1, b[i] - 1)]

\* LEMMA: they are.
LEMMA PartedAt ==
    ASSUME NEW s, NEW cuts, NEW b, NEW n, s \in Str, n \in Nat \ {0}, Bounds(b, n, s, cuts)
    PROVE  Parted(s, cuts, b, n)
BY SplitBounds DEF Parted

\* LEMMA: a line and the newline behind it.
LEMMA LineBack ==
    ASSUME NEW s \in Str, Free(s, {Newline})
    PROVE  SplitAt(s \o <<Newline>>, At(s \o <<Newline>>, {Newline})) = <<s, << >>>>
<1>1. PICK n \in Nat : n = Len(s)
  BY DEF Str
<1>2. PICK t : t = s \o <<Newline>>
  OBVIOUS
<1>3. <<Newline>> \in Str /\ Len(<<Newline>>) = 1 /\ <<Newline>>[1] = Newline
  BY DEF Str, Newline
<1>4. /\ t \in Str /\ Len(t) = n + 1 /\ DOMAIN t = 1..n + 1 /\ DOMAIN s = 1..n
      /\ t[n + 1] = Newline /\ \A k \in 1..n : t[k] = s[k]
  <2>1. PICK nl : nl = <<Newline>>
    OBVIOUS
  <2>2. nl \in Str /\ Len(nl) = 1 /\ nl[1] = Newline
    BY <1>3, <2>1
  <2>3. /\ t \in Str /\ Len(t) = n + 1 /\ DOMAIN t = 1..n + 1 /\ DOMAIN s = 1..n
        /\ \A k \in 1..n : t[k] = s[k]
    BY <1>1, <1>2, <2>1, <2>2, Behind
  <2>4. \A k \in 1..1 : t[n + k] = nl[k]
    BY <1>1, <1>2, <2>1, <2>2, Behind
  <2>5. 1 \in 1..1
    OBVIOUS
  <2>6. t[n + 1] = nl[1]
    BY <2>4, <2>5
  <2>. QED BY <2>2, <2>3, <2>6
<1>5. At(t, {Newline}) = {n + 1}
  <2>1. \A k \in 1..n : s[k] # Newline
    BY <1>4 DEF Free
  <2>. QED BY <1>4, <2>1 DEF At
<1>6. PICK b : b = [i \in 0..2 |-> IF i = 0 THEN 0 ELSE n + i]
  OBVIOUS
<1>7. b[0] = 0 /\ b[1] = n + 1 /\ b[2] = n + 2 /\ b \in [0..2 -> Nat]
  BY <1>6
<1>8. Bounds(b, 2, t, {n + 1})
  <2>1. {b[i] : i \in 1..2 - 1} = {n + 1}
    BY <1>7
  <2>2. \A i \in 1..2 : b[i - 1] < b[i]
    BY <1>7
  <2>3. b[2] = Len(t) + 1
    BY <1>4, <1>7
  <2>. QED BY <1>7, <2>1, <2>2, <2>3 DEF Bounds
<1>9. PICK parts : parts = SplitAt(t, {n + 1})
  OBVIOUS
<1>10. parts = [i \in 1..2 |-> SubSeq(t, b[i - 1] + 1, b[i] - 1)]
  <2>1. PICK m \in Nat \ {0} : m = 2
    OBVIOUS
  <2>2. Bounds(b, m, t, {n + 1}) /\ t \in Str
    BY <1>4, <1>8, <2>1
  <2>3. SplitAt(t, {n + 1}) = [i \in 1..m |-> SubSeq(t, b[i - 1] + 1, b[i] - 1)]
    <3>1. PICK cuts : cuts = {n + 1}
      OBVIOUS
    <3>2. Bounds(b, m, t, cuts) /\ t \in Str
      BY <2>2, <3>1
    <3>3. Parted(t, cuts, b, m)
      BY <2>1, <3>2, PartedAt, Zenon
    <3>. QED BY <3>1, <3>3, Zenon DEF Parted
  <2>. QED BY <1>9, <2>1, <2>3, Zenon
<1>11. SubSeq(t, 1, n) = s /\ SubSeq(t, n + 2, n + 1) = << >>
  <2>1. SubSeq(t, 1, n) = s
    BY <1>1, <1>2, <1>3, Ahead
  <2>2. SubSeq(t, n + 2, n + 1) = << >>
    BY <1>4 DEF Str
  <2>. QED BY <2>1, <2>2
<1>12. parts[1] = s /\ parts[2] = << >>
  <2>1. parts[1] = SubSeq(t, b[0] + 1, b[1] - 1) /\ parts[2] = SubSeq(t, b[1] + 1, b[2] - 1)
    <3>1. 1 \in 1..2 /\ 2 \in 1..2 /\ 1 - 1 = 0 /\ 2 - 1 = 1
      OBVIOUS
    <3>2. parts[1] = SubSeq(t, b[1 - 1] + 1, b[1] - 1) /\ parts[2] = SubSeq(t, b[2 - 1] + 1, b[2] - 1)
      BY <1>10, <3>1, Zenon
    <3>. QED BY <3>1, <3>2, Zenon
  <2>2. b[0] + 1 = 1 /\ b[1] - 1 = n /\ b[1] + 1 = n + 2 /\ b[2] - 1 = n + 1
    BY <1>7
  <2>. QED BY <1>11, <2>1, <2>2
<1>13. parts = <<s, << >>>>
  <2>1. << >> \in Str
    BY DEF Str
  <2>2. parts \in [1..2 -> Str]
    <3>1. \A k \in 1..2 : parts[k] \in Str
      BY <1>12, <2>1
    <3>2. parts = [k \in 1..2 |-> parts[k]]
      BY <1>10
    <3>. QED BY <3>1, <3>2, Zenon
  <2>3. PICK pair : pair = <<s, << >>>>
    OBVIOUS
  <2>4. pair \in Seq(Str) /\ Len(pair) = 2 /\ pair[1] = s /\ pair[2] = << >>
    BY <2>1, <2>3
  <2>5. parts \in Seq(Str) /\ Len(parts) = 2
    <3>1. PICK m \in Nat : m = 2
      OBVIOUS
    <3>2. parts \in [1..m -> Str]
      BY <2>2, <3>1
    <3>3. parts \in Seq(Str) /\ Len(parts) = m
      BY <3>2
    <3>. QED BY <3>1, <3>3
  <2>6. \A k \in 1..2 : parts[k] = pair[k]
    BY <1>12, <2>4
  <2>7. parts = pair
    BY <2>4, <2>5, <2>6, Same
  <2>. QED BY <2>3, <2>7
<1>. QED BY <1>2, <1>5, <1>9, <1>13

\* LEMMA: a field is free of what its value is free of.
LEMMA FieldFree ==
    ASSUME NEW name \in {Perm, Exe, Path}, NEW value \in Str, Free(value, {Space, Newline})
    PROVE  Field(name, value) \in Str /\ Free(Field(name, value), {Space, Newline})
<1>1. PICK h : h = name \o <<Equals>>
  OBVIOUS
<1>2. h \in Str /\ Free(h, {Space, Newline})
  <2>1. PICK x \in Nat : name = <<x>> /\ x > 32
    BY DEF Perm, Exe, Path
  <2>2. h = <<x, 61>>
    BY <1>1, <2>1, TwoBytes DEF Equals
  <2>3. h \in Seq(Nat) /\ DOMAIN h = 1..2 /\ h[1] = x /\ h[2] = 61
    BY <2>1, <2>2
  <2>. QED BY <2>1, <2>3 DEF Space, Newline, Str, Free
<1>. QED BY <1>1, <1>2, ConcatFree DEF Field

\* LEMMA: the rules file has the words of the rule, and nothing else.
LEMMA RuleReadBack ==
    ASSUME NEW perm \in Str, Free(perm, {Space, Newline}), NEW word \in Str, Free(word, {Space, Newline}),
           NEW path \in Str, Free(path, {Space, Newline}), NEW exe,
           word = WordOf(exe)
    PROVE  RuleLines(RenderRule(perm, exe, path)) = <<RuleWords(perm, word, path)>>
<1>1. PICK ts : ts = RuleWords(perm, word, path)
  OBVIOUS
<1>2. ts \in Seq(Str) /\ Len(ts) = 5 /\ \A i \in DOMAIN ts : Free(ts[i], {Space, Newline})
  <2>1. \A name \in {Perm, Path} : \A value \in Str :
           Free(value, {Space, Newline}) =>
              Field(name, value) \in Str /\ Free(Field(name, value), {Space, Newline})
    BY FieldFree
  <2>2. /\ Allow \in Str /\ Free(Allow, {Space, Newline})
        /\ Colon \in Str /\ Free(Colon, {Space, Newline})
    BY DEF Allow, Colon, Space, Newline, Str, Free
  <2>3. PICK a, b, c, d, e :
           a = Allow /\ b = Field(Perm, perm) /\ c = word /\ d = Colon /\ e = Field(Path, path)
    OBVIOUS
  <2>4. /\ a \in Str /\ b \in Str /\ c \in Str /\ d \in Str /\ e \in Str
        /\ Free(a, {Space, Newline}) /\ Free(b, {Space, Newline}) /\ Free(c, {Space, Newline})
        /\ Free(d, {Space, Newline}) /\ Free(e, {Space, Newline})
    BY <2>1, <2>2, <2>3
  <2>5. ts = <<a, b, c, d, e>>
    BY <1>1, <2>3 DEF RuleWords
  <2>6. /\ ts \in Seq(Str) /\ Len(ts) = 5 /\ DOMAIN ts = 1..5
        /\ ts[1] = a /\ ts[2] = b /\ ts[3] = c /\ ts[4] = d /\ ts[5] = e
    BY <2>4, <2>5
  <2>. QED BY <2>4, <2>6
<1>3. \A i \in DOMAIN ts : Free(ts[i], {Space}) /\ Free(ts[i], {Newline})
  BY <1>2 DEF Free
<1>4. PICK body : body = Joined(ts)
  OBVIOUS
<1>5. body \in Str /\ SplitAt(body, At(body, {Space})) = ts
  <2>1. Len(ts) # 0
    BY <1>2
  <2>. QED BY <1>2, <1>3, <1>4, <2>1, SplitJoined, Zenon
<1>6. Free(body, {Newline})
  <2>1. Space \notin {Newline}
    BY DEF Space, Newline
  <2>2. Len(ts) # 0
    BY <1>2
  <2>. QED BY <1>2, <1>3, <1>4, <2>1, <2>2, JoinedFree, Zenon
<1>7. PICK text : text = RenderRule(perm, exe, path)
  OBVIOUS
<1>8. text = body \o <<Newline>>
  BY <1>1, <1>4, <1>7, RenderIsJoined
<1>9. PICK lines : lines = SplitAt(text, At(text, {Newline}))
  OBVIOUS
<1>10. lines = <<body, << >>>>
  BY <1>5, <1>6, <1>8, <1>9, LineBack
<1>11. Len(lines) = 2 /\ lines[1] = body
  BY <1>10
<1>12. RuleLines(text) = [i \in 1..Len(lines) - 1 |-> SplitAt(lines[i], At(lines[i], {Space}))]
  BY <1>9 DEF RuleLines
<1>13. RuleLines(text) = [i \in 1..1 |-> ts]
  BY <1>5, <1>11, <1>12
<1>14. [i \in 1..1 |-> ts] = <<ts>>
  OBVIOUS
<1>. QED BY <1>1, <1>7, <1>13, <1>14
--------------------------------------------------------------------------------
(* What is written of a denial                                             *)

\* LEMMA: a byte string that holds none of the bytes is free of them.
LEMMA HoldingNone ==
    ASSUME NEW s \in ByteString, NEW bytes, s \notin Holding(bytes)
    PROVE  Free(s, bytes)
BY DEF ByteString, Holding, At, Free

\* What the policy makes of a denial that it has something to suggest for: the
\* trust of its path, or the rule of its permission, path and program.
Suggestion(d, ev) ==
    \/ d.kind = "trust" /\ d.path = ev.path
    \/ /\ d.kind = "rule" /\ d.path = ev.path /\ Free(ev.path, {Space, Newline})
       /\ Mode[d.perm] = ev.perm
       /\ d.exe # Absent => d.exe = ev.exe /\ Free(ev.exe, {Space, Newline})

\* LEMMA: what is suggested is about what was denied, and a rule can be written.
LEMMA SuggestedIs ==
    ASSUME NEW ev \in AuditEvents, NEW d, d = P!Decide(Fact(Wholly(ev)), Absent),
           d.kind \in {"rule", "trust"}
    PROVE  Suggestion(d, ev)
<1>1. PICK r : r = Fact(Wholly(ev))
  OBVIOUS
<1>2. r.path = ev.path /\ r.exe = ev.exe /\ r.perm = PermOf(ev.perm)
  BY <1>1 DEF Fact, Wholly
<1>3. ev.path \in ByteString /\ ev.exe \in ByteString /\ ev.perm \in {Mode["open"], Mode["execute"]}
  BY AuditAssumption DEF ByteString
<1>4. Mode[PermOf(ev.perm)] = ev.perm
  <2>1. Mode["open"] # Mode["execute"]
    BY DEF Mode
  <2>. QED BY <1>3, <2>1 DEF PermOf
<1>5. \A s \in ByteString : s \notin Holding(0..31) /\ s \notin Holding({Space, 58})
                            => Free(s, {Space, Newline})
  <2>. SUFFICES ASSUME NEW s \in ByteString, s \notin Holding(0..31), s \notin Holding({Space, 58})
                PROVE  Free(s, {Space, Newline})
    OBVIOUS
  <2>1. Free(s, 0..31) /\ Free(s, {Space, 58})
    BY HoldingNone
  <2>. QED BY <2>1 DEF Free, Space, Newline
<1>6. PICK scope : scope = P!Scope(r, Absent)
  OBVIOUS
<1>7. scope # Absent => scope = ev.exe /\ Free(ev.exe, {Space, Newline})
  BY <1>2, <1>3, <1>5, <1>6 DEF P!Scope
<1>8. \/ d = P!Explain \/ d = P!TrustFile(r.path)
      \/ /\ d = P!RuleFor(r.perm, scope, r.path)
         /\ r.path \notin Holding(0..31) /\ r.path \notin Holding({Space, 58})
  BY <1>1, <1>6 DEF P!Decide, P!RuleArm
<1>9. CASE d = P!Explain
  BY <1>9 DEF P!Explain
<1>10. CASE d = P!TrustFile(r.path)
  BY <1>2, <1>10 DEF P!TrustFile, Suggestion
<1>11. CASE /\ d = P!RuleFor(r.perm, scope, r.path)
            /\ r.path \notin Holding(0..31) /\ r.path \notin Holding({Space, 58})
  <2>1. d.kind = "rule" /\ d.path = ev.path /\ d.perm = PermOf(ev.perm) /\ d.exe = scope
    BY <1>2, <1>11 DEF P!RuleFor
  <2>2. Free(ev.path, {Space, Newline})
    BY <1>2, <1>3, <1>5, <1>11
  <2>. QED BY <1>4, <1>7, <2>1, <2>2 DEF Suggestion
<1>. QED BY <1>8, <1>9, <1>10, <1>11

\* The text of a suggestion.
TextOf(d) ==
    IF d.kind = "trust" THEN RenderTrust(d.path) ELSE RenderRule(Mode[d.perm], d.exe, d.path)

\* LEMMA: the shell or the daemon reads in it what was denied.
LEMMA SuggestionReadBack ==
    ASSUME NEW ev \in AuditEvents, Suggestion(tool.decided, ev)
    PROVE  ReadAs(ev, TextOf(tool.decided))
<1>1. PICK d : d = tool.decided
  OBVIOUS
<1>2. ev.path \in Str /\ ev.exe \in Str /\ ev.perm \in Str /\ Free(ev.perm, {Space, Newline})
  BY AuditEventIs DEF Free, Mode, Space, Newline
<1>3. CASE d.kind = "trust" /\ d.path = ev.path
  BY <1>1, <1>2, <1>3, TrustReadBack DEF ReadAs, Names, TextOf
<1>4. CASE /\ d.kind = "rule" /\ d.path = ev.path /\ Free(ev.path, {Space, Newline})
           /\ Mode[d.perm] = ev.perm
           /\ d.exe # Absent => d.exe = ev.exe /\ Free(ev.exe, {Space, Newline})
  <2>1. PICK word : word = WordOf(d.exe)
    OBVIOUS
  <2>2. word \in {All, Field(Exe, ev.exe)}
    BY <1>4, <2>1 DEF WordOf
  <2>3. word \in Str /\ Free(word, {Space, Newline})
    <3>1. CASE d.exe = Absent
      BY <2>1, <3>1 DEF WordOf, All, Str, Free, Space, Newline
    <3>2. CASE d.exe # Absent
      <4>1. d.exe = ev.exe /\ Free(ev.exe, {Space, Newline}) /\ word = Field(Exe, ev.exe)
        BY <1>4, <2>1, <3>2 DEF WordOf
      <4>. QED BY <1>2, <4>1, FieldFree
    <3>. QED BY <3>1, <3>2
  <2>4. RuleLines(RenderRule(ev.perm, d.exe, ev.path)) = <<RuleWords(ev.perm, word, ev.path)>>
    BY <1>2, <1>4, <2>1, <2>3, RuleReadBack
  <2>5. d.kind # "trust" /\ TextOf(d) = RenderRule(ev.perm, d.exe, ev.path)
    BY <1>4 DEF TextOf
  <2>. QED BY <1>1, <2>2, <2>4, <2>5 DEF ReadAs, Names, RuleWords
<1>. QED BY <1>1, <1>3, <1>4 DEF Suggestion

\* What is written as text is the text of what was suggested.
TextInv ==
    /\ ToolShape
    /\ tool.pc = "done" => tool.out = [form |-> tool.out.form, text |-> tool.out.text]
    /\ tool.pc = "done" /\ tool.out.form = "text" =>
          Suggested /\ tool.out.text = TextOf(tool.decided)

\* LEMMA: it is.
LEMMA TextInvHolds == Spec => []TextInv
<1>1. Init => TextInv
  BY DEF Init, TextInv, ToolShape
<1>2. TextInv /\ [Next]_vars => TextInv'
  <2>. SUFFICES ASSUME TextInv, [Next]_vars PROVE TextInv'
    OBVIOUS
  <2>1. ASSUME NEW conf \in Confs, ReadConf(conf) PROVE TextInv'
    BY <2>1 DEF TextInv, ToolShape, ReadConf
  <2>2. ASSUME ConfFails PROVE TextInv'
    BY <2>2 DEF TextInv, ToolShape, ConfFails
  <2>3. ASSUME NEW text, NEW of, Written(text, of) PROVE TextInv'
    BY <2>3 DEF TextInv, ToolShape, Written, Suggested
  <2>4. ASSUME Take PROVE TextInv'
    BY <2>4 DEF TextInv, ToolShape, Take
  <2>5. ASSUME NEW form, NEW text, Writes(form, text),
               form = "text" => Suggested /\ text = TextOf(tool.decided)
        PROVE  TextInv'
    <3>1. /\ tool' = [tool EXCEPT !.pc = "done", !.out = [form |-> form, text |-> text]]
          /\ tool = [pc |-> tool.pc, known |-> tool.known, decided |-> tool.decided, key |-> tool.key,
                     out |-> tool.out]
      BY <2>5 DEF Writes, TextInv, ToolShape
    <3>2. PICK out : out = [form |-> form, text |-> text]
      OBVIOUS
    <3>3. tool' = [pc |-> "done", known |-> tool.known, decided |-> tool.decided, key |-> tool.key,
                   out |-> out]
      BY <3>1, <3>2
    <3>4. tool'.decided = tool.decided /\ tool'.out = out /\ ToolShape'
      BY <3>3 DEF ToolShape
    <3>5. out.form = form /\ out.text = text /\ out = [form |-> out.form, text |-> out.text]
      BY <3>2
    <3>6. Suggested' = Suggested
      BY <3>4 DEF Suggested
    <3>. QED BY <2>5, <3>4, <3>5, <3>6 DEF TextInv
  <2>6. CASE WriteText
    <3>1. Suggested /\ Writes("text", TextOf(tool.decided))
      BY <2>6 DEF WriteText, TextOf
    <3>. QED BY <2>5, <3>1
  <2>7. CASE WriteDocument \/ WriteRow \/ WriteRowDocument
    <3>1. PICK form \in {"document", "row", "row document"} : \E text : Writes(form, text)
      BY <2>7 DEF WriteDocument, WriteRow, WriteRowDocument
    <3>2. PICK text : Writes(form, text)
      BY <3>1
    <3>. QED BY <2>5, <3>2
  <2>8. CASE UNCHANGED vars
    BY <2>8 DEF TextInv, ToolShape, Suggested, vars
  <2>. QED
    BY <2>1, <2>2, <2>3, <2>4, <2>6, <2>7, <2>8 DEF Next, LogRecord, LogFreed, LogOther, LogAudit
<1>. QED BY <1>1, <1>2, PTL DEF Spec

\* THEOREM: the commands and the rule that are written of a denial of the audit
\* log are read back by the shell and by the daemon as the denied path, byte
\* for byte, and a rule as the program's and for the permission it was denied.
\* Quotes, newlines and bytes that are no UTF-8 may be in the path.
THEOREM AuditTextIsReal ==
    ASSUME Unslashed
    PROVE  Spec => [](about.route = "audit" /\ tool.out.form = "text" => ActedIsReal)
<1>1. AuditInv /\ TextInv => (about.route = "audit" /\ tool.out.form = "text" => ActedIsReal)
  <2>. SUFFICES ASSUME AuditInv, TextInv, about.route = "audit", tool.out.form = "text", tool.pc = "done"
                PROVE  ActedIsReal
    BY DEF ActedIsReal
  <2>1. PICK ev, suffix : /\ ev = about.event /\ ev \in AuditEvents /\ suffix \in Enrichments
                          /\ line = AuditLines(ev, suffix)
    BY DEF AuditInv
  <2>2. Assembled(line) = Denial(ev)
    BY <2>1, AssembledIs
  <2>3. tool.decided = P!Decide(Fact(Wholly(ev)), Absent)
    BY <2>1, <2>2, DenialDecided DEF AuditInv
  <2>4. tool.decided.kind \in {"rule", "trust"} /\ tool.out.text = TextOf(tool.decided)
    BY DEF TextInv, Suggested
  <2>5. Suggestion(tool.decided, ev)
    BY <2>1, <2>3, <2>4, SuggestedIs
  <2>6. ReadAs(ev, tool.out.text)
    BY <2>1, <2>4, <2>5, SuggestionReadBack
  <2>7. ev # Absent /\ IsPrefix(Deny, ev.dec)
    BY <2>1, AuditAssumption
  <2>. QED BY <2>1, <2>6, <2>7 DEF ActedIsReal
<1>. QED BY <1>1, AuditInvHolds, TextInvHolds, PTL
================================================================================
