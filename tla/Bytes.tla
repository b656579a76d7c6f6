--------------------------------- MODULE Bytes ---------------------------------
(***************************************************************************)
(* Byte strings as sequences of byte values: what the other modules need   *)
(* of slices, beside the sequence operators of the library.                *)
(***************************************************************************)
EXTENDS Integers, Sequences, FiniteSets, SequencesExt

Smallest(ns) == CHOOSE n \in ns : \A m \in ns : n <= m

Space == 32
Slash == 47
Comma == 44
Percent == 37

\* The positions holding a byte of the set.
At(s, bytes) == {k \in DOMAIN s : s[k] \in bytes}

\* The positions an occurrence of the needle starts at.
Occurrences(s, needle) ==
    {k \in 1..Len(s) - Len(needle) + 1 : SubSeq(s, k, k + Len(needle) - 1) = needle}

\* The first position from i on that holds no byte of the set.
PastRun(s, i, bytes) == Smallest({k \in i..Len(s) + 1 : k > Len(s) \/ s[k] \notin bytes})

\* The parts of s between the positions in cuts.
SplitAt(s, cuts) ==
    LET end(i) == Smallest({k \in cuts : k >= i} \cup {Len(s) + 1})
        parts[i \in 1..Len(s) + 1] ==
          <<SubSeq(s, i, end(i) - 1)>> \o IF end(i) > Len(s) THEN << >> ELSE parts[end(i) + 1]
    IN  parts[1]

\* A fold from the left by recursion on the position, for strings too long for
\* the library's fold over index sets.
Scan(Step(_, _), init, s) ==
    LET upto[k \in 0..Len(s)] == IF k = 0 THEN init ELSE Step(upto[k - 1], s[k])
    IN  upto[Len(s)]

\* Every element replaced by a string, in order.
Spelled(s, Write(_)) == FlattenSeq([k \in DOMAIN s |-> Write(s[k])])

\* Byte order, a prefix first.
ByteLess(a, b) ==
    \/ IsStrictPrefix(a, b)
    \/ \E k \in DOMAIN a \cap DOMAIN b :
          SubSeq(a, 1, k - 1) = SubSeq(b, 1, k - 1) /\ a[k] < b[k]
================================================================================
