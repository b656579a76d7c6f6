------------------------------- MODULE FileOrder -------------------------------
(***************************************************************************)
(* src/fapolicyd/rules_d.rs: which files of rules.d/ fagenrules merges, in *)
(* which order, and what name sorts a new file ahead of one of them.  No   *)
(* state.                                                                  *)
(*                                                                         *)
(* A name is the sequence of its bytes: the order is GNU's filevercmp,     *)
(* where digit runs count as numbers, leading zeros and extensions weigh   *)
(* nothing at first, and one byte, `~`, sorts ahead of the end of a name.  *)
(***************************************************************************)
EXTENDS Verdict

CONSTANT MaxPrefix  \* bound: the largest prefix there is, for u64::MAX

ASSUME MaxPrefixAssumption == MaxPrefix \in Nat \ {0}

\* None is no number with its width.
ASSUME WidthAssumption == None \notin Nat \X Nat

Zero == 48
Dot == 46
Hyphen == 45
Tilde == 126
IsDigit(c) == c \in Zero..57
IsAlpha(c) == c \in 65..90 \cup 97..122

\* ".rules" and "-rulesteward.rules"
RulesSuffix == <<46, 114, 117, 108, 101, 115>>
NewSuffix == <<45, 114, 117, 108, 101, 115, 116, 101, 119, 97, 114, 100>> \o RulesSuffix

--------------------------------------------------------------------------------
(* filevercmp                                                              *)

\* order: the classes ~ < end < digit < letter < any other byte, the last two
\* ranked by the byte.
EndRank == 1
DigitRank == 2
Order(s, i) ==
    IF i > Len(s) THEN EndRank
    ELSE IF s[i] = Tilde THEN 0
    ELSE IF IsDigit(s[i]) THEN DigitRank
    ELSE s[i] + IF IsAlpha(s[i]) THEN 256 ELSE 512

Sign(a, b) == IF a < b THEN -1 ELSE IF a > b THEN 1 ELSE 0

\* digits: the digit run at i without its leading zeros.
Digits(s, i) == SubSeq(s, PastRun(s, i, {Zero}), PastRun(s, i, Zero..57) - 1)

\* Two numbers without leading zeros: the longer one is the larger.
ByNumber(a, b) ==
    IF Len(a) # Len(b) THEN Sign(Len(a), Len(b))
    ELSE IF a = b THEN 0 ELSE IF ByteLess(a, b) THEN -1 ELSE 1

\* verrevcmp, <<i, j>> being where it stands in s and t: byte by byte while
\* their classes agree, as numbers where each side is on digits or at its end.
Verrevcmp(s, t) ==
    LET compare[at \in (1..Len(s) + 1) \X (1..Len(t) + 1)] ==
          LET i    == at[1]
              j    == at[2]
              next == <<PastRun(s, i, Zero..57), PastRun(t, j, Zero..57)>>
          IN  IF {Order(s, i), Order(t, j)} \subseteq {DigitRank, EndRank}
              THEN IF Digits(s, i) # Digits(t, j) THEN ByNumber(Digits(s, i), Digits(t, j))
                   ELSE IF next = at THEN 0 ELSE compare[next]
              ELSE IF Order(s, i) # Order(t, j) THEN Sign(Order(s, i), Order(t, j))
              ELSE compare[<<i + 1, j + 1>>]
    IN  compare[<<1, 1>>]

\* extensions_len reaches the end: from i on there are only extensions, each a
\* dot, a letter or `~`, and any letters, digits and `~` after it.
ExtensionsFrom(s, i) ==
    /\ i \in DOMAIN s => s[i] = Dot
    /\ \A k \in i..Len(s) :
          IF s[k] = Dot THEN k < Len(s) /\ (IsAlpha(s[k + 1]) \/ s[k + 1] = Tilde)
          ELSE IsAlpha(s[k]) \/ IsDigit(s[k]) \/ s[k] = Tilde

\* file_prefixlen: the length of the name up to its trailing extensions.
FilePrefixLen(s) == Smallest({i \in 0..Len(s) : (i = 0 => s = << >>) /\ ExtensionsFrom(s, i + 1)})

\* filevercmp: without the extensions first, and then with them.
Filevercmp(a, b) ==
    LET first == Verrevcmp(SubSeq(a, 1, FilePrefixLen(a)), SubSeq(b, 1, FilePrefixLen(b)))
    IN  IF a = << >> \/ b = << >> THEN Sign(Len(a), Len(b))
        ELSE IF first # 0 THEN first ELSE Verrevcmp(a, b)

\* MUTANT: no tie-break between two names that compare equal.
BeforeTied(a, b) == Filevercmp(a, b) < 0

\* Name a is merged ahead of name b; byte order breaks a tie.
Before(a, b) == Filevercmp(a, b) < 0 \/ (Filevercmp(a, b) = 0 /\ ByteLess(a, b))

\* files: what fagenrules lists of a directory, `*.rules` and no dotfile.
IsMerged(name) == IsSuffix(RulesSuffix, name) /\ name[1] # Dot

Inserted(name, sorted) ==
    InsertAt(sorted, 1 + Cardinality({i \in DOMAIN sorted : Before(sorted[i], name)}), name)
InOrder(names) == FoldSet(Inserted, << >>, {name \in names : IsMerged(name)})

--------------------------------------------------------------------------------
(* recommend                                                               *)

\* prefix: the number a name starts with and how many digits spell it, None
\* when there is none or it is too large.
Prefix(name) ==
    LET digits == SubSeq(name, 1, PastRun(name, 1, Zero..57) - 1)
        value  == Scan(LAMBDA n, c : IF n > MaxPrefix THEN n ELSE 10 * n + (c - Zero), 0, digits)
    IN  IF digits = << >> \/ value > MaxPrefix THEN None ELSE <<value, Len(digits)>>

\* The number n in at least `width` digits.
Padded(n, width) ==
    LET spelt[k \in 0..n] == IF k < 10 THEN <<Zero + k>> ELSE spelt[k \div 10] \o <<Zero + (k % 10)>>
        short == width - Len(spelt[n])
    IN  [i \in 1..short |-> Zero] \o spelt[n]

Larger(p, q) == p[1] > q[1] \/ (p[1] = q[1] /\ p[2] >= q[2])

\* MUTANT: the name's own number, which sorts with it and not before it.
RecommendSame(names, at) ==
    LET own == Prefix(names[at])
    IN  IF own # None THEN Padded(own[1], own[2]) \o NewSuffix ELSE None

\* recommend: the name to give a file that has to sort ahead of names[at].
\* One less than its number, None when that is 0; for a name with no number,
\* one more than the largest there is.
Recommend(names, at) ==
    LET own == Prefix(names[at])
        all == {Prefix(names[i]) : i \in DOMAIN names} \ {None}
        top == CHOOSE p \in all : \A q \in all : Larger(p, q)
        one == IF top[1] = MaxPrefix THEN top[1] ELSE top[1] + 1
    IN  IF own = None
        THEN (IF all = {} THEN Padded(1, 1) ELSE Padded(one, top[2])) \o NewSuffix
        ELSE IF own[1] = 0 THEN None
        ELSE Padded(own[1] - 1, own[2]) \o NewSuffix
================================================================================
