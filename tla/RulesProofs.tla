------------------------------ MODULE RulesProofs ------------------------------
(***************************************************************************)
(* Proofs about RulesRun, for every host, every edit of it and every       *)
(* command line: the names that are weighed against each other are in one  *)
(* order, a fragment that was applied allows no more than was denied or    *)
(* asked for, and it is reached before the rules that denied.              *)
(***************************************************************************)
EXTENDS RulesRun, FileOrderProofs

--------------------------------------------------------------------------------
(* Sequences                                                               *)

IsSeq(s) == s \in Seq(ToSet(s))

\* LEMMA: a sequence is one of its own members.
LEMMA SeqSelf ==
    ASSUME NEW S, NEW s \in Seq(S)
    PROVE  IsSeq(s)
BY DEF IsSeq, ToSet

\* LEMMA: and of any set that has them.
LEMMA SeqWider ==
    ASSUME NEW S, NEW s, IsSeq(s), ToSet(s) \subseteq S
    PROVE  s \in Seq(S)
BY DEF IsSeq, ToSet

\* LEMMA: a position of a sequence, and the member there.
LEMMA SeqAt ==
    ASSUME NEW s, IsSeq(s)
    PROVE  /\ Len(s) \in Nat /\ DOMAIN s = 1..Len(s)
           /\ \A i \in DOMAIN s : s[i] \in ToSet(s)
BY DEF IsSeq, ToSet

\* LEMMA: sequences of one element, and of none.
LEMMA AtMostOne ==
    ASSUME NEW S
    PROVE  << >> \in Seq(S) /\ \A e \in S : <<e>> \in Seq(S)
OBVIOUS

\* LEMMA: one element more.
LEMMA OneMore ==
    ASSUME NEW S, NEW s \in Seq(S), NEW e \in S
    PROVE  /\ s \o <<e>> \in Seq(S) /\ Len(s \o <<e>>) = Len(s) + 1
           /\ \A i \in 1..Len(s) : (s \o <<e>>)[i] = s[i]
           /\ (s \o <<e>>)[Len(s) + 1] = e
OBVIOUS

\* LEMMA: a sequence of one, of two and of five elements.
LEMMA OfOne ==
    ASSUME NEW S, NEW t \in Seq(S), Len(t) = 1
    PROVE  t = <<t[1]>>
OBVIOUS

LEMMA OfTwo ==
    ASSUME NEW S, NEW t \in Seq(S), Len(t) = 2
    PROVE  t = <<t[1], t[2]>>
OBVIOUS

LEMMA OfFive ==
    ASSUME NEW S, NEW t \in Seq(S), Len(t) = 5
    PROVE  t = <<t[1], t[2], t[3], t[4], t[5]>>
<1>. DEFINE u == <<t[1], t[2], t[3], t[4], t[5]>>
<1>1. Len(u) = 5 /\ u \in Seq(S)
  OBVIOUS
<1>2. u[1] = t[1] /\ u[2] = t[2] /\ u[3] = t[3] /\ u[4] = t[4] /\ u[5] = t[5]
  OBVIOUS
<1>. HIDE DEF u
<1>3. \A i \in 1..5 : i = 1 \/ i = 2 \/ i = 3 \/ i = 4 \/ i = 5
  OBVIOUS
<1>4. \A i \in 1..Len(t) : t[i] = u[i]
  BY <1>2, <1>3
<1>5. t = u
  BY <1>1, <1>4, SeqEqual
<1>. QED BY <1>5 DEF u

\* LEMMA: its middle, and its last.
LEMMA MiddleOfFive ==
    ASSUME NEW S, NEW t \in Seq(S), Len(t) = 5
    PROVE  SubSeq(t, 2, 3) = <<t[2], t[3]>>
<1>1. t[2] \in S /\ t[3] \in S
  <2>1. 2 \in 1..Len(t) /\ 3 \in 1..Len(t)
    OBVIOUS
  <2>. QED BY <2>1, ElementOfSeq
<1>2. \A i \in 2..3 : i = 2 \/ i = 3
  OBVIOUS
<1>3. \A i \in 2..3 : t[i] \in S
  BY <1>1, <1>2
<1>4. PICK u : u = SubSeq(t, 2, 3)
  OBVIOUS
<1>5. u \in Seq(S)
  BY <1>3, <1>4, SubSeqProperties
<1>6. Len(u) = 2 /\ u[1] = t[2] /\ u[2] = t[3]
  BY <1>4
<1>. QED BY <1>4, <1>5, <1>6, OfTwo

LEMMA LastOfFive ==
    ASSUME NEW S, NEW t \in Seq(S), Len(t) = 5
    PROVE  SubSeq(t, 5, 5) = <<t[5]>>
<1>1. t[5] \in S
  OBVIOUS
<1>2. \A i \in 5..5 : i = 5
  OBVIOUS
<1>3. \A i \in 5..5 : t[i] \in S
  BY <1>1, <1>2
<1>4. PICK u : u = SubSeq(t, 5, 5)
  OBVIOUS
<1>5. u \in Seq(S)
  BY <1>3, <1>4, SubSeqProperties
<1>6. Len(u) = 1 /\ u[1] = t[5]
  BY <1>4
<1>. QED BY <1>4, <1>5, <1>6, OfOne

\* LEMMA: five written one after the other.
LEMMA FiveInTurn ==
    ASSUME NEW a, NEW b, NEW c, NEW d, NEW e
    PROVE  <<a, b>> \o <<c>> \o <<d>> \o <<e>> = <<a, b, c, d, e>>
<1>1. PICK S : S = {a, b, c, d, e}
  OBVIOUS
<1>2. PICK u : u = <<a, b>> \o <<c>>
  OBVIOUS
<1>3. u \in Seq(S)
  BY <1>1, <1>2
<1>4. Len(u) = 3 /\ u[1] = a /\ u[2] = b /\ u[3] = c
  BY <1>1, <1>2
<1>5. PICK v : v = u \o <<d>>
  OBVIOUS
<1>6. d \in S /\ e \in S
  BY <1>1
<1>7. v \in Seq(S) /\ Len(v) = Len(u) + 1 /\ (\A i \in 1..Len(u) : v[i] = u[i]) /\ v[Len(u) + 1] = d
  BY <1>5, <1>6, <1>3, OneMore
<1>8. Len(v) = 4 /\ v[1] = a /\ v[2] = b /\ v[3] = c /\ v[4] = d
  BY <1>4, <1>7
<1>9. PICK w : w = v \o <<e>>
  OBVIOUS
<1>10. w \in Seq(S) /\ Len(w) = Len(v) + 1 /\ (\A i \in 1..Len(v) : w[i] = v[i]) /\ w[Len(v) + 1] = e
  BY <1>6, <1>7, <1>9, OneMore
<1>11. Len(w) = 5 /\ w[1] = a /\ w[2] = b /\ w[3] = c /\ w[4] = d /\ w[5] = e
  BY <1>8, <1>10
<1>. QED BY <1>2, <1>5, <1>9, <1>10, <1>11, OfFive

--------------------------------------------------------------------------------
(* The lines of a file and its rules                                       *)

\* The members of e at those positions of a sequence that are in G.
Those(lines, G, e) == [i \in DOMAIN lines |-> IF i \in G THEN <<e[i]>> ELSE << >>]

\* LEMMA: the lines that satisfy a condition, each made something of, in order.
LEMMA PickedLines ==
    ASSUME NEW lines, IsSeq(lines), NEW G, NEW e
    PROVE  LET t == FlattenSeq(Those(lines, G, e))
           IN  /\ IsSeq(t)
               /\ \A k \in DOMAIN t : \E i \in DOMAIN lines \cap G : t[k] = e[i]
               /\ \A i \in DOMAIN lines \cap G : \E k \in DOMAIN t : t[k] = e[i]
<1>0. PICK ss : ss = Those(lines, G, e)
  OBVIOUS
<1>1. PICK n \in Nat : n = Len(lines) /\ DOMAIN lines = 1..n
  BY SeqAt
<1>2. PICK S : S = {e[i] : i \in 1..n}
  OBVIOUS
<1>3. ss \in Seq(Seq(S)) /\ Len(ss) = n
  <2>1. ASSUME NEW i \in 1..n PROVE ss[i] \in Seq(S)
    <3>1. ss[i] = IF i \in G THEN <<e[i]>> ELSE << >>
      BY <1>0, <1>1 DEF Those
    <3>2. e[i] \in S
      BY <1>2
    <3>. QED BY <3>1, <3>2
  <2>. QED BY <1>0, <1>1, <2>1 DEF Those
<1>4. \A i \in 1..n : i \in G => e[i] \in S
  BY <1>2
<1>5. \A i \in 1..n : ss[i] = IF i \in G THEN <<e[i]>> ELSE << >>
  BY <1>0, <1>1 DEF Those
<1>6. FlattenSeq(ss) \in Seq(S) /\ \E h : Keeps(h, FlattenSeq(ss), e, G, n)
  BY <1>3, <1>4, <1>5, Picked
<1>7. PICK h : Keeps(h, FlattenSeq(ss), e, G, n)
  BY <1>6
<1>8. IsSeq(FlattenSeq(ss))
  BY <1>6, SeqSelf
<1>9. \A k \in DOMAIN FlattenSeq(ss) : \E i \in DOMAIN lines \cap G : FlattenSeq(ss)[k] = e[i]
  BY <1>1, <1>7 DEF Keeps
<1>10. \A i \in DOMAIN lines \cap G : \E k \in DOMAIN FlattenSeq(ss) : FlattenSeq(ss)[k] = e[i]
  BY <1>1, <1>7 DEF Keeps
<1>. QED BY <1>0, <1>8, <1>9, <1>10

\* LEMMA: parse gives a rule for each rule line, and no other.
LEMMA ParseIs ==
    ASSUME NEW lines, IsSeq(lines)
    PROVE  /\ IsSeq(Parse(lines))
           /\ \A k \in DOMAIN Parse(lines) :
                 \E i \in DOMAIN lines : lines[i].kind = "rule" /\ Parse(lines)[k] = RuleOf(lines[i].words)
           /\ \A i \in DOMAIN lines : lines[i].kind = "rule" =>
                 \E k \in DOMAIN Parse(lines) : Parse(lines)[k] = RuleOf(lines[i].words)
<1>1. PICK G : G = {i \in DOMAIN lines : lines[i].kind = "rule"}
  OBVIOUS
<1>2. PICK e : e = [i \in DOMAIN lines |-> RuleOf(lines[i].words)]
  OBVIOUS
<1>3. PICK ss : ss = Those(lines, G, e)
  OBVIOUS
<1>4. ss = [i \in DOMAIN lines |-> IF lines[i].kind = "rule" THEN <<RuleOf(lines[i].words)>> ELSE << >>]
  BY <1>1, <1>2, <1>3 DEF Those
<1>5. Parse(lines) = FlattenSeq(ss)
  BY <1>4 DEF Parse
<1>6. /\ IsSeq(FlattenSeq(ss))
      /\ \A k \in DOMAIN FlattenSeq(ss) : \E i \in DOMAIN lines \cap G : FlattenSeq(ss)[k] = e[i]
      /\ \A i \in DOMAIN lines \cap G : \E k \in DOMAIN FlattenSeq(ss) : FlattenSeq(ss)[k] = e[i]
  BY <1>3, PickedLines
<1>. QED BY <1>1, <1>2, <1>5, <1>6

\* LEMMA: the sets a file defines are a sequence.
LEMMA SetsIs ==
    ASSUME NEW lines, IsSeq(lines)
    PROVE  IsSeq(Sets(lines))
<1>1. PICK G : G = {i \in DOMAIN lines : lines[i].kind = "set"}
  OBVIOUS
<1>2. PICK e : e = [i \in DOMAIN lines |-> SetOf(lines[i].words[1], Len(Parse(SubSeq(lines, 1, i - 1))))]
  OBVIOUS
<1>3. PICK ss : ss = Those(lines, G, e)
  OBVIOUS
<1>4. ss = [i \in DOMAIN lines |->
              IF lines[i].kind = "set"
              THEN <<SetOf(lines[i].words[1], Len(Parse(SubSeq(lines, 1, i - 1))))>> ELSE << >>]
  BY <1>1, <1>2, <1>3 DEF Those
<1>5. IsSeq(FlattenSeq(ss))
  BY <1>3, PickedLines
<1>. QED BY <1>4, <1>5 DEF Sets
--------------------------------------------------------------------------------
(* What is written, read back                                              *)

\* LEMMA: a string with no cut is one part.
LEMMA SplitNone ==
    ASSUME NEW s \in Seq(Nat)
    PROVE  Len(SplitAt(s, {})) = 1
<1>. DEFINE end(i) == Smallest({k \in {} : k >= i} \cup {Len(s) + 1})
            IsParts(f) == f = [i \in 1..Len(s) + 1 |->
                                 <<SubSeq(s, i, end(i) - 1)>> \o
                                 IF end(i) > Len(s) THEN << >> ELSE f[end(i) + 1]]
            parts == CHOOSE f : IsParts(f)
<1>1. SplitAt(s, {}) = parts[1]
  BY DEF SplitAt
<1>2. Len(s) \in Nat /\ 1 \in 1..Len(s) + 1
  OBVIOUS
<1>3. ASSUME NEW i PROVE end(i) = Len(s) + 1
  <2>1. {k \in {} : k >= i} \cup {Len(s) + 1} = {Len(s) + 1}
    OBVIOUS
  <2>2. {Len(s) + 1} \subseteq Nat /\ {Len(s) + 1} # {}
    BY <1>2
  <2>3. Smallest({Len(s) + 1}) \in {Len(s) + 1}
    BY <2>2, SmallestIs
  <2>. QED BY <2>1, <2>3
<1>. HIDE DEF end
<1>4. end(1) > Len(s)
  BY <1>2, <1>3
<1>5. \E f : IsParts(f)
  <2>. DEFINE f == [i \in 1..Len(s) + 1 |-> <<SubSeq(s, i, end(i) - 1)>> \o << >>]
  <2>1. \A i \in 1..Len(s) + 1 : end(i) > Len(s)
    BY <1>2, <1>3
  <2>2. IsParts(f)
    BY <2>1
  <2>. QED BY <2>2
<1>6. IsParts(parts)
  <2>. HIDE DEF IsParts
  <2>. QED BY <1>5
<1>. HIDE DEF parts
<1>7. parts[1] = <<SubSeq(s, 1, end(1) - 1)>> \o << >>
  BY <1>2, <1>4, <1>6
<1>8. Len(<<SubSeq(s, 1, end(1) - 1)>> \o << >>) = 1
  OBVIOUS
<1>. QED BY <1>1, <1>7, <1>8

\* LEMMA: the bytes of a value.
LEMMA BytesAre ==
    ASSUME NEW value
    PROVE  BytesOf(value) \in Seq(Nat)
BY SpellingAssumption DEF BytesOf

\* LEMMA: a value without a space is written as one word.
LEMMA WrittenPlain ==
    ASSUME NEW name, NEW value, At(BytesOf(value), {Space}) = {}
    PROVE  Written(name, value) = <<Word(name, value)>>
BY BytesAre, SplitNone DEF Written

\* LEMMA: a value without a comma has one member.
LEMMA MembersPlain ==
    ASSUME NEW value, At(BytesOf(value), {Comma}) = {}
    PROVE  Members(value) = {value}
BY BytesAre, SplitNone DEF Members

\* The attributes of a rule that is written.
Is(field, value) == [how |-> "is", field |-> field, tokens |-> {value}]
Below(dir) == [how |-> "under", field |-> "path", tokens |-> {dir}]

\* LEMMA: a word whose value is no set reference is compared as one value.
LEMMA AttrPlain ==
    ASSUME NEW side, NEW name, name # None, name # "dir", NEW value,
           ~IsPrefix(<<Percent>>, BytesOf(value))
    PROVE  AttrOf(side, Word(name, value)) = Is(FieldOn(side, name), value)
BY DEF AttrOf, Word, Is

\* LEMMA: a directory without a comma is compared as one prefix.
LEMMA AttrDir ==
    ASSUME NEW value, At(BytesOf(value), {Comma}) = {}
    PROVE  AttrOf("object", Word("dir", value)) = Below(value)
BY MembersPlain, WordAssumption DEF AttrOf, Word, Below
\* LEMMA: the five words of a rule: its decision, and the two sides.
LEMMA RuleOfFive ==
    ASSUME NEW w, NEW x, NEW y, w # Bare(":"), x # Bare(":"), y # Bare(":")
    PROVE  RuleOf(<<Bare("allow"), w, x, Bare(":"), y>>).attrs =
             Attrs("subject", <<w, x>>) \cup Attrs("object", <<y>>)
<1>. DEFINE words == <<Bare("allow"), w, x, Bare(":"), y>>
            colons == {k \in DOMAIN words : words[k] = Bare(":")}
<1>1. Bare("allow") # Bare(":")
  BY DEF Bare, Word
<1>2. DOMAIN words = 1..5 /\ Len(words) = 5
  OBVIOUS
<1>3. /\ words[1] = Bare("allow") /\ words[2] = w /\ words[3] = x
      /\ words[4] = Bare(":") /\ words[5] = y
  OBVIOUS
<1>4. colons = {4}
  <2>1. \A k \in 1..5 : k = 1 \/ k = 2 \/ k = 3 \/ k = 4 \/ k = 5
    OBVIOUS
  <2>. HIDE DEF words
  <2>. QED BY <1>1, <1>2, <1>3, <2>1
<1>5. Smallest({4}) = 4
  <2>1. {4} \subseteq Nat /\ {4} # {}
    OBVIOUS
  <2>2. Smallest({4}) \in {4}
    BY <2>1, SmallestIs
  <2>. QED BY <2>2
<1>. DEFINE S == {Bare("allow"), w, x, Bare(":"), y}
<1>9. words \in Seq(S)
  OBVIOUS
<1>. HIDE DEF words, S
<1>6. SubSeq(words, 2, 4 - 1) = <<w, x>>
  BY <1>2, <1>3, <1>9, MiddleOfFive
<1>7. SubSeq(words, 4 + 1, 5) = <<y>>
  BY <1>2, <1>3, <1>9, LastOfFive
<1>8. RuleOf(words).attrs = Attrs("subject", SubSeq(words, 2, 4 - 1)) \cup
                            Attrs("object", SubSeq(words, 4 + 1, 5))
  BY <1>2, <1>4, <1>5 DEF RuleOf
<1>. QED BY <1>6, <1>7, <1>8 DEF words

\* What a rule can be written for: a perm, and values that hold no space and
\* no reference to a set; a directory is one value.
IsValue(v) ==
    /\ v \in DOMAIN Spelling /\ At(BytesOf(v), {Space}) = {} /\ ~IsPrefix(<<Percent>>, BytesOf(v))
Writable(s) ==
    /\ s.kind \in {"rule", "dir"} /\ s.perm \in {"open", "execute"}
    /\ s.exe = None \/ IsValue(s.exe)
    /\ IsValue(s.path) /\ (s.kind = "dir" => At(BytesOf(s.path), {Comma}) = {})

\* LEMMA: a rule that is written reads back as what it was written for.
LEMMA RenderIs ==
    ASSUME NEW s, Writable(s)
    PROVE  RuleOf(Render(s).words).attrs =
             {Is("perm", s.perm)}
               \cup (IF s.exe = None THEN {} ELSE {Is("exe", s.exe)})
               \cup {IF s.kind = "dir" THEN Below(s.path) ELSE Is("path", s.path)}
<1>. DEFINE w == Word("perm", s.perm)
            x == IF s.exe = None THEN Bare("all") ELSE Word("exe", s.exe)
            y == Word(IF s.kind = "dir" THEN "dir" ELSE "path", s.path)
<1>1. Render(s).words = <<Bare("allow"), w, x, Bare(":"), y>>
  <2>1. (IF s.exe = None THEN <<Bare("all")>> ELSE Written("exe", s.exe)) = <<x>>
    BY WrittenPlain DEF Writable, IsValue
  <2>2. Written(IF s.kind = "dir" THEN "dir" ELSE "path", s.path) = <<y>>
    BY WrittenPlain DEF Writable, IsValue
  <2>. HIDE DEF w, x, y
  <2>3. Render(s).words = <<Bare("allow"), w>> \o <<x>> \o <<Bare(":")>> \o <<y>>
    BY <2>1, <2>2 DEF Render, w
  <2>4. <<Bare("allow"), w>> \o <<x>> \o <<Bare(":")>> \o <<y>> = <<Bare("allow"), w, x, Bare(":"), y>>
    BY FiveInTurn
  <2>. QED BY <2>3, <2>4
<1>2. w # Bare(":") /\ x # Bare(":") /\ y # Bare(":")
  BY WordAssumption DEF Word, Bare
<1>3. w # Bare("all") /\ y # Bare("all") /\ (s.exe # None => x # Bare("all"))
  BY WordAssumption DEF Word, Bare
<1>4. AttrOf("subject", w) = Is("perm", s.perm)
  <2>1. BytesOf(s.perm) = << >>
    BY WordAssumption DEF Writable, BytesOf
  <2>2. ~IsPrefix(<<Percent>>, BytesOf(s.perm))
    BY <2>1 DEF IsPrefix
  <2>3. FieldOn("subject", "perm") = "perm"
    BY DEF FieldOn, ObjectOnly
  <2>. QED BY <2>2, <2>3, AttrPlain, WordAssumption
<1>5. ASSUME s.exe # None PROVE AttrOf("subject", x) = Is("exe", s.exe)
  <2>1. FieldOn("subject", "exe") = "exe"
    BY DEF FieldOn, ObjectOnly
  <2>. QED BY <1>5, <2>1, AttrPlain, WordAssumption DEF Writable, IsValue
<1>6. AttrOf("object", y) = IF s.kind = "dir" THEN Below(s.path) ELSE Is("path", s.path)
  <2>1. FieldOn("object", "path") = "path"
    BY DEF FieldOn, SubjectOnly
  <2>. QED BY <2>1, AttrPlain, AttrDir, WordAssumption DEF Writable, IsValue
<1>. HIDE DEF w, x, y
<1>7. ToSet(<<w, x>>) = {w, x} /\ ToSet(<<y>>) = {y}
  BY DEF ToSet
<1>8. Attrs("object", <<y>>) = {AttrOf("object", y)}
  BY <1>3, <1>7 DEF Attrs
<1>9. Attrs("subject", <<w, x>>) =
        {Is("perm", s.perm)} \cup (IF s.exe = None THEN {} ELSE {Is("exe", s.exe)})
  <2>1. CASE s.exe = None
    BY <1>3, <1>4, <1>7, <2>1 DEF Attrs, x
  <2>2. CASE s.exe # None
    BY <1>3, <1>4, <1>5, <1>7, <2>2 DEF Attrs
  <2>. QED BY <2>1, <2>2
<1>. QED BY <1>1, <1>2, <1>6, <1>8, <1>9, RuleOfFive

\* LEMMA: the daemon compares a value that is no set name as it stands.
LEMMA HoldsIs ==
    ASSUME NEW value, value \notin SetNames, NEW ev, NEW defs
    PROVE  /\ Holds(Is("perm", value), ev, defs) <=>
                 ev.perm = None \/ ev.perm = value \/ value = "any"
           /\ Holds(Is("exe", value), ev, defs) <=> ev.exe = None \/ ev.exe = value
           /\ Holds(Is("path", value), ev, defs) <=> ev.path = None \/ ev.path = value
           /\ Holds(Below(value), ev, defs) <=>
                 \/ ev.path = None
                 \/ ev.path \in Under[value] /\ (ev.path \in Escaped => ev.spelt)
<1>1. UNION {Expand(t, defs) : t \in {value}} = {value}
  BY DEF Expand
<1>2. ASSUME NEW field
      PROVE  Holds(Is(field, value), ev, defs) <=>
                \/ ev[field] = None \/ ev[field] = value
                \/ field = "perm" /\ value = "any"
  <2>. DEFINE a == Is(field, value)
  <2>1. a.how = "is" /\ a.field = field /\ a.tokens = {value}
    BY DEF Is
  <2>. HIDE DEF a
  <2>2. UNION {Expand(t, defs) : t \in a.tokens} = {value}
    BY <1>1, <2>1
  <2>. QED BY <2>1, <2>2 DEF Holds, a
<1>3. Holds(Below(value), ev, defs) <=>
         \/ ev.path = None
         \/ ev.path \in Under[value] /\ (ev.path \in Escaped => ev.spelt)
  <2>. DEFINE a == Below(value)
  <2>1. a.how = "under" /\ a.field = "path" /\ a.tokens = {value}
    BY DEF Below
  <2>. HIDE DEF a
  <2>2. UNION {Expand(t, defs) : t \in a.tokens} = {value}
    BY <1>1, <2>1
  <2>. QED BY <2>1, <2>2 DEF Holds, a
<1>4. Holds(Is("exe", value), ev, defs) <=> ev.exe = None \/ ev.exe = value
  <2>1. "exe" # "perm"
    OBVIOUS
  <2>. QED BY <1>2, <2>1
<1>5. Holds(Is("path", value), ev, defs) <=> ev.path = None \/ ev.path = value
  <2>1. "path" # "perm"
    OBVIOUS
  <2>. QED BY <1>2, <2>1
<1>. QED BY <1>2, <1>3, <1>4, <1>5

\* THEOREM: a suggestion that is written fires, once the daemon has read it,
\* on the accesses it was made for: its perm, its program where it names one,
\* and its path, or a path below its directory; whatever sets are defined.
THEOREM WrittenFires ==
    ASSUME NEW s, Writable(s), NEW ev \in Accesses, NEW defs
    PROVE  Fires(RuleOf(Render(s).words), ev, defs) <=>
             /\ ev.perm = s.perm /\ (s.exe = None \/ ev.exe = s.exe)
             /\ IF s.kind = "dir"
                THEN ev.path \in Under[s.path] /\ (ev.path \in Escaped => ev.spelt)
                ELSE ev.path = s.path
<1>1. s.perm \notin SetNames /\ s.path \notin SetNames /\ (s.exe # None => s.exe \notin SetNames)
  BY WordAssumption DEF Writable, IsValue
<1>2. ev.perm # None /\ ev.exe # None /\ ev.path # None
  BY AccessAssumption
<1>3. Holds(Is("perm", s.perm), ev, defs) <=> ev.perm = s.perm
  BY <1>1, <1>2, HoldsIs DEF Writable
<1>4. s.exe # None => (Holds(Is("exe", s.exe), ev, defs) <=> ev.exe = s.exe)
  BY <1>1, <1>2, HoldsIs
<1>5. Holds(Is("path", s.path), ev, defs) <=> ev.path = s.path
  BY <1>1, <1>2, HoldsIs
<1>6. Holds(Below(s.path), ev, defs) <=>
         ev.path \in Under[s.path] /\ (ev.path \in Escaped => ev.spelt)
  BY <1>1, <1>2, HoldsIs
<1>7. Fires(RuleOf(Render(s).words), ev, defs) <=>
         /\ Holds(Is("perm", s.perm), ev, defs)
         /\ s.exe = None \/ Holds(Is("exe", s.exe), ev, defs)
         /\ Holds(IF s.kind = "dir" THEN Below(s.path) ELSE Is("path", s.path), ev, defs)
  BY RenderIs DEF Fires
<1>. QED BY <1>3, <1>4, <1>5, <1>6, <1>7
--------------------------------------------------------------------------------
(* The files behind the rules                                              *)

IsFiles(files) == IsSeq(files) /\ \A i \in DOMAIN files : IsSeq(files[i].rules)

\* LEMMA: the merged order holds the rules of the files one after the other.
LEMMA MergedIs ==
    ASSUME NEW files, IsFiles(files)
    PROVE  /\ IsSeq(Flat(files))
           /\ \A i \in DOMAIN files :
                 /\ Ahead(files, i) \in Nat
                 /\ Ahead(files, i + 1) = Ahead(files, i) + Len(files[i].rules)
           /\ \A i \in DOMAIN files : \A k \in DOMAIN files[i].rules :
                 /\ Ahead(files, i) + k \in DOMAIN Flat(files)
                 /\ Flat(files)[Ahead(files, i) + k] = files[i].rules[k]
           /\ \A n \in DOMAIN Flat(files) : \E i \in DOMAIN files :
                 n \in Ahead(files, i) + 1 .. Ahead(files, i + 1)
<1>1. PICK n \in Nat : n = Len(files) /\ DOMAIN files = 1..n
  BY SeqAt DEF IsFiles
<1>2. PICK S : S = UNION {ToSet(files[i].rules) : i \in 1..n}
  OBVIOUS
<1>3. PICK ss : ss = [i \in DOMAIN files |-> files[i].rules]
  OBVIOUS
<1>4. ss \in Seq(Seq(S)) /\ Len(ss) = n /\ DOMAIN ss = 1..n
  <2>1. ASSUME NEW i \in 1..n PROVE files[i].rules \in Seq(S)
    <3>1. IsSeq(files[i].rules) /\ ToSet(files[i].rules) \subseteq S
      BY <1>1, <1>2 DEF IsFiles
    <3>. QED BY <3>1, SeqWider
  <2>. QED BY <1>1, <1>3, <2>1
<1>5. Flat(files) = FlattenSeq(ss)
  BY <1>3 DEF Flat
<1>6. ASSUME NEW m \in 0..n
      PROVE  Flat(SubSeq(files, 1, m)) = FlattenSeq(SubSeq(ss, 1, m))
  <2>1. PICK T : files \in Seq(T)
    BY DEF IsFiles, IsSeq
  <2>2. PICK fs : fs = SubSeq(files, 1, m)
    OBVIOUS
  <2>3. DOMAIN fs = 1..m /\ \A j \in 1..m : fs[j] = files[j]
    BY <1>1, <2>1, <2>2
  <2>4. SubSeq(ss, 1, m) = [j \in 1..m |-> ss[j]]
    BY <1>4
  <2>5. \A j \in 1..m : j \in DOMAIN files
    BY <1>1
  <2>6. [j \in DOMAIN fs |-> fs[j].rules] = [j \in 1..m |-> ss[j]]
    BY <1>3, <2>3, <2>5
  <2>. QED BY <2>2, <2>4, <2>6 DEF Flat
<1>7. ASSUME NEW i \in 1..n
      PROVE  /\ Ahead(files, i) = Len(FlattenSeq(SubSeq(ss, 1, i - 1)))
             /\ Ahead(files, i + 1) = Len(FlattenSeq(SubSeq(ss, 1, i)))
  <2>1. i \in 0..n /\ i - 1 \in 0..n /\ (i + 1) - 1 = i
    BY <1>1
  <2>. QED BY <1>6, <2>1 DEF Ahead
<1>8. /\ \A m \in 0..n : FlattenSeq(SubSeq(ss, 1, m)) \in Seq(S)
      /\ \A m \in 1..n : FlattenSeq(SubSeq(ss, 1, m)) = FlattenSeq(SubSeq(ss, 1, m - 1)) \o ss[m]
      /\ FlattenSeq(SubSeq(ss, 1, n)) = FlattenSeq(ss)
  BY <1>4, FlattenPrefix
<1>9. FlattenSeq(ss) \in Seq(S)
  <2>1. n \in 0..n
    BY <1>1
  <2>. QED BY <1>8, <2>1
<1>10. ASSUME NEW i \in 1..n
       PROVE  /\ Ahead(files, i) \in Nat
              /\ Ahead(files, i + 1) = Ahead(files, i) + Len(files[i].rules)
  <2>1. i \in 0..n /\ i - 1 \in 0..n
    BY <1>1
  <2>2. PICK s \in Seq(S) : s = FlattenSeq(SubSeq(ss, 1, i - 1))
    BY <1>8, <2>1
  <2>3. PICK r \in Seq(S) : r = ss[i] /\ r = files[i].rules
    BY <1>1, <1>3, <1>4
  <2>4. FlattenSeq(SubSeq(ss, 1, i)) = s \o r
    BY <1>8, <2>2, <2>3
  <2>5. Len(s \o r) = Len(s) + Len(r) /\ Len(s) \in Nat
    OBVIOUS
  <2>. QED BY <1>7, <2>2, <2>3, <2>4, <2>5
<1>11. ASSUME NEW i \in 1..n, NEW k \in DOMAIN files[i].rules
       PROVE  /\ Ahead(files, i) + k \in DOMAIN Flat(files)
              /\ Flat(files)[Ahead(files, i) + k] = files[i].rules[k]
  <2>1. i \in DOMAIN ss /\ ss[i] = files[i].rules
    BY <1>1, <1>3, <1>4
  <2>2. ss \in Seq(Seq(S)) /\ i \in DOMAIN ss /\ k \in DOMAIN ss[i]
    BY <1>4, <2>1
  <2>3. LET a == Len(FlattenSeq(SubSeq(ss, 1, i - 1)))
        IN  a + k \in DOMAIN FlattenSeq(ss) /\ FlattenSeq(ss)[a + k] = ss[i][k]
    BY <2>2, FlattenAt
  <2>. QED BY <1>5, <1>7, <2>1, <2>3
<1>12. ASSUME NEW at \in DOMAIN Flat(files)
       PROVE  \E i \in DOMAIN files : at \in Ahead(files, i) + 1 .. Ahead(files, i + 1)
  <2>1. PICK i \in DOMAIN ss : at \in Len(FlattenSeq(SubSeq(ss, 1, i - 1))) + 1
                                         .. Len(FlattenSeq(SubSeq(ss, 1, i)))
    BY <1>4, <1>5, FlattenFrom
  <2>2. i \in 1..n
    BY <1>4
  <2>. QED BY <1>1, <1>7, <2>1, <2>2
<1>13. IsSeq(Flat(files))
  BY <1>5, <1>9, SeqSelf
<1>. QED BY <1>1, <1>10, <1>11, <1>12, <1>13

\* LEMMA: a rule whose number falls in a file is a rule of that file.
LEMMA RuleInFile ==
    ASSUME NEW files, IsFiles(files), NEW i \in DOMAIN files,
           NEW n \in Ahead(files, i) + 1 .. Ahead(files, i + 1)
    PROVE  Flat(files)[n] \in ToSet(files[i].rules) /\ n \in DOMAIN Flat(files)
<1>1. PICK a \in Nat : a = Ahead(files, i) /\ Ahead(files, i + 1) = a + Len(files[i].rules)
  BY MergedIs
<1>2. /\ Len(files[i].rules) \in Nat /\ DOMAIN files[i].rules = 1..Len(files[i].rules)
      /\ \A k \in DOMAIN files[i].rules : files[i].rules[k] \in ToSet(files[i].rules)
  BY SeqAt DEF IsFiles
<1>3. n \in Nat /\ n >= a + 1 /\ n <= a + Len(files[i].rules)
  BY <1>1, <1>2
<1>4. PICK k : k = n - a
  OBVIOUS
<1>5. k \in 1..Len(files[i].rules) /\ a + k = n
  BY <1>1, <1>2, <1>3, <1>4
<1>6. n \in DOMAIN Flat(files) /\ Flat(files)[n] = files[i].rules[k]
  BY <1>1, <1>2, <1>5, MergedIs
<1>. QED BY <1>2, <1>5, <1>6

\* LEMMA: the first match fires, and nothing ahead of it does.
LEMMA FirstMatchIs ==
    ASSUME NEW files, IsFiles(files), NEW ev
    PROVE  /\ FirstMatch(files, ev) # 0 =>
                 /\ FirstMatch(files, ev) \in DOMAIN Flat(files)
                 /\ Fires(Flat(files)[FirstMatch(files, ev)], ev, Defined(files))
           /\ \A at \in DOMAIN Flat(files) :
                 Fires(Flat(files)[at], ev, Defined(files)) =>
                    FirstMatch(files, ev) # 0 /\ FirstMatch(files, ev) <= at
<1>1. PICK firing : firing = {at \in DOMAIN Flat(files) : Fires(Flat(files)[at], ev, Defined(files))}
  OBVIOUS
<1>2. FirstMatch(files, ev) = IF firing = {} THEN 0 ELSE Smallest(firing)
  BY <1>1 DEF FirstMatch
<1>3. /\ Len(Flat(files)) \in Nat /\ DOMAIN Flat(files) = 1..Len(Flat(files))
  BY MergedIs, SeqAt
<1>4. firing \subseteq Nat /\ 0 \notin firing
  BY <1>1, <1>3
<1>5. firing # {} => Smallest(firing) \in firing /\ \A m \in firing : Smallest(firing) <= m
  BY <1>4, SmallestIs
<1>. QED BY <1>1, <1>2, <1>4, <1>5

\* LEMMA: where FileAt finds a rule.
LEMMA FileAtIs ==
    ASSUME IsFiles(loaded), NEW n \in DOMAIN Flat(loaded)
    PROVE  \E i \in DOMAIN loaded :
              /\ n \in Ahead(loaded, i) + 1 .. Ahead(loaded, i + 1)
              /\ FileAt(n) = loaded[i].name
<1>1. \E i \in DOMAIN loaded : n \in Ahead(loaded, i) + 1 .. Ahead(loaded, i + 1)
  BY MergedIs
<1>2. PICK i : i = CHOOSE j \in DOMAIN loaded : n \in Ahead(loaded, j) + 1 .. Ahead(loaded, j + 1)
  OBVIOUS
<1>3. i \in DOMAIN loaded /\ n \in Ahead(loaded, i) + 1 .. Ahead(loaded, i + 1)
  BY <1>1, <1>2
<1>. QED BY <1>2, <1>3 DEF FileAt
--------------------------------------------------------------------------------
(* What a fragment is made of                                              *)

\* LEMMA: the rules accepted are the suggestions of the credited denials, each
\* once.
LEMMA AcceptedIs ==
    ASSUME NEW read, IsSeq(read)
    PROVE  /\ IsSeq(Accepted(read))
           /\ \E h : \A k \in DOMAIN Accepted(read) :
                 /\ h[k] \in Credited(read) /\ Accepted(read)[k] = Suggestion(read[h[k]])
                 /\ \A j \in DOMAIN Accepted(read) : Accepted(read)[j] = Accepted(read)[k] => j = k
           /\ \A i \in Credited(read) : \E k \in DOMAIN Accepted(read) :
                 Accepted(read)[k] = Suggestion(read[i])
<1>1. PICK n \in Nat : n = Len(read) /\ DOMAIN read = 1..n
  BY SeqAt
<1>2. PICK G : G = Credited(read)
  OBVIOUS
<1>3. PICK e : e = [i \in DOMAIN read |-> Suggestion(read[i])]
  OBVIOUS
<1>4. PICK S : S = {e[i] : i \in 1..n}
  OBVIOUS
<1>5. PICK ss : ss = [i \in DOMAIN read |-> IF i \in G THEN <<Suggestion(read[i])>> ELSE << >>]
  OBVIOUS
<1>6. \A i \in 1..n : ss[i] = IF i \in G THEN <<e[i]>> ELSE << >>
  BY <1>1, <1>3, <1>5
<1>7. \A i \in 1..n : i \in G => e[i] \in S
  BY <1>4
<1>8. ss \in Seq(Seq(S)) /\ Len(ss) = n
  <2>1. ASSUME NEW i \in 1..n PROVE ss[i] \in Seq(S)
    <3>1. i \in G => e[i] \in S /\ ss[i] = <<e[i]>>
      BY <1>6, <1>7
    <3>2. i \notin G => ss[i] = << >>
      BY <1>6
    <3>. QED BY <3>1, <3>2, AtMostOne
  <2>. QED BY <1>1, <1>5, <2>1
<1>9. FlattenSeq(ss) \in Seq(S) /\ \E h : Keeps(h, FlattenSeq(ss), e, G, n)
  BY <1>6, <1>7, <1>8, Picked
<1>10. PICK t : t = FlattenSeq(ss) /\ t = Accepted(read)
  BY <1>2, <1>5 DEF Accepted
<1>11. PICK h : Keeps(h, t, e, G, n)
  BY <1>9, <1>10
<1>12. t \in Seq(S) /\ DOMAIN t \subseteq Nat
  BY <1>9, <1>10
<1>13. ASSUME NEW j \in DOMAIN t, NEW k \in DOMAIN t, j < k PROVE t[j] # t[k]
  <2>1. h[j] \in 1..n /\ h[k] \in 1..n /\ h[j] < h[k] /\ h[k] \in G
    BY <1>11, <1>13 DEF Keeps
  <2>2. h[j] \in 1..h[k] - 1
    BY <1>1, <2>1
  <2>3. Suggestion(read[h[j]]) # Suggestion(read[h[k]])
    BY <1>2, <2>1, <2>2 DEF Credited
  <2>. QED BY <1>1, <1>3, <1>11, <2>1, <2>3 DEF Keeps
<1>14. ASSUME NEW j \in DOMAIN t, NEW k \in DOMAIN t, t[j] = t[k] PROVE j = k
  <2>1. j \in Nat /\ k \in Nat /\ ~(j < k) /\ ~(k < j)
    BY <1>12, <1>13, <1>14
  <2>. QED BY <2>1
<1>15. ASSUME NEW k \in DOMAIN t
       PROVE  h[k] \in Credited(read) /\ t[k] = Suggestion(read[h[k]])
  BY <1>1, <1>2, <1>3, <1>11 DEF Keeps
<1>16. ASSUME NEW i \in Credited(read) PROVE \E k \in DOMAIN t : t[k] = Suggestion(read[i])
  <2>1. i \in 1..n /\ i \in G
    BY <1>1, <1>2 DEF Credited
  <2>2. PICK k \in DOMAIN t : h[k] = i
    BY <1>11, <2>1 DEF Keeps
  <2>. QED BY <1>15, <2>2
<1>17. IsSeq(t)
  BY <1>12, SeqSelf
<1>. QED BY <1>10, <1>14, <1>15, <1>16, <1>17

\* The rules that are grouped with the i-th.
Group(acc, i, system) ==
    {j \in DOMAIN acc : GroupKey(acc[j], system) = GroupKey(acc[i], system)}

\* LEMMA: grouping leaves a rule as it is, or puts a directory in the place of
\* at least min of them; and no rule is lost.
LEMMA GroupDirsIs ==
    ASSUME NEW acc, IsSeq(acc), NEW min, NEW system
    PROVE  /\ IsSeq(GroupDirs(acc, min, system))
           /\ \A k \in DOMAIN GroupDirs(acc, min, system) : \E i \in DOMAIN acc :
                 \/ GroupDirs(acc, min, system)[k] = acc[i]
                 \/ /\ GroupKey(acc[i], system) # None
                    /\ Cardinality(Group(acc, i, system)) >= min
                    /\ \E paths : GroupDirs(acc, min, system)[k] =
                          DirRule(acc[i].perm, acc[i].exe, DirOf(acc[i].path, system), paths)
           /\ \A i \in DOMAIN acc : \E k \in DOMAIN GroupDirs(acc, min, system) :
                 \/ GroupDirs(acc, min, system)[k] = acc[i]
                 \/ /\ GroupKey(acc[i], system) # None
                    /\ \E paths : GroupDirs(acc, min, system)[k] =
                          DirRule(acc[i].perm, acc[i].exe, DirOf(acc[i].path, system), paths)
<1>1. PICK n \in Nat : n = Len(acc) /\ DOMAIN acc = 1..n
  BY SeqAt
<1>. DEFINE key(i) == GroupKey(acc[i], system)
            group(i) == {j \in DOMAIN acc : key(j) = key(i)}
            grouped(i) == key(i) # None /\ Cardinality(group(i)) >= min
            paths(i) == {acc[j].path : j \in group(i)}
            dir(i) == DirRule(acc[i].perm, acc[i].exe, DirOf(acc[i].path, system), paths(i))
            written(i) == IF ~grouped(i) THEN <<acc[i]>>
                          ELSE IF i # Smallest(group(i)) THEN << >> ELSE <<dir(i)>>
<1>2. PICK ss : ss = [i \in DOMAIN acc |-> written(i)]
  OBVIOUS
<1>3. GroupDirs(acc, min, system) = FlattenSeq(ss)
  BY <1>2 DEF GroupDirs
<1>4. \A i \in DOMAIN acc : ss[i] = written(i)
  BY <1>2
<1>5. \A i : grouped(i) => GroupKey(acc[i], system) # None /\ Cardinality(Group(acc, i, system)) >= min
  BY DEF Group
<1>6. \A i : \E ps : dir(i) = DirRule(acc[i].perm, acc[i].exe, DirOf(acc[i].path, system), ps)
  OBVIOUS
<1>14. ASSUME NEW i \in DOMAIN acc, grouped(i)
       PROVE  LET m == Smallest(group(i))
              IN  /\ m \in DOMAIN acc /\ written(m) = <<dir(m)>>
                  /\ acc[m].perm = acc[i].perm /\ acc[m].exe = acc[i].exe
                  /\ DirOf(acc[m].path, system) = DirOf(acc[i].path, system)
  <2>1. group(i) \subseteq Nat /\ i \in group(i)
    BY <1>1
  <2>2. PICK m \in group(i) : m = Smallest(group(i))
    BY <2>1, SmallestIs
  <2>3. m \in DOMAIN acc /\ key(m) = key(i) /\ key(m) # None
    BY <1>14, <2>2
  <2>4. group(m) = group(i)
    BY <2>3
  <2>5. grouped(m) /\ m = Smallest(group(m))
    BY <1>14, <2>2, <2>3, <2>4
  <2>6. written(m) = <<dir(m)>>
    <3>. HIDE DEF dir, grouped, group, key
    <3>. QED BY <2>5
  <2>7. /\ acc[m].perm = acc[i].perm /\ acc[m].exe = acc[i].exe
        /\ DirOf(acc[m].path, system) = DirOf(acc[i].path, system)
    BY <2>3 DEF GroupKey
  <2>. HIDE DEF dir, written, group, key
  <2>. QED BY <2>2, <2>3, <2>6, <2>7
<1>. HIDE DEF dir, grouped, group, key
<1>7. PICK S : S = {acc[i] : i \in 1..n} \cup {dir(i) : i \in 1..n}
  OBVIOUS
<1>8. ss \in Seq(Seq(S))
  <2>1. ASSUME NEW i \in 1..n PROVE ss[i] \in Seq(S)
    <3>1. acc[i] \in S /\ dir(i) \in S
      BY <1>7
    <3>2. ss[i] = <<acc[i]>> \/ ss[i] = << >> \/ ss[i] = <<dir(i)>>
      BY <1>1, <1>4
    <3>. QED BY <3>1, <3>2, AtMostOne
  <2>. QED BY <1>1, <1>2, <2>1
<1>9. FlattenSeq(ss) \in Seq(S) /\ \E g, f : Sources(g, f, ss)
  BY <1>8, FlattenSources
<1>10. PICK t : t = FlattenSeq(ss) /\ t = GroupDirs(acc, min, system)
  BY <1>3
<1>11. PICK g, f :
          /\ \A k \in DOMAIN t : g[k] \in DOMAIN ss /\ f[k] \in DOMAIN ss[g[k]] /\ t[k] = ss[g[k]][f[k]]
          /\ \A m \in DOMAIN ss : \A x \in DOMAIN ss[m] : \E k \in DOMAIN t : g[k] = m /\ f[k] = x
  BY <1>9, <1>10 DEF Sources
<1>12. ASSUME NEW k \in DOMAIN t
       PROVE  \E i \in DOMAIN acc : t[k] = acc[i] \/ (grouped(i) /\ t[k] = dir(i))
  <2>1. PICK i : i = g[k]
    OBVIOUS
  <2>2. i \in DOMAIN acc /\ f[k] \in DOMAIN ss[i] /\ t[k] = ss[i][f[k]]
    BY <1>2, <1>11, <2>1
  <2>3. ss[i] = written(i)
    BY <1>4, <2>2
  <2>4. CASE ~grouped(i)
    <3>1. ss[i] = <<acc[i]>>
      BY <2>3, <2>4
    <3>2. f[k] = 1
      BY <2>2, <3>1
    <3>. QED BY <2>2, <3>1, <3>2
  <2>5. CASE grouped(i)
    <3>1. ss[i] = << >> \/ ss[i] = <<dir(i)>>
      BY <2>3, <2>5
    <3>2. ss[i] # << >>
      BY <2>2
    <3>3. ss[i] = <<dir(i)>> /\ f[k] = 1
      BY <2>2, <3>1, <3>2
    <3>. QED BY <2>2, <2>5, <3>3
  <2>. QED BY <2>4, <2>5
<1>13. IsSeq(t)
  BY <1>9, <1>10, SeqSelf
<1>15. ASSUME NEW m \in DOMAIN acc, NEW x, ss[m] = <<x>> PROVE \E k \in DOMAIN t : t[k] = x
  <2>1. m \in DOMAIN ss /\ 1 \in DOMAIN ss[m] /\ ss[m][1] = x
    BY <1>2, <1>15
  <2>2. PICK k \in DOMAIN t : g[k] = m /\ f[k] = 1
    BY <1>11, <2>1
  <2>. QED BY <1>11, <2>1, <2>2
<1>16. ASSUME NEW i \in DOMAIN acc
       PROVE  \E k \in DOMAIN t :
                 \/ t[k] = acc[i]
                 \/ /\ GroupKey(acc[i], system) # None
                    /\ \E ps : t[k] = DirRule(acc[i].perm, acc[i].exe, DirOf(acc[i].path, system), ps)
  <2>1. CASE ~grouped(i)
    <3>1. ss[i] = <<acc[i]>>
      BY <1>4, <2>1
    <3>. QED BY <1>15, <3>1
  <2>2. CASE grouped(i)
    <3>1. PICK m : m = Smallest(group(i))
      OBVIOUS
    <3>2. /\ m \in DOMAIN acc /\ written(m) = <<dir(m)>>
          /\ acc[m].perm = acc[i].perm /\ acc[m].exe = acc[i].exe
          /\ DirOf(acc[m].path, system) = DirOf(acc[i].path, system)
      BY <1>14, <2>2, <3>1
    <3>3. ss[m] = <<dir(m)>>
      BY <1>4, <3>2
    <3>4. PICK k \in DOMAIN t : t[k] = dir(m)
      BY <1>15, <3>2, <3>3
    <3>5. \E ps : dir(m) = DirRule(acc[i].perm, acc[i].exe, DirOf(acc[i].path, system), ps)
      BY <1>6, <3>2
    <3>6. GroupKey(acc[i], system) # None
      BY <1>5, <2>2
    <3>. QED BY <3>4, <3>5, <3>6
  <2>. QED BY <2>1, <2>2
<1>. QED BY <1>5, <1>6, <1>10, <1>12, <1>13, <1>16
--------------------------------------------------------------------------------
(* Paths and their directories                                             *)

IsPath(v) == v \in DOMAIN Spelling /\ IsPrefix(<<Slash>>, Spelling[v])

\* LEMMA: the first byte of a sequence.
LEMMA FirstByte ==
    ASSUME NEW s \in Seq(Nat), NEW x \in Nat, IsPrefix(<<x>>, s)
    PROVE  Len(s) \in Nat /\ Len(s) >= 1 /\ s[1] = x
<1>1. PICK t \in Seq(Nat) : t = <<x>> /\ Len(t) = 1 /\ t[1] = x
  <2>1. <<x>> \in Seq(Nat) /\ Len(<<x>>) = 1 /\ <<x>>[1] = x
    OBVIOUS
  <2>. QED BY <2>1
<1>2. Len(t) <= Len(s) /\ SubSeq(t, 1, Len(t)) = SubSeq(s, 1, Len(t))
  BY <1>1 DEF IsPrefix
<1>3. Len(s) \in Nat /\ Len(s) >= 1 /\ SubSeq(t, 1, 1) = SubSeq(s, 1, 1)
  BY <1>1, <1>2
<1>4. SubSeq(t, 1, 1)[1] = t[1] /\ SubSeq(s, 1, 1)[1] = s[1]
  BY <1>1, <1>3
<1>. QED BY <1>1, <1>3, <1>4

\* LEMMA: an absolute name is no reference to a set.
LEMMA FirstSlash ==
    ASSUME NEW s \in Seq(Nat), IsPrefix(<<Slash>>, s)
    PROVE  Len(s) \in Nat /\ Len(s) >= 1 /\ s[1] = Slash /\ ~IsPrefix(<<Percent>>, s)
<1>1. Slash \in Nat /\ Percent \in Nat /\ Slash # Percent
  BY DEF Slash, Percent
<1>. QED BY <1>1, FirstByte

\* LEMMA: an absolute name without a space is a value a rule can hold.
LEMMA PathIsValue ==
    ASSUME NEW v, IsPath(v), v \notin Split
    PROVE  IsValue(v)
<1>1. Spelling[v] \in Seq(Nat) /\ BytesOf(v) = Spelling[v]
  BY SpellingAssumption DEF IsPath, BytesOf
<1>2. At(Spelling[v], {Space}) = {}
  BY SplitAssumption DEF IsPath
<1>3. ~IsPrefix(<<Percent>>, Spelling[v])
  BY <1>1, FirstSlash DEF IsPath
<1>. QED BY <1>1, <1>2, <1>3 DEF IsValue, IsPath

\* LEMMA: the directory a path may be grouped under.
LEMMA ParentIs ==
    ASSUME NEW path, IsPath(path), NEW system, DirOf(path, system) # None
    PROVE  /\ Parent(path) \in Seq(Nat) /\ Len(Parent(path)) > 1
           /\ Len(Parent(path)) <= Len(Spelling[path])
           /\ Parent(path) = SubSeq(Spelling[path], 1, Len(Parent(path)))
           /\ Parent(path)[1] = Slash /\ Parent(path)[Len(Parent(path))] = Slash
           /\ DirOf(path, system) = Spelt(Parent(path))
           /\ ~system => ~IsShared(Parent(path))
           /\ At(Spelling[path], {Space}) = {} => At(Parent(path), {Space}) = {}
<1>1. PICK b \in Seq(Nat) : b = Spelling[path] /\ BytesOf(path) = b
  BY SpellingAssumption DEF IsPath, BytesOf
<1>2. PICK n \in Nat : n = Len(b) /\ DOMAIN b = 1..n /\ n >= 1 /\ b[1] = Slash
  BY <1>1, FirstSlash DEF IsPath
<1>3. PICK cuts : cuts = At(b, {Slash})
  OBVIOUS
<1>4. cuts = {k \in 1..n : b[k] = Slash} /\ 1 \in cuts
  BY <1>2, <1>3 DEF At
<1>5. PICK k : k = CHOOSE x \in cuts : \A j \in cuts : j <= x
  OBVIOUS
<1>6. k \in cuts /\ \A j \in cuts : j <= k
  <2>1. cuts \subseteq 0..n /\ cuts # {}
    BY <1>4
  <2>2. \E x \in cuts : \A j \in cuts : j <= x
    BY <2>1, GreatestElement
  <2>. QED BY <1>5, <2>2
<1>7. /\ ~(cuts \subseteq {1}) /\ (~system => ~IsShared(SubSeq(b, 1, k)))
      /\ DirOf(path, system) = Spelt(SubSeq(b, 1, k))
  BY <1>1, <1>3, <1>5 DEF DirOf
<1>8. k \in 1..n /\ k > 1 /\ b[k] = Slash
  <2>1. PICK j \in cuts : j # 1
    BY <1>7
  <2>2. j \in 1..n /\ j <= k /\ k \in 1..n
    BY <1>4, <1>6, <2>1
  <2>3. k > 1
    BY <2>1, <2>2
  <2>. QED BY <1>4, <1>6, <2>3
<1>9. Parent(path) = SubSeq(b, 1, k)
  <2>1. PICK m : m = Max(cuts \cup {0})
    OBVIOUS
  <2>2. k \in cuts \cup {0} /\ \A y \in cuts \cup {0} : k >= y
    <3>1. \A y \in cuts : y \in 1..n /\ k >= y
      BY <1>4, <1>6, <1>8
    <3>. QED BY <1>6, <1>8, <3>1
  <2>3. m \in cuts \cup {0} /\ \A y \in cuts \cup {0} : m >= y
    BY <2>1, <2>2 DEF Max
  <2>4. m \in 0..n /\ m >= k /\ k >= m
    BY <1>4, <2>2, <2>3
  <2>5. m = k
    BY <1>8, <2>4
  <2>. QED BY <1>1, <1>3, <2>1, <2>5 DEF Parent
<1>10. PICK d : d = SubSeq(b, 1, k)
  OBVIOUS
<1>11. /\ d \in Seq(Nat) /\ Len(d) = k /\ DOMAIN d = 1..k
       /\ \A i \in 1..k : d[i] = b[i]
  BY <1>2, <1>8, <1>10
<1>12. At(b, {Space}) = {} => At(d, {Space}) = {}
  <2>1. \A i \in 1..k : i \in 1..n
    BY <1>2, <1>8
  <2>. QED BY <1>2, <1>11, <2>1 DEF At
<1>13. d[1] = Slash /\ d[k] = Slash
  <2>1. 1 \in 1..k /\ k \in 1..k
    BY <1>8
  <2>. QED BY <1>2, <1>8, <1>11, <2>1
<1>14. Parent(path) = d /\ Len(d) > 1 /\ Len(d) <= Len(Spelling[path])
  BY <1>1, <1>2, <1>8, <1>9, <1>10, <1>11
<1>15. d = SubSeq(Spelling[path], 1, Len(d))
  BY <1>1, <1>10, <1>11
<1>16. DirOf(path, system) = Spelt(d) /\ (~system => ~IsShared(d))
  BY <1>7, <1>10
<1>. QED BY <1>1, <1>11, <1>12, <1>13, <1>14, <1>15, <1>16

\* LEMMA: the value a rule names that directory by.
LEMMA DirIs ==
    ASSUME NEW ev \in Accesses, NEW system, DirOf(ev.path, system) # None
    PROVE  LET d == DirOf(ev.path, system)
           IN  /\ d \in DOMAIN Spelling /\ Spelling[d] = Parent(ev.path)
               /\ Under[d] = {v \in DOMAIN Spelling : IsPrefix(Parent(ev.path), Spelling[v])}
<1>1. IsPath(ev.path)
  BY AccessAssumption DEF IsPath
<1>2. Len(Parent(ev.path)) > 1 /\ DirOf(ev.path, system) = Spelt(Parent(ev.path))
  BY <1>1, ParentIs
<1>3. PICK d \in (DOMAIN Spelling \cap DOMAIN Under) \ Keywords : Spelling[d] = Parent(ev.path)
  BY <1>2, AccessAssumption
<1>4. Spelt(Parent(ev.path)) = d
  BY <1>3, SpellingAssumption DEF Spelt
<1>. QED BY <1>2, <1>3, <1>4, PrefixAssumption
--------------------------------------------------------------------------------
(* What a denial is written as                                             *)

\* The rule for the denial of an access.
RuleOn(s, ev) ==
    /\ s = RuleFor(ev.perm, s.exe, ev.path)
    /\ ev.perm \in {"open", "execute"} /\ ev.path \notin Split
    /\ \/ s.exe = None /\ ev.exe \in Control \cup Split \cup {Unencoded}
       \/ s.exe = ev.exe /\ ev.exe \notin Split

\* LEMMA: a suggestion that is a rule is one on the access denied.
LEMMA SuggestionIs ==
    ASSUME NEW d, d.event \in Accesses, Suggestion(d).kind = "rule"
    PROVE  RuleOn(Suggestion(d), d.event)
<1>1. PICK ev : ev = d.event
  OBVIOUS
<1>2. PICK r : r = RecordOf(ev)
  OBVIOUS
<1>3. r.perm = ev.perm /\ r.exe = ev.exe /\ r.path = ev.path
  BY <1>2 DEF RecordOf, Logged
<1>4. PICK s : s = Suggestion(d)
  OBVIOUS
<1>5. s.kind = "rule" /\ s = Decide(r, None)
  <2>1. Explain.kind # "rule"
    BY DEF Explain
  <2>. QED BY <1>1, <1>2, <1>4, <2>1 DEF Suggestion
<1>6. \E absent \in BOOLEAN : s = RuleArm(r, None, absent)
  <2>1. Explain.kind # "rule" /\ \A p : TrustFile(p).kind # "rule"
    BY DEF Explain, TrustFile
  <2>. QED BY <1>5, <2>1 DEF Decide
<1>7. /\ r.path \notin Split /\ r.perm \in {"open", "execute"}
      /\ s = RuleFor(r.perm, Scope(r, None), r.path)
  <2>1. Explain.kind # "rule" /\ \A p : TrustFile(p).kind # "rule"
    BY DEF Explain, TrustFile
  <2>. QED BY <1>5, <1>6, <2>1 DEF RuleArm
<1>8. s.exe = Scope(r, None)
  BY <1>7 DEF RuleFor
<1>9. Scope(r, None) = IF r.exe \in Control \cup Split \cup {Unencoded} THEN None ELSE r.exe
  BY DEF Scope
<1>. QED BY <1>1, <1>3, <1>4, <1>7, <1>8, <1>9 DEF RuleOn

\* LEMMA: it can be written.
LEMMA RuleWritable ==
    ASSUME NEW ev \in Accesses, NEW s, RuleOn(s, ev)
    PROVE  Writable(s) /\ s.kind = "rule" /\ s.perm = ev.perm /\ s.path = ev.path
<1>1. IsPath(ev.path) /\ IsPath(ev.exe)
  BY AccessAssumption DEF IsPath
<1>2. s.kind = "rule" /\ s.perm = ev.perm /\ s.path = ev.path
  BY DEF RuleOn, RuleFor
<1>3. IsValue(s.path)
  BY <1>1, <1>2, PathIsValue DEF RuleOn
<1>4. s.exe = None \/ IsValue(s.exe)
  BY <1>1, PathIsValue DEF RuleOn
<1>. QED BY <1>2, <1>3, <1>4 DEF Writable, RuleOn

\* LEMMA: so can the rule for its directory, where that holds no comma.
LEMMA DirWritable ==
    ASSUME NEW ev \in Accesses, NEW s, RuleOn(s, ev), NEW system, NEW paths,
           DirOf(ev.path, system) # None, At(Parent(ev.path), {Comma}) = {}
    PROVE  Writable(DirRule(s.perm, s.exe, DirOf(ev.path, system), paths))
<1>1. IsPath(ev.path)
  BY AccessAssumption DEF IsPath
<1>2. PICK d : d = DirOf(ev.path, system)
  OBVIOUS
<1>3. d \in DOMAIN Spelling /\ Spelling[d] = Parent(ev.path) /\ BytesOf(d) = Parent(ev.path)
  BY <1>2, DirIs DEF BytesOf
<1>4. At(Spelling[ev.path], {Space}) = {}
  BY <1>1, SplitAssumption DEF RuleOn, IsPath
<1>5. PICK p \in Seq(Nat) : p = Parent(ev.path) /\ p[1] = Slash /\ At(p, {Space}) = {}
  BY <1>1, <1>4, ParentIs
<1>6. ~IsPrefix(<<Percent>>, p)
  <2>1. Percent \in Nat /\ Percent # Slash
    BY DEF Percent, Slash
  <2>. QED BY <1>5, <2>1, FirstByte
<1>7. IsValue(d)
  BY <1>3, <1>5, <1>6 DEF IsValue
<1>8. Writable(s) /\ s.perm = ev.perm
  BY RuleWritable
<1>9. PICK r : r = DirRule(s.perm, s.exe, d, paths)
  OBVIOUS
<1>10. r.kind = "dir" /\ r.perm = s.perm /\ r.exe = s.exe /\ r.path = d
  BY <1>9 DEF DirRule
<1>11. Writable(r)
  BY <1>3, <1>7, <1>8, <1>10 DEF Writable
<1>. QED BY <1>2, <1>9, <1>11

IsLog(read) == IsSeq(read) /\ \A i \in DOMAIN read : read[i].event \in Accesses

\* The credited denials whose rules are grouped with that for the i-th.
Grouped(read, i) ==
    LET key(j) == GroupKey(Suggestion(read[j]), tool.flags.dirSystem)
    IN  {j \in Credited(read) : key(j) = key(i)}

\* The directory stands in the fragment for rules on enough paths.
DirFor(line, read, i) ==
    LET s   == Suggestion(read[i])
        dir == DirOf(s.path, tool.flags.dirSystem)
    IN  /\ tool.flags.dirMin # None /\ GroupKey(s, tool.flags.dirSystem) # None
        /\ Cardinality({read[j].event.path : j \in Grouped(read, i)}) >= tool.flags.dirMin
        /\ \E paths : line = Render(DirRule(s.perm, s.exe, dir, paths))
\* LEMMA: credited denials are denials whose suggestion is a rule.
LEMMA CreditedIs ==
    ASSUME NEW read, IsLog(read), NEW i \in Credited(read)
    PROVE  i \in DOMAIN read /\ read[i].event \in Accesses
           /\ RuleOn(Suggestion(read[i]), read[i].event)
<1>1. i \in DOMAIN read /\ Suggestion(read[i]).kind = "rule"
  BY DEF Credited
<1>2. read[i].event \in Accesses
  BY <1>1 DEF IsLog
<1>. QED BY <1>1, <1>2, SuggestionIs

\* LEMMA: as many paths were denied as rules are grouped.
LEMMA GroupPaths ==
    ASSUME NEW read, IsLog(read), NEW i \in DOMAIN Accepted(read), NEW c \in Credited(read),
           Accepted(read)[i] = Suggestion(read[c]), NEW min \in Nat,
           GroupKey(Accepted(read)[i], tool.flags.dirSystem) # None,
           Cardinality(Group(Accepted(read), i, tool.flags.dirSystem)) >= min
    PROVE  Cardinality({read[j].event.path : j \in Grouped(read, c)}) >= min
<1>. DEFINE key(s) == GroupKey(s, tool.flags.dirSystem)
<1>1. PICK acc : acc = Accepted(read)
  OBVIOUS
<1>2. PICK h : \A k \in DOMAIN acc :
                 /\ h[k] \in Credited(read) /\ acc[k] = Suggestion(read[h[k]])
                 /\ \A j \in DOMAIN acc : acc[j] = acc[k] => j = k
  BY <1>1, AcceptedIs DEF IsLog
<1>3. PICK G : G = {j \in DOMAIN acc : key(acc[j]) = key(acc[i])} /\ Cardinality(G) >= min
  BY <1>1 DEF Group
<1>4. PICK J : J = {j \in Credited(read) : key(Suggestion(read[j])) = key(Suggestion(read[c]))}
               /\ J = Grouped(read, c)
  BY DEF Grouped
<1>5. PICK T : T = {read[j].event.path : j \in J}
  OBVIOUS
<1>6. IsFiniteSet(T)
  <2>1. PICK n \in Nat : DOMAIN read = 1..n
    BY SeqAt DEF IsLog
  <2>2. J \subseteq 1..n
    BY <1>4, <2>1, CreditedIs
  <2>3. IsFiniteSet(J)
    <3>1. IsFiniteSet(1..n)
      BY FS_Interval
    <3>. QED BY <2>2, <3>1, FS_Subset
  <2>4. PICK g : g = [j \in J |-> read[j].event.path]
    OBVIOUS
  <2>5. g \in Surjection(J, T)
    BY <1>5, <2>4 DEF Surjection
  <2>. QED BY <2>3, <2>5, FS_Surjection
<1>7. ASSUME NEW m \in G PROVE h[m] \in J
  <2>1. m \in DOMAIN acc /\ key(acc[m]) = key(acc[i]) /\ acc[i] = Suggestion(read[c])
    BY <1>1, <1>3
  <2>. HIDE DEF key
  <2>. QED BY <1>2, <1>4, <2>1
<1>8. PICK f : f = [m \in G |-> read[h[m]].event.path]
  OBVIOUS
<1>9. ASSUME NEW m \in G, NEW l \in G, f[m] = f[l] PROVE m = l
  <2>1. m \in DOMAIN acc /\ l \in DOMAIN acc /\ key(acc[m]) = key(acc[l]) /\ key(acc[m]) # None
    BY <1>1, <1>3
  <2>2. acc[m].perm = acc[l].perm /\ acc[m].exe = acc[l].exe
    BY <2>1 DEF GroupKey
  <2>3. /\ RuleOn(acc[m], read[h[m]].event) /\ RuleOn(acc[l], read[h[l]].event)
        /\ read[h[m]].event \in Accesses /\ read[h[l]].event \in Accesses
    BY <1>2, <2>1, CreditedIs
  <2>4. /\ acc[m].perm = read[h[m]].event.perm /\ acc[l].perm = read[h[l]].event.perm
    BY <2>3, RuleWritable
  <2>5. read[h[m]].event.path = read[h[l]].event.path
    BY <1>8, <1>9
  <2>6. acc[m] = acc[l]
    BY <2>2, <2>3, <2>4, <2>5 DEF RuleOn
  <2>. QED BY <1>2, <2>1, <2>6
<1>10. f \in Injection(G, T)
  <2>1. \A m \in G : f[m] \in T
    BY <1>5, <1>7, <1>8
  <2>. QED BY <1>8, <1>9, <2>1 DEF Injection, IsInjective
<1>11. IsFiniteSet(G) /\ Cardinality(G) <= Cardinality(T)
  BY <1>6, <1>10, FS_Injection
<1>12. Cardinality(G) \in Nat /\ Cardinality(T) \in Nat
  BY <1>6, <1>11, FS_CardinalityType
<1>13. Cardinality(T) >= min
  BY <1>3, <1>11, <1>12
<1>. QED BY <1>4, <1>5, <1>13

\* The rule for a denial is in the fragment as it is, or in its directory's.
Covered(line, read, i) ==
    LET s   == Suggestion(read[i])
        dir == DirOf(s.path, tool.flags.dirSystem)
    IN  \/ line = Render(s)
        \/ /\ GroupKey(s, tool.flags.dirSystem) # None
           /\ \E paths : line = Render(DirRule(s.perm, s.exe, dir, paths))

\* LEMMA: a line of the fragment is the rule for a credited denial or that for
\* its directory; and no denial is left out.
LEMMA FragmentIs ==
    ASSUME NEW read, IsLog(read), tool.flags.dirMin = None \/ tool.flags.dirMin \in Nat
    PROVE  /\ IsSeq(Fragment(read))
           /\ \A k \in DOMAIN Fragment(read) : \E i \in Credited(read) :
                 \/ Fragment(read)[k] = Render(Suggestion(read[i]))
                 \/ DirFor(Fragment(read)[k], read, i)
           /\ \A i \in Credited(read) : \E k \in DOMAIN Fragment(read) :
                 Covered(Fragment(read)[k], read, i)
<1>1. PICK acc : acc = Accepted(read)
  OBVIOUS
<1>2. IsSeq(acc)
  BY <1>1, AcceptedIs DEF IsLog
<1>3. PICK h : \A k \in DOMAIN acc : h[k] \in Credited(read) /\ acc[k] = Suggestion(read[h[k]])
  BY <1>1, AcceptedIs DEF IsLog
<1>4. PICK min : min = tool.flags.dirMin
  OBVIOUS
<1>5. PICK system : system = tool.flags.dirSystem
  OBVIOUS
<1>6. PICK rules : rules = IF min = None THEN acc ELSE GroupDirs(acc, min, system)
  OBVIOUS
<1>7. IsSeq(rules)
  BY <1>2, <1>6, GroupDirsIs
<1>8. Fragment(read) = [k \in DOMAIN rules |-> Render(rules[k])]
  BY <1>1, <1>4, <1>5, <1>6 DEF Fragment
<1>9. PICK n \in Nat : n = Len(rules) /\ DOMAIN rules = 1..n
  BY <1>7, SeqAt
<1>10. IsSeq(Fragment(read))
  <2>1. PICK S : S = {Render(rules[k]) : k \in 1..n}
    OBVIOUS
  <2>2. Fragment(read) \in Seq(S)
    BY <1>8, <1>9, <2>1
  <2>. QED BY <2>2, SeqSelf
<1>11. ASSUME NEW k \in DOMAIN rules, NEW i \in DOMAIN acc, rules[k] = acc[i]
       PROVE  h[i] \in Credited(read) /\ Fragment(read)[k] = Render(Suggestion(read[h[i]]))
  BY <1>3, <1>8, <1>11
<1>12. ASSUME NEW k \in DOMAIN rules, NEW i \in DOMAIN acc, min # None, NEW paths,
              GroupKey(acc[i], system) # None, Cardinality(Group(acc, i, system)) >= min,
              rules[k] = DirRule(acc[i].perm, acc[i].exe, DirOf(acc[i].path, system), paths)
       PROVE  h[i] \in Credited(read) /\ DirFor(Fragment(read)[k], read, h[i])
  <2>1. PICK c : c = h[i]
    OBVIOUS
  <2>2. c \in Credited(read) /\ acc[i] = Suggestion(read[c])
    BY <1>3, <2>1
  <2>3. min \in Nat
    BY <1>4, <1>12
  <2>4. Cardinality({read[j].event.path : j \in Grouped(read, c)}) >= min
    BY <1>1, <1>5, <1>12, <2>2, <2>3, GroupPaths
  <2>6. Fragment(read)[k] = Render(DirRule(acc[i].perm, acc[i].exe, DirOf(acc[i].path, system), paths))
    BY <1>8, <1>12
  <2>. QED BY <1>4, <1>5, <1>12, <2>1, <2>2, <2>4, <2>6 DEF DirFor
<1>13. ASSUME NEW k \in DOMAIN rules
       PROVE  \E i \in Credited(read) :
                 \/ Fragment(read)[k] = Render(Suggestion(read[i]))
                 \/ DirFor(Fragment(read)[k], read, i)
  <2>1. CASE min = None
    BY <1>6, <1>11, <2>1
  <2>2. CASE min # None
    <3>1. PICK i \in DOMAIN acc :
             \/ rules[k] = acc[i]
             \/ /\ GroupKey(acc[i], system) # None
                /\ Cardinality(Group(acc, i, system)) >= min
                /\ \E paths : rules[k] = DirRule(acc[i].perm, acc[i].exe, DirOf(acc[i].path, system), paths)
      BY <1>2, <1>6, <2>2, GroupDirsIs
    <3>. QED BY <1>11, <1>12, <2>2, <3>1
  <2>. QED BY <2>1, <2>2
<1>14. DOMAIN Fragment(read) = DOMAIN rules
  BY <1>8
<1>15. ASSUME NEW c \in Credited(read)
       PROVE  \E k \in DOMAIN rules : Covered(Fragment(read)[k], read, c)
  <2>1. PICK i \in DOMAIN acc : acc[i] = Suggestion(read[c])
    BY <1>1, AcceptedIs DEF IsLog
  <2>2. CASE min = None
    BY <1>6, <1>8, <2>1, <2>2 DEF Covered
  <2>3. CASE min # None
    <3>1. PICK k \in DOMAIN rules :
             \/ rules[k] = acc[i]
             \/ /\ GroupKey(acc[i], system) # None
                /\ \E paths : rules[k] = DirRule(acc[i].perm, acc[i].exe, DirOf(acc[i].path, system), paths)
      BY <1>2, <1>6, <2>3, GroupDirsIs
    <3>2. Fragment(read)[k] = Render(rules[k])
      BY <1>8
    <3>. QED BY <1>5, <2>1, <3>1, <3>2 DEF Covered
  <2>. QED BY <2>2, <2>3
<1>. QED BY <1>10, <1>13, <1>14, <1>15
\* The directories of the host's files hold no comma: emit.rs writes a dir=
\* value as it stands, and a comma there would list two prefixes.
PlainDirs == \A ev \in Accesses : At(Parent(ev.path), {Comma}) = {}

\* The denials an access is like, as NothingWider says it.
LikeDenied(read, ev, dir) ==
    {j \in DOMAIN read : /\ read[j].event.perm = ev.perm
                         /\ read[j].event.exe = ev.exe
                         /\ Parent(read[j].event.path) = dir}
BelowDenied(read, ev) ==
    /\ tool.flags.dirMin # None
    /\ \E i \in DOMAIN read :
          LET dir == Parent(read[i].event.path)
          IN  /\ Within(ev.path, dir)
              /\ Cardinality({read[j].event.path : j \in LikeDenied(read, ev, dir)}) >= tool.flags.dirMin

\* LEMMA: the rule for a denial answers accesses like it.
LEMMA RuleAnswers ==
    ASSUME NEW read, IsLog(read), NEW i \in Credited(read), NEW ev \in Accesses, NEW defs,
           Fires(RuleOf(Render(Suggestion(read[i])).words), ev, defs)
    PROVE  Denies(read[i], ev)
<1>1. PICK s : s = Suggestion(read[i])
  OBVIOUS
<1>2. PICK own \in Accesses : own = read[i].event /\ RuleOn(s, own)
  BY <1>1, CreditedIs
<1>3. Writable(s) /\ s.kind = "rule" /\ s.perm = own.perm /\ s.path = own.path
  BY <1>2, RuleWritable
<1>4. ev.perm = s.perm /\ (s.exe = None \/ ev.exe = s.exe) /\ ev.path = s.path
  <2>1. s.kind # "dir"
    BY <1>3
  <2>. QED BY <1>1, <1>3, <2>1, WrittenFires
<1>5. own.exe = ev.exe \/ own.exe \in Control \cup Split \cup {None, Unencoded}
  BY <1>2, <1>4 DEF RuleOn
<1>. QED BY <1>2, <1>3, <1>4, <1>5 DEF Denies

\* LEMMA: the rule for a directory answers accesses below it, by the program
\* that was denied.
LEMMA DirAnswers ==
    ASSUME PlainDirs, NEW read, IsLog(read), NEW i \in Credited(read), NEW line,
           DirFor(line, read, i), tool.flags.dirMin \in Nat,
           NEW ev \in Accesses, NEW defs, Fires(RuleOf(line.words), ev, defs)
    PROVE  BelowDenied(read, ev)
<1>1. PICK system : system = tool.flags.dirSystem
  OBVIOUS
<1>2. PICK s : s = Suggestion(read[i])
  OBVIOUS
<1>3. PICK own \in Accesses : own = read[i].event /\ RuleOn(s, own) /\ i \in DOMAIN read
  BY <1>2, CreditedIs
<1>4. s.kind = "rule" /\ s.perm = own.perm /\ s.path = own.path
  BY <1>3, RuleWritable
<1>5. PICK d : d = DirOf(own.path, system)
  OBVIOUS
<1>6. PICK paths : /\ line = Render(DirRule(s.perm, s.exe, d, paths)) /\ s.exe # None /\ d # None
                   /\ GroupKey(s, system) = <<s.perm, s.exe, d>> /\ GroupKey(s, system) # None
  <2>1. GroupKey(s, system) # None /\ \E paths : line = Render(DirRule(s.perm, s.exe, d, paths))
    BY <1>1, <1>2, <1>4, <1>5 DEF DirFor
  <2>. QED BY <1>4, <1>5, <2>1 DEF GroupKey
<1>7. PICK r : r = DirRule(s.perm, s.exe, d, paths)
  OBVIOUS
<1>8. Writable(r)
  BY <1>3, <1>5, <1>6, <1>7, DirWritable DEF PlainDirs
<1>9. r.kind = "dir" /\ r.perm = s.perm /\ r.exe = s.exe /\ r.path = d
  BY <1>7 DEF DirRule
<1>10. ev.perm = s.perm /\ ev.exe = s.exe /\ ev.path \in Under[d]
  BY <1>6, <1>7, <1>8, <1>9, WrittenFires
<1>11. own.exe = s.exe
  BY <1>3, <1>6 DEF RuleOn
<1>12. PICK dir : dir = Parent(own.path) /\ Spelling[d] = dir
  BY <1>5, <1>6, DirIs
<1>13. Within(ev.path, dir)
  <2>1. ev.path \in DOMAIN Spelling /\ IsPrefix(dir, Spelling[ev.path])
    BY <1>5, <1>6, <1>10, <1>12, DirIs
  <2>2. IsPath(own.path)
    BY AccessAssumption DEF IsPath
  <2>3. dir[Len(dir)] = Slash /\ (~system => ~IsShared(dir))
    BY <1>5, <1>6, <1>12, <2>2, ParentIs
  <2>4. ~system => /\ SubSeq(dir, 1, Len(dir) - 1) \notin Shared
                   /\ \A w \in WorldWritable : ~IsPrefix(w, dir)
    BY <2>3 DEF IsShared
  <2>. QED BY <1>1, <2>1, <2>3, <2>4 DEF Within, BytesOf
<1>14. PICK A : A = LikeDenied(read, ev, dir) /\ A \subseteq DOMAIN read
  BY DEF LikeDenied
<1>15. Grouped(read, i) \subseteq A
  <2>1. SUFFICES ASSUME NEW j \in Grouped(read, i) PROVE j \in A
    OBVIOUS
  <2>2. PICK t : t = Suggestion(read[j])
    OBVIOUS
  <2>3. j \in Credited(read) /\ GroupKey(t, system) = GroupKey(s, system)
    BY <1>1, <1>2, <2>1, <2>2 DEF Grouped
  <2>4. PICK e \in Accesses : e = read[j].event /\ RuleOn(t, e) /\ j \in DOMAIN read
    BY <2>2, <2>3, CreditedIs
  <2>5. t.kind = "rule" /\ t.perm = e.perm /\ t.path = e.path
    BY <2>4, RuleWritable
  <2>6. GroupKey(t, system) # None
    BY <1>6, <2>3
  <2>7. /\ GroupKey(t, system) = <<t.perm, t.exe, DirOf(e.path, system)>>
        /\ t.exe # None /\ DirOf(e.path, system) # None
    BY <2>5, <2>6 DEF GroupKey
  <2>8. t.perm = s.perm /\ t.exe = s.exe /\ DirOf(e.path, system) = d
    BY <1>6, <2>3, <2>7
  <2>9. Parent(e.path) = dir
    BY <1>12, <2>7, <2>8, DirIs
  <2>10. e.exe = s.exe
    BY <1>6, <2>4, <2>8 DEF RuleOn
  <2>. QED BY <1>10, <1>14, <2>4, <2>5, <2>8, <2>9, <2>10 DEF LikeDenied
<1>16. Cardinality({read[j].event.path : j \in A}) >= tool.flags.dirMin
  <2>1. PICK T : T = {read[j].event.path : j \in A}
    OBVIOUS
  <2>2. PICK U : U = {read[j].event.path : j \in Grouped(read, i)}
                 /\ Cardinality(U) >= tool.flags.dirMin
    BY DEF DirFor
  <2>3. U \in SUBSET T
    BY <1>15, <2>1, <2>2
  <2>4. IsFiniteSet(T)
    <3>1. PICK n \in Nat : DOMAIN read = 1..n
      BY SeqAt DEF IsLog
    <3>2. IsFiniteSet(1..n) /\ A \subseteq 1..n
      BY <1>14, <3>1, FS_Interval
    <3>3. IsFiniteSet(A)
      BY <3>2, FS_Subset
    <3>4. PICK g : g = [j \in A |-> read[j].event.path]
      OBVIOUS
    <3>5. g \in Surjection(A, T)
      BY <2>1, <3>4 DEF Surjection
    <3>. QED BY <3>3, <3>5, FS_Surjection
  <2>5. IsFiniteSet(U) /\ Cardinality(U) <= Cardinality(T)
    BY <2>3, <2>4, FS_Subset
  <2>6. Cardinality(U) \in Nat /\ Cardinality(T) \in Nat
    BY <2>4, <2>5, FS_CardinalityType
  <2>7. Cardinality(T) >= tool.flags.dirMin
    BY <2>2, <2>5, <2>6
  <2>. QED BY <2>1, <2>7
<1>. QED BY <1>3, <1>12, <1>13, <1>14, <1>16 DEF BelowDenied, DirFor
--------------------------------------------------------------------------------
(* The host's directory                                                    *)

IsDir(dir) ==
    /\ IsFiniteSet(DOMAIN dir) /\ DOMAIN dir \subseteq String
    /\ \A f \in DOMAIN dir : IsSeq(dir[f])

IsListing(files) == IsFiles(files) /\ \A i \in DOMAIN files : files[i].name \in String

\* LEMMA: a listing has a file for each name that is merged, in order, and
\* each is the file of that name.
LEMMA ListingIs ==
    ASSUME NEW dir, IsDir(dir)
    PROVE  /\ IsListing(Listing(dir))
           /\ \A i \in DOMAIN Listing(dir) :
                 /\ Listing(dir)[i].name \in DOMAIN dir
                 /\ Listing(dir)[i].rules = Parse(dir[Listing(dir)[i].name])
                 /\ IsSeq(Listing(dir)[i].sets)
           /\ \A i, j \in DOMAIN Listing(dir) :
                 i < j => Before(Listing(dir)[i].name, Listing(dir)[j].name)
           /\ \A f : (\E i \in DOMAIN Listing(dir) : Listing(dir)[i].name = f) <=>
                       f \in DOMAIN dir /\ IsMerged(f)
<1>1. PICK names : names = InOrder(DOMAIN dir)
  OBVIOUS
<1>2. /\ names \in Seq(String) /\ Sorted(names)
      /\ Held(names) = {name \in DOMAIN dir : IsMerged(name)}
  BY <1>1, InOrderIs DEF IsDir
<1>3. PICK n \in Nat : n = Len(names) /\ DOMAIN names = 1..n
  BY <1>2
<1>4. \A i \in 1..n : names[i] \in DOMAIN dir
  <2>1. \A i \in 1..n : names[i] \in Held(names)
    BY <1>3 DEF Held
  <2>. QED BY <1>2, <2>1
<1>5. PICK files : files = Listing(dir)
  OBVIOUS
<1>6. files = [i \in 1..n |-> FileOf(names[i], dir[names[i]])]
  BY <1>1, <1>3, <1>5 DEF Listing
<1>7. DOMAIN files = 1..n
  BY <1>6
<1>8. ASSUME NEW i \in 1..n
      PROVE  /\ files[i].name = names[i] /\ files[i].rules = Parse(dir[names[i]])
             /\ IsSeq(files[i].rules) /\ IsSeq(files[i].sets)
  <2>1. files[i] = FileOf(names[i], dir[names[i]])
    BY <1>6
  <2>2. IsSeq(Parse(dir[names[i]])) /\ IsSeq(Sets(dir[names[i]]))
    BY <1>4, ParseIs, SetsIs DEF IsDir
  <2>. QED BY <2>1, <2>2 DEF FileOf
<1>9. IsSeq(files)
  <2>1. PICK S : S = {FileOf(names[i], dir[names[i]]) : i \in 1..n}
    OBVIOUS
  <2>2. files \in Seq(S)
    BY <1>6, <2>1
  <2>. QED BY <2>2, SeqSelf
<1>10. IsListing(files)
  BY <1>4, <1>7, <1>8, <1>9 DEF IsListing, IsFiles, IsDir
<1>11. \A i, j \in 1..n : i < j => Before(files[i].name, files[j].name)
  BY <1>2, <1>3, <1>8 DEF Sorted
<1>12. \A f : (\E i \in 1..n : files[i].name = f) <=> f \in DOMAIN dir /\ IsMerged(f)
  <2>1. Held(names) = {names[i] : i \in 1..n}
    BY <1>3 DEF Held
  <2>. QED BY <1>2, <1>8, <2>1
<1>. QED BY <1>4, <1>5, <1>7, <1>8, <1>10, <1>11, <1>12

\* LEMMA: a file written and a file deleted leave a directory.
LEMMA DirChanges ==
    ASSUME NEW dir, IsDir(dir)
    PROVE  /\ \A name \in String : \A lines : IsSeq(lines) => IsDir(With(dir, name, lines))
           /\ \A name \in DOMAIN dir : IsDir([f \in DOMAIN dir \ {name} |-> dir[f]])
<1>1. ASSUME NEW name \in String, NEW lines, IsSeq(lines)
      PROVE  IsDir(With(dir, name, lines))
  <2>1. PICK to : to = With(dir, name, lines)
    OBVIOUS
  <2>2. /\ DOMAIN to = DOMAIN dir \cup {name}
        /\ \A f \in DOMAIN to : to[f] = IF f = name THEN lines ELSE dir[f]
    BY <2>1 DEF With
  <2>3. IsFiniteSet(DOMAIN dir \cup {name})
    BY FS_AddElement DEF IsDir
  <2>4. \A f \in DOMAIN to : IsSeq(to[f])
    BY <1>1, <2>2 DEF IsDir
  <2>. QED BY <2>1, <2>2, <2>3, <2>4 DEF IsDir
<1>2. ASSUME NEW name \in DOMAIN dir
      PROVE  IsDir([f \in DOMAIN dir \ {name} |-> dir[f]])
  <2>1. IsFiniteSet(DOMAIN dir \ {name})
    BY FS_RemoveElement DEF IsDir
  <2>. QED BY <2>1 DEF IsDir
<1>. QED BY <1>1, <1>2

--------------------------------------------------------------------------------
(* The recommended name                                                    *)

IsName(name) == name = None \/ name \in String

\* LEMMA: a file is located in the listing, or not at all.
LEMMA LocateIs ==
    ASSUME NEW files, IsSeq(files), NEW compiled0, NEW n
    PROVE  LET at == Locate(files, compiled0, n)
           IN  at # 0 => at \in DOMAIN files /\ n \in Ahead(files, at) + 1 .. Ahead(files, at + 1)
<1>1. PICK holds : holds = {i \in DOMAIN files : n \in Ahead(files, i) + 1 .. Ahead(files, i + 1)}
  OBVIOUS
<1>2. holds \subseteq DOMAIN files /\ holds \subseteq Nat
  BY <1>1, SeqAt
<1>3. holds # {} => Smallest(holds) \in holds
  BY <1>2, SmallestIs
<1>. QED BY <1>1, <1>3 DEF Locate

\* LEMMA: a name is recommended ahead of a file that is listed.
LEMMA PlacementIs ==
    ASSUME IsListing(tool.listing), NEW read
    PROVE  IsName(Placement(read))
<1>1. PICK names : names = [i \in DOMAIN tool.listing |-> tool.listing[i].name]
  OBVIOUS
<1>2. PICK at : at = {Locate(tool.listing, tool.rules, read[i].n) : i \in Credited(read)}
  OBVIOUS
<1>3. Placement(read) = IF tool.listing = << >> \/ tool.rules = None \/ at = {} \/ 0 \in at THEN None
                        ELSE Recommend(names, Smallest(at))
  BY <1>1, <1>2, Zenon DEF Placement
<1>4. IsSeq(tool.listing)
  BY DEF IsListing, IsFiles
<1>5. names \in Seq(String) /\ DOMAIN names = DOMAIN tool.listing /\ DOMAIN names \subseteq Nat
  BY <1>1, <1>4, SeqAt DEF IsListing
<1>6. at \subseteq DOMAIN names \cup {0}
  BY <1>2, <1>4, <1>5, LocateIs
<1>7. ASSUME at # {}, 0 \notin at PROVE Smallest(at) \in DOMAIN names
  BY <1>5, <1>6, <1>7, SmallestIs
<1>8. ASSUME at # {}, 0 \notin at PROVE IsName(Recommend(names, Smallest(at)))
  BY <1>5, <1>7, <1>8, RecommendIsAhead DEF IsName
<1>. QED BY <1>3, <1>8 DEF IsName
--------------------------------------------------------------------------------
(* The invariant                                                           *)

ToolFields ==
    {"pc", "flags", "log", "under", "settled", "rules", "listing", "base", "fragment", "name", "exit"}
HasFields == tool = [f \in ToolFields |-> tool[f]]

\* A name is only there once the note is written, and stands beside the
\* fragment for the denials it was taken from.
NoteInv ==
    /\ tool.pc \in {"legacy", "compiled", "listing", "write"} => tool.flags \in Flags
    /\ tool.pc # "done" => tool.name = None
    /\ tool.name # None => tool.flags \in Flags /\ tool.fragment = Fragment(tool.log)

ToolInv ==
    /\ HasFields
    /\ IsListing(tool.listing) /\ IsName(tool.name) /\ IsSeq(tool.fragment) /\ IsLog(tool.log)
    /\ NoteInv

RunInv ==
    /\ IsDir(rulesd) /\ compiled.files = Listing(compiled.dir)
    /\ IsLog(log)
    /\ ToolInv

\* LEMMA: a process that has only started, and one that is gone.
LEMMA Fresh ==
    /\ tool = NotStarted => ToolInv
    /\ \A code : Exits(code) => ToolInv'
<1>1. IsSeq(<< >>) /\ IsListing(<< >>) /\ IsLog(<< >>)
  BY DEF IsSeq, IsListing, IsLog, IsFiles, ToSet
<1>2. tool = NotStarted => ToolInv
  BY <1>1 DEF NotStarted, ToolInv, NoteInv, HasFields, ToolFields, IsName
<1>3. ASSUME NEW code, Exits(code) PROVE ToolInv'
  <2>1. tool' = [NotStarted EXCEPT !.pc = "done", !.exit = code]
    BY <1>3 DEF Exits
  <2>. QED BY <1>1, <2>1 DEF NotStarted, ToolInv, NoteInv, HasFields, ToolFields, IsName
<1>. QED BY <1>2, <1>3

\* LEMMA: the invariant holds at the start.
LEMMA RunInit == Init => RunInv
<1>. SUFFICES ASSUME Init PROVE RunInv
  OBVIOUS
<1>1. PICK h \in Hosts : rulesd = h.dir
  BY DEF Init
<1>2. IsDir(rulesd)
  <2>1. \A f \in DOMAIN h.dir : h.dir[f] \in UNION {{g.dir[x] : x \in DOMAIN g.dir} : g \in Hosts}
    OBVIOUS
  <2>2. \A f \in DOMAIN h.dir : IsSeq(h.dir[f])
    BY <2>1, ContentsAssumption DEF IsSeq
  <2>. QED BY <1>1, <2>2, NamesAssumption DEF IsDir, String
<1>3. compiled.files = Listing(compiled.dir)
  BY DEF Init
<1>4. IsLog(log)
  BY DEF Init, IsLog, IsSeq, ToSet
<1>5. ToolInv
  BY Fresh DEF Init
<1>. QED BY <1>2, <1>3, <1>4, <1>5 DEF RunInv

\* LEMMA: a run that is not touched.
LEMMA ToolSame ==
    ASSUME ToolInv, tool' = tool
    PROVE  ToolInv'
<1>1. tool.name # None => (Fragment(tool.log))' = Fragment(tool.log)
  BY DEF Fragment, Accepted, Credited, Suggestion
<1>2. NoteInv'
  BY <1>1 DEF ToolInv, NoteInv
<1>. QED BY <1>2 DEF ToolInv, HasFields

\* LEMMA: a run that reads: it has no name yet.
LEMMA ToolReads ==
    ASSUME ToolInv, tool.pc # "done", HasFields', tool'.flags \in Flags,
           IsListing(tool'.listing), IsLog(tool'.log),
           tool'.name = tool.name, tool'.fragment = tool.fragment
    PROVE  ToolInv'
<1>1. tool'.name = None
  BY DEF ToolInv, NoteInv
<1>2. NoteInv'
  BY <1>1 DEF NoteInv
<1>. QED BY <1>2 DEF ToolInv

\* LEMMA: a step that leaves rules.d/, what was merged and the log alone.
LEMMA HostSame ==
    ASSUME RunInv, ToolInv', rulesd' = rulesd, compiled' = compiled, log' = log
    PROVE  RunInv'
BY DEF RunInv

\* LEMMA: every step keeps the invariant.
LEMMA RunStep == RunInv /\ [Next]_vars => RunInv'
<1>. SUFFICES ASSUME RunInv, [Next]_vars PROVE RunInv'
  OBVIOUS
<1>0. ToolInv /\ HasFields /\ NoteInv /\ IsDir(rulesd)
  BY DEF RunInv, ToolInv
<1>1. ASSUME NEW name \in Names, NEW lines \in Contents, Edit(name, lines) PROVE RunInv'
  <2>1. IsDir(rulesd')
    <3>1. IsSeq(lines) /\ name \in String
      BY ContentsAssumption, NamesAssumption DEF IsSeq, String
    <3>. QED BY <1>0, <1>1, <3>1, DirChanges DEF Edit
  <2>2. compiled' = compiled /\ log' = log /\ tool' = tool
    BY <1>1 DEF Edit, Editing
  <2>. QED BY <1>0, <2>1, <2>2, ToolSame DEF RunInv
<1>2. ASSUME NEW name \in DOMAIN rulesd, Delete(name) PROVE RunInv'
  <2>1. IsDir(rulesd')
    BY <1>0, <1>2, DirChanges DEF Delete
  <2>2. compiled' = compiled /\ log' = log /\ tool' = tool
    BY <1>2 DEF Delete, Editing
  <2>. QED BY <1>0, <2>1, <2>2, ToolSame DEF RunInv
<1>3. ASSUME NEW lines, WriteLegacy(lines) PROVE RunInv'
  BY <1>0, <1>3, ToolSame, HostSame DEF WriteLegacy, Editing
<1>4. CASE Fagenrules
  <2>1. compiled'.files = Listing(compiled'.dir) /\ rulesd' = rulesd /\ log' = log /\ tool' = tool
    BY <1>4 DEF Fagenrules
  <2>2. (Listing(compiled.dir))' = Listing(compiled'.dir)
    BY DEF Listing
  <2>. QED BY <1>0, <2>1, <2>2, ToolSame DEF RunInv
<1>5. CASE Reload
  <2>1. IsLog(log') /\ rulesd' = rulesd /\ compiled' = compiled /\ tool' = tool
    BY <1>5 DEF Reload, IsLog, IsSeq, ToSet
  <2>. QED BY <1>0, <2>1, ToolSame DEF RunInv
<1>6. ASSUME NEW ev \in Tried, Deny(ev) PROVE RunInv'
  <2>1. PICK d : log' = Append(log, d) /\ d.event = ev
    <3>1. PICK d : d = [event |-> ev, n |-> FirstMatch(loaded, ev)]
      OBVIOUS
    <3>. QED BY <1>6, <3>1 DEF Deny
  <2>2. IsLog(log')
    <3>1. PICK S : S = ToSet(log) \cup {d}
      OBVIOUS
    <3>2. log \in Seq(S) /\ d \in S
      BY <3>1, SeqWider DEF RunInv, IsLog
    <3>3. /\ log' \in Seq(S) /\ DOMAIN log' = DOMAIN log \cup {Len(log) + 1}
          /\ \A i \in DOMAIN log : log'[i] = log[i]
          /\ log'[Len(log) + 1] = d
      BY <2>1, <3>2, Appended
    <3>4. \A i \in DOMAIN log' : log'[i].event \in Accesses
      BY <2>1, <3>3, TriedAssumption DEF RunInv, IsLog
    <3>5. IsSeq(log')
      BY <3>3, SeqSelf
    <3>. QED BY <3>4, <3>5 DEF IsLog
  <2>3. rulesd' = rulesd /\ compiled' = compiled /\ tool' = tool
    BY <1>6 DEF Deny
  <2>. QED BY <1>0, <2>2, <2>3, ToolSame DEF RunInv
<1>7. ASSUME NEW flags \in Flags, Usage(flags) PROVE RunInv'
  BY <1>7, Fresh, HostSame DEF Usage, host
<1>8. ASSUME NEW flags \in Flags, Start(flags) PROVE RunInv'
  <2>1. tool.pc = "idle" /\ UNCHANGED host
    BY <1>8 DEF Start
  <2>2. tool' = [tool EXCEPT !.pc = IF flags.noConf THEN "write" ELSE "legacy",
                             !.flags = flags, !.under = loaded, !.log = log]
    BY <1>8 DEF Start
  <2>3. /\ HasFields' /\ tool'.flags = flags /\ tool'.log = log /\ tool'.listing = tool.listing
        /\ tool'.name = tool.name /\ tool'.fragment = tool.fragment
    BY <1>0, <2>2 DEF HasFields, ToolFields
  <2>4. IsListing(tool'.listing) /\ IsLog(tool'.log)
    BY <2>3 DEF RunInv, ToolInv
  <2>5. ToolInv'
    BY <1>0, <2>1, <2>3, <2>4, ToolReads
  <2>. QED BY <2>1, <2>5, HostSame DEF host
<1>9. CASE StdinFails
  BY <1>9, Fresh, HostSame DEF StdinFails, host
<1>10. CASE ReadLegacy \/ LegacyFails \/ ReadCompiled \/ CompiledFails
  <2>1. tool.pc \in {"legacy", "compiled"} /\ UNCHANGED host
    BY <1>10 DEF ReadLegacy, LegacyFails, ReadCompiled, CompiledFails
  <2>2. tool.flags \in Flags /\ tool.pc # "done"
    BY <1>0, <2>1 DEF NoteInv
  <2>3. /\ HasFields' /\ tool'.flags = tool.flags /\ tool'.log = tool.log
        /\ tool'.listing = tool.listing /\ tool'.name = tool.name /\ tool'.fragment = tool.fragment
    <3>1. CASE ReadLegacy
      BY <1>0, <3>1 DEF ReadLegacy, HasFields, ToolFields
    <3>2. CASE LegacyFails
      BY <1>0, <3>2 DEF LegacyFails, HasFields, ToolFields
    <3>3. CASE ReadCompiled
      BY <1>0, <3>3 DEF ReadCompiled, HasFields, ToolFields
    <3>4. CASE CompiledFails
      BY <1>0, <3>4 DEF CompiledFails, HasFields, ToolFields
    <3>. QED BY <1>10, <3>1, <3>2, <3>3, <3>4
  <2>4. IsListing(tool'.listing) /\ IsLog(tool'.log)
    BY <2>3 DEF RunInv, ToolInv
  <2>5. ToolInv'
    BY <1>0, <2>2, <2>3, <2>4, ToolReads
  <2>. QED BY <2>1, <2>5, HostSame DEF host
<1>11. ASSUME NEW lost, ReadListing(lost) PROVE RunInv'
  <2>1. tool.pc = "listing" /\ UNCHANGED host
    BY <1>11 DEF ReadListing
  <2>2. tool.flags \in Flags /\ tool.pc # "done"
    BY <1>0, <2>1 DEF NoteInv
  <2>3. /\ HasFields' /\ tool'.flags = tool.flags /\ tool'.log = tool.log
        /\ tool'.listing = Listing(ReadRulesD(lost))
        /\ tool'.name = tool.name /\ tool'.fragment = tool.fragment
    BY <1>0, <1>11 DEF ReadListing, HasFields, ToolFields
  <2>4. IsListing(Listing(ReadRulesD(lost)))
    <3>1. IsDir(ReadRulesD(lost))
      BY <1>0, FS_Subset DEF IsDir, ReadRulesD
    <3>. QED BY <3>1, ListingIs
  <2>5. IsLog(tool'.log)
    BY <2>3 DEF RunInv, ToolInv
  <2>6. ToolInv'
    BY <1>0, <2>2, <2>3, <2>4, <2>5, ToolReads
  <2>. QED BY <2>1, <2>6, HostSame DEF host
<1>12. CASE Write
  <2>1. tool.pc = "write" /\ UNCHANGED host
    BY <1>12 DEF Write
  <2>2. PICK read : read = IF tool.flags.follow THEN log ELSE tool.log
    OBVIOUS
  <2>3. tool' = [tool EXCEPT !.pc = "done", !.exit = 0, !.log = read,
                             !.settled = @ /\ (tool.flags.follow => loaded = tool.under),
                             !.fragment = Fragment(read), !.name = Placement(read)]
    BY <1>12, <2>2 DEF Write
  <2>4. /\ HasFields' /\ tool'.pc = "done" /\ tool'.flags = tool.flags /\ tool'.rules = tool.rules
        /\ tool'.log = read /\ tool'.listing = tool.listing
        /\ tool'.fragment = Fragment(read) /\ tool'.name = Placement(read)
    BY <1>0, <2>3 DEF HasFields, ToolFields
  <2>5. IsLog(read) /\ IsListing(tool.listing)
    BY <2>2 DEF RunInv, ToolInv
  <2>6. tool.flags \in Flags
    BY <1>0, <2>1 DEF NoteInv
  <2>7. IsSeq(Fragment(read)) /\ IsName(Placement(read))
    BY <2>5, <2>6, FragmentIs, PlacementIs, FlagsAssumption
  <2>8. (Fragment(tool.log))' = Fragment(read)
    <3>1. ASSUME NEW d PROVE (Suggestion(d))' = Suggestion(d)
      BY <2>4 DEF Suggestion
    <3>2. (Credited(tool.log))' = Credited(read)
      BY <2>4, <3>1 DEF Credited
    <3>3. (Accepted(tool.log))' = Accepted(read)
      BY <2>4, <3>1, <3>2 DEF Accepted
    <3>. QED BY <2>4, <3>3 DEF Fragment
  <2>9. NoteInv'
    BY <2>4, <2>6, <2>8 DEF NoteInv
  <2>10. ToolInv'
    BY <2>4, <2>5, <2>7, <2>9 DEF ToolInv
  <2>. QED BY <2>1, <2>10, HostSame DEF host
<1>13. CASE WriteFails
  BY <1>13, Fresh, HostSame DEF WriteFails, host
<1>14. CASE Apply
  <2>1. IsDir(rulesd')
    <3>1. tool.name \in String /\ IsSeq(tool.fragment)
      BY <1>0, <1>14 DEF Apply, ToolInv, IsName
    <3>. QED BY <1>0, <1>14, <3>1, DirChanges DEF Apply
  <2>2. compiled' = compiled /\ log' = log /\ tool' = tool
    BY <1>14 DEF Apply
  <2>. QED BY <1>0, <2>1, <2>2, ToolSame DEF RunInv
<1>15. CASE UNCHANGED vars
  BY <1>0, <1>15, ToolSame, HostSame DEF vars
<1>. QED BY <1>1, <1>2, <1>3, <1>4, <1>5, <1>6, <1>7, <1>8, <1>9, <1>10, <1>11,
            <1>12, <1>13, <1>14, <1>15 DEF Next
--------------------------------------------------------------------------------
(* The theorems                                                            *)

\* LEMMA: the names that are compared are ordered.
LEMMA NamesOrdered == RunInv => TotalOrder
<1>. SUFFICES ASSUME RunInv, tool.name # None, tool.name \notin DOMAIN rulesd PROVE TotalOrder
  BY DEF TotalOrder
<1>. DEFINE names == {tool.listing[i].name : i \in DOMAIN tool.listing} \cup {tool.name}
            less == {p \in names \X names : Before(p[1], p[2])}
<1>1. names \subseteq String
  BY DEF RunInv, ToolInv, IsListing, IsName
<1>. HIDE DEF names
<1>2. \A a, b \in names : <<a, b>> \in less <=> Before(a, b)
  OBVIOUS
<1>3. \A p \in less : p[1] \in names /\ p[2] \in names /\ Before(p[1], p[2])
  OBVIOUS
<1>. HIDE DEF less
<1>4. \A a, b \in names : IF a = b THEN <<a, a>> \notin less
                          ELSE <<a, b>> \in less <=> <<b, a>> \notin less
  BY <1>1, <1>2, BeforeOrder
<1>5. \A p, q \in less : p[2] = q[1] => <<p[1], q[2]>> \in less
  <2>1. SUFFICES ASSUME NEW p \in less, NEW q \in less, p[2] = q[1] PROVE <<p[1], q[2]>> \in less
    OBVIOUS
  <2>2. /\ p[1] \in names /\ p[2] \in names /\ q[2] \in names
        /\ Before(p[1], p[2]) /\ Before(p[2], q[2])
    BY <1>3, <2>1
  <2>3. Before(p[1], q[2])
    BY <1>1, <2>2, BeforeOrder
  <2>. QED BY <1>2, <2>2, <2>3
<1>. QED BY <1>4, <1>5 DEF TotalOrder, names, less

\* LEMMA: the rules of the file applied are the fragment's.
LEMMA FragmentRules ==
    ASSUME RunInv, Applied, NEW n \in DOMAIN Flat(loaded), FileAt(n) = tool.name
    PROVE  \E k \in DOMAIN Fragment(tool.log) :
              Flat(loaded)[n] = RuleOf(Fragment(tool.log)[k].words)
<1>1. loaded = Listing(rulesd)
  BY DEF RunInv, Applied, InForce
<1>2. /\ IsFiles(loaded)
      /\ \A i \in DOMAIN loaded : loaded[i].rules = Parse(rulesd[loaded[i].name])
  BY <1>1, ListingIs DEF RunInv, IsListing
<1>3. PICK i \in DOMAIN loaded : /\ n \in Ahead(loaded, i) + 1 .. Ahead(loaded, i + 1)
                                 /\ loaded[i].name = tool.name
  BY <1>2, FileAtIs
<1>4. Flat(loaded)[n] \in ToSet(loaded[i].rules)
  BY <1>2, <1>3, RuleInFile
<1>5. PICK f : f = Fragment(tool.log) /\ loaded[i].rules = Parse(f) /\ IsSeq(f)
  BY <1>2, <1>3 DEF Applied, RunInv, ToolInv, NoteInv
<1>6. PICK k \in DOMAIN Parse(f) : Flat(loaded)[n] = Parse(f)[k]
  BY <1>4, <1>5 DEF ToSet
<1>7. PICK j \in DOMAIN f : Parse(f)[k] = RuleOf(f[j].words)
  BY <1>5, ParseIs
<1>. QED BY <1>5, <1>6, <1>7

\* LEMMA: what the fragment answers was denied, or is below what was.
LEMMA NotWider == PlainDirs /\ RunInv => NothingWider
<1>. SUFFICES ASSUME PlainDirs, RunInv, Applied, NEW ev \in Accesses,
                     FirstMatch(loaded, ev) # 0, FileAt(FirstMatch(loaded, ev)) = tool.name
              PROVE  \/ \E i \in DOMAIN tool.log : Denies(tool.log[i], ev)
                     \/ BelowDenied(tool.log, ev)
  BY Zenon DEF NothingWider, BelowDenied, LikeDenied
<1>1. PICK read : read = tool.log
  OBVIOUS
<1>2. IsLog(read) /\ tool.flags \in Flags
  BY <1>1 DEF RunInv, ToolInv, NoteInv, Applied
<1>3. tool.flags.dirMin = None \/ tool.flags.dirMin \in Nat
  BY <1>2, FlagsAssumption
<1>4. IsFiles(loaded)
  <2>1. loaded = Listing(rulesd)
    BY DEF RunInv, Applied, InForce
  <2>. QED BY <2>1, ListingIs DEF RunInv, IsListing
<1>5. PICK n : n = FirstMatch(loaded, ev)
  OBVIOUS
<1>6. n \in DOMAIN Flat(loaded) /\ Fires(Flat(loaded)[n], ev, Defined(loaded))
  BY <1>4, <1>5, FirstMatchIs
<1>7. PICK k \in DOMAIN Fragment(read) : Flat(loaded)[n] = RuleOf(Fragment(read)[k].words)
  BY <1>1, <1>5, <1>6, FragmentRules
<1>8. PICK line : line = Fragment(read)[k] /\ Fires(RuleOf(line.words), ev, Defined(loaded))
  BY <1>6, <1>7
<1>9. PICK i \in Credited(read) : line = Render(Suggestion(read[i])) \/ DirFor(line, read, i)
  BY <1>2, <1>3, <1>8, FragmentIs
<1>10. CASE line = Render(Suggestion(read[i]))
  <2>1. i \in DOMAIN read
    BY <1>2, CreditedIs
  <2>. QED BY <1>1, <1>2, <1>8, <1>10, <2>1, RuleAnswers
<1>11. CASE DirFor(line, read, i)
  <2>1. tool.flags.dirMin \in Nat
    BY <1>3, <1>11 DEF DirFor
  <2>. QED BY <1>1, <1>2, <1>8, <1>11, <2>1, DirAnswers
<1>. QED BY <1>9, <1>10, <1>11

\* THEOREM: the order that fagenrules sorts the names of the listing in, the
\* recommended one among them, is one order, whatever the names are.
THEOREM NamesInOrder == Spec => []TotalOrder
BY RunInit, RunStep, NamesOrdered, PTL DEF Spec

\* THEOREM: once the fragment is applied and loaded, the accesses it answers
\* are those that were denied, or below the directory of enough of them; on a
\* host whose directories hold no comma.
THEOREM NothingWiderHolds ==
    ASSUME PlainDirs
    PROVE  Spec => []NothingWider
<1>1. RunInv => NothingWider
  BY NotWider
<1>. QED BY <1>1, RunInit, RunStep, PTL DEF Spec
--------------------------------------------------------------------------------
(* The sets of a listing                                                   *)

\* LEMMA: the definitions of a listing are a sequence.
LEMMA DefinedIs ==
    ASSUME NEW files, IsSeq(files), \A i \in DOMAIN files : IsSeq(files[i].sets)
    PROVE  IsSeq(Defined(files))
<1>. DEFINE def(i, j) == [name |-> files[i].sets[j].name, members |-> files[i].sets[j].members,
                          place |-> Ahead(files, i) + files[i].sets[j].before]
            ss == [i \in DOMAIN files |-> [j \in DOMAIN files[i].sets |-> def(i, j)]]
<1>1. PICK n \in Nat : n = Len(files) /\ DOMAIN files = 1..n
  BY SeqAt
<1>2. PICK S : S = UNION {{def(i, j) : j \in DOMAIN files[i].sets} : i \in 1..n}
  OBVIOUS
<1>3. Defined(files) = FlattenSeq(ss)
  BY DEF Defined
<1>. HIDE DEF def
<1>4. ASSUME NEW i \in 1..n PROVE ss[i] \in Seq(S)
  <2>1. PICK m \in Nat : DOMAIN files[i].sets = 1..m
    BY <1>1, SeqAt
  <2>2. \A j \in 1..m : def(i, j) \in S
    BY <1>2, <2>1
  <2>. QED BY <1>1, <2>1, <2>2
<1>5. ss \in Seq(Seq(S))
  BY <1>1, <1>4
<1>. HIDE DEF ss
<1>6. FlattenSeq(ss) \in Seq(S)
  BY <1>5, FlattenSources
<1>. QED BY <1>3, <1>6, SeqSelf

\* LEMMA: so are those of one name.
LEMMA NamedIs ==
    ASSUME NEW defs, IsSeq(defs), NEW name
    PROVE  IsSeq(Named(defs, name))
<1>1. PICK G : G = {i \in DOMAIN defs : defs[i].name = name}
  OBVIOUS
<1>2. PICK ss : ss = Those(defs, G, defs)
  OBVIOUS
<1>3. ss = [i \in DOMAIN defs |-> IF defs[i].name = name THEN <<defs[i]>> ELSE << >>]
  BY <1>1, <1>2 DEF Those
<1>4. IsSeq(FlattenSeq(ss))
  BY <1>2, PickedLines
<1>. QED BY <1>3, <1>4 DEF Named

\* LEMMA: a name whose definitions are the same means the same.
LEMMA SameMeaning ==
    ASSUME NEW files, NEW old, IsSeq(Defined(files)), IsSeq(old), ChangedSets(files, old) = {}, NEW t
    PROVE  Expand(t, Defined(files)) = Expand(t, old)
<1>1. CASE t \notin SetNames
  BY <1>1 DEF Expand
<1>2. CASE t \in SetNames
  <2>1. PICK mine : mine = Named(Defined(files), t)
    OBVIOUS
  <2>2. PICK theirs : theirs = Named(old, t)
    OBVIOUS
  <2>3. IsSeq(mine) /\ IsSeq(theirs)
    BY <2>1, <2>2, NamedIs
  <2>4. PICK m \in Nat : m = Len(mine) /\ DOMAIN mine = 1..m
    BY <2>3, SeqAt
  <2>5. PICK n \in Nat : n = Len(theirs) /\ DOMAIN theirs = 1..n
    BY <2>3, SeqAt
  <2>6. [i \in DOMAIN mine |-> mine[i].members] = [i \in DOMAIN theirs |-> theirs[i].members]
    BY <1>2, <2>1, <2>2 DEF ChangedSets
  <2>7. DOMAIN mine = DOMAIN theirs
    BY <2>6
  <2>8. m = n
    BY <2>4, <2>5, <2>7
  <2>9. (mine = << >> <=> m = 0) /\ (theirs = << >> <=> n = 0)
    BY <2>3, <2>4, <2>5 DEF IsSeq
  <2>10. m # 0 => mine[1].members = theirs[1].members
    <3>1. m # 0 => 1 \in DOMAIN mine
      BY <2>4
    <3>. QED BY <2>6, <2>7, <3>1
  <2>. QED BY <1>2, <2>1, <2>2, <2>8, <2>9, <2>10 DEF Expand
<1>. QED BY <1>1, <1>2

\* LEMMA: a rule fires on what it fired on where no definition changed.
LEMMA SameRule ==
    ASSUME NEW files, NEW old, IsSeq(Defined(files)), IsSeq(old), ChangedSets(files, old) = {},
           NEW r, NEW ev
    PROVE  Fires(r, ev, Defined(files)) <=> Fires(r, ev, old)
<1>1. ASSUME NEW a PROVE Holds(a, ev, Defined(files)) <=> Holds(a, ev, old)
  <2>1. {Expand(t, Defined(files)) : t \in a.tokens} = {Expand(t, old) : t \in a.tokens}
    BY SameMeaning
  <2>2. PICK U : U = UNION {Expand(t, old) : t \in a.tokens}
    OBVIOUS
  <2>3. UNION {Expand(t, Defined(files)) : t \in a.tokens} = U
    BY <2>1, <2>2
  <2>. QED BY <2>2, <2>3 DEF Holds
<1>. QED BY <1>1 DEF Fires

\* LEMMA: the rules of a file come ahead of those of the next ones.
LEMMA AheadOrder ==
    ASSUME NEW files, IsFiles(files), NEW i \in DOMAIN files, NEW j \in DOMAIN files, i < j
    PROVE  Ahead(files, i + 1) <= Ahead(files, j)
<1>1. PICK n \in Nat : n = Len(files) /\ DOMAIN files = 1..n
  BY SeqAt DEF IsFiles
<1>2. PICK a : a = [m \in 0..n |-> Ahead(files, m + 1)]
  OBVIOUS
<1>3. ASSUME NEW m \in 1..n
      PROVE  /\ a[m] \in Nat /\ a[m - 1] \in Nat /\ a[m - 1] <= a[m]
             /\ a[m - 1] = Ahead(files, m) /\ a[m] = Ahead(files, m + 1)
  <2>1. a[m - 1] = Ahead(files, m) /\ a[m] = Ahead(files, m + 1)
    <3>1. m \in 0..n /\ m - 1 \in 0..n /\ (m - 1) + 1 = m
      BY <1>1
    <3>. QED BY <1>2, <3>1
  <2>2. Ahead(files, m) \in Nat /\ Ahead(files, m + 1) = Ahead(files, m) + Len(files[m].rules)
    BY <1>1, MergedIs
  <2>3. Len(files[m].rules) \in Nat
    BY <1>1, SeqAt DEF IsFiles
  <2>. QED BY <2>1, <2>2, <2>3
<1>4. \A m \in 0..n : a[m] \in Nat
  <2>1. a[1 - 1] \in Nat /\ 1 - 1 = 0
    <3>1. 1 \in 1..n
      BY <1>1
    <3>. QED BY <1>3, <3>1
  <2>2. \A m \in 0..n : m = 0 \/ m \in 1..n
    OBVIOUS
  <2>. QED BY <1>3, <2>1, <2>2
<1>5. \A m \in 1..n : a[m - 1] <= a[m]
  BY <1>3
<1>6. \A m, k \in 0..n : m <= k => a[m] <= a[k]
  BY <1>4, <1>5, Ascending
<1>7. i \in 0..n /\ j - 1 \in 0..n /\ i <= j - 1 /\ j \in 1..n /\ i \in 1..n
  BY <1>1
<1>. QED BY <1>3, <1>6, <1>7
--------------------------------------------------------------------------------
(* What a settled run read                                                 *)

\* Each denial is numbered with the rule that denied.
Denials(read, files) ==
    \A i \in DOMAIN read : read[i].n # 0 /\ read[i].n = FirstMatch(files, read[i].event)

\* rules.d/ was merged into what the daemon enforced when the log was taken.
Merged(dir, under) == IsDir(dir) /\ under = Listing(dir)

\* While every read finds the rules of the log, the numbers in the log are
\* those of the listing.  That fapolicyd.rules was not there when it was tried
\* says that they are rules.d/'s; and rules of fapolicyd.rules, which have no
\* file name, cannot pass for them at a later read.
SettledInv ==
    /\ tool.pc \in {"idle", "legacy", "compiled", "listing"} => tool.listing = << >>
    /\ tool.name # None => tool.name = Placement(tool.log)
    /\ tool.settled =>
         /\ Denials(tool.log, tool.under)
         /\ tool.pc \in {"compiled", "listing"} => \E dir : Merged(dir, tool.under)
         /\ tool.listing # << >> => Merged(tool.base, tool.under)

AdviceInv == IsDir(compiled.dir) /\ Denials(log, loaded) /\ SettledInv

\* LEMMA: a log one longer.
LEMMA OneDenial ==
    ASSUME IsLog(log), Denials(log, loaded), NEW ev \in Tried, Deny(ev)
    PROVE  Denials(log', loaded')
<1>1. PICK d : d = [event |-> ev, n |-> FirstMatch(loaded, ev)]
  OBVIOUS
<1>2. log' = Append(log, d) /\ d.n # 0 /\ loaded' = loaded
  BY <1>1 DEF Deny
<1>3. PICK S : S = ToSet(log) \cup {d}
  OBVIOUS
<1>4. log \in Seq(S) /\ d \in S
  BY <1>3, SeqWider DEF IsLog
<1>5. /\ DOMAIN log' = DOMAIN log \cup {Len(log) + 1}
      /\ \A i \in DOMAIN log : log'[i] = log[i]
      /\ log'[Len(log) + 1] = d
  BY <1>2, <1>4, Appended
<1>6. d.n = FirstMatch(loaded, d.event)
  BY <1>1
<1>7. ASSUME NEW i \in DOMAIN log'
      PROVE  log'[i].n # 0 /\ log'[i].n = FirstMatch(loaded, log'[i].event)
  BY <1>2, <1>5, <1>6, <1>7 DEF Denials
<1>. QED BY <1>2, <1>7 DEF Denials

\* LEMMA: rules that are a listing's are not fapolicyd.rules'.
LEMMA NotLegacy ==
    ASSUME NEW dir, IsDir(dir), InForce = Listing(dir)
    PROVE  legacy = None /\ InForce = compiled.files
<1>1. SUFFICES ASSUME legacy # None PROVE FALSE
  BY DEF InForce
<1>2. PICK file : file = FileOf(None, legacy)
  OBVIOUS
<1>3. file.name = None /\ Listing(dir) = <<file>>
  BY <1>1, <1>2 DEF InForce, FileOf
<1>4. \A i \in DOMAIN Listing(dir) : Listing(dir)[i].name \in String
  BY ListingIs DEF IsListing
<1>5. 1 \in DOMAIN <<file>> /\ <<file>>[1] = file
  OBVIOUS
<1>6. None \in String
  BY <1>3, <1>4, <1>5
<1>. QED BY <1>6, NamesAssumption DEF String

\* LEMMA: a process that has only started, and one that is gone.
LEMMA FreshSettled ==
    /\ tool = NotStarted => SettledInv
    /\ \A code : Exits(code) => SettledInv'
<1>1. tool = NotStarted => SettledInv
  BY DEF NotStarted, SettledInv, Denials
<1>2. ASSUME NEW code, Exits(code) PROVE SettledInv'
  <2>1. tool' = [NotStarted EXCEPT !.pc = "done", !.exit = code]
    BY <1>2 DEF Exits
  <2>2. tool'.pc = "done" /\ tool'.listing = << >> /\ tool'.name = None /\ tool'.log = << >>
    BY <2>1 DEF NotStarted
  <2>. QED BY <2>2 DEF SettledInv, Denials
<1>. QED BY <1>1, <1>2

\* LEMMA: a run that is not touched.
LEMMA SettledSame ==
    ASSUME SettledInv, tool' = tool
    PROVE  SettledInv'
<1>1. (Placement(tool.log))' = Placement(tool.log)
  BY DEF Placement, Credited, Suggestion
<1>. QED BY <1>1 DEF SettledInv, Denials
\* LEMMA: a run that has tried fapolicyd.rules, and has no listing yet.
LEMMA SettledReads ==
    ASSUME SettledInv, tool.listing = << >>, tool.name = None,
           tool'.listing = tool.listing, tool'.name = tool.name,
           tool'.log = tool.log, tool'.under = tool.under, tool'.settled => tool.settled,
           tool'.pc \in {"compiled", "listing"} /\ tool'.settled => \E dir : Merged(dir, tool.under)
    PROVE  SettledInv'
BY DEF SettledInv, Denials, Merged

\* LEMMA: every step of the run keeps what it read.
LEMMA SettledTool ==
    ASSUME RunInv, AdviceInv, UNCHANGED host, tool.pc # "done",
           \/ \E flags \in Flags : Start(flags)
           \/ ReadLegacy \/ LegacyFails \/ ReadCompiled \/ CompiledFails
           \/ \E lost : ReadListing(lost)
           \/ Write
    PROVE  SettledInv'
<1>1. /\ SettledInv /\ HasFields /\ tool.name = None
      /\ IsDir(compiled.dir) /\ compiled.files = Listing(compiled.dir)
      /\ Denials(log, loaded)
  BY DEF AdviceInv, RunInv, ToolInv, NoteInv
<1>2. ASSUME NEW flags \in Flags, Start(flags) PROVE SettledInv'
  <2>1. tool.pc = "idle" /\ tool.listing = << >>
    BY <1>1, <1>2 DEF Start, SettledInv
  <2>2. tool' = [tool EXCEPT !.pc = IF flags.noConf THEN "write" ELSE "legacy",
                             !.flags = flags, !.under = loaded, !.log = log]
    BY <1>2 DEF Start
  <2>3. /\ tool'.pc \in {"write", "legacy"} /\ tool'.listing = tool.listing /\ tool'.name = None
        /\ tool'.log = log /\ tool'.under = loaded
    BY <1>1, <2>2 DEF HasFields, ToolFields
  <2>. QED BY <1>1, <2>1, <2>3 DEF SettledInv, Denials
<1>3. CASE ReadLegacy
  <2>1. tool.pc = "legacy" /\ tool.listing = << >>
    BY <1>1, <1>3 DEF ReadLegacy, SettledInv
  <2>2. /\ tool'.pc = "write" /\ tool'.listing = tool.listing /\ tool'.name = tool.name
        /\ tool'.log = tool.log /\ tool'.under = tool.under /\ (tool'.settled => tool.settled)
    BY <1>1, <1>3 DEF ReadLegacy, HasFields, ToolFields
  <2>. QED BY <1>1, <2>1, <2>2, SettledReads
<1>4. CASE LegacyFails
  <2>1. tool.pc = "legacy" /\ tool.listing = << >>
    BY <1>1, <1>4 DEF LegacyFails, SettledInv
  <2>2. /\ tool'.pc = "compiled" /\ tool'.listing = tool.listing /\ tool'.name = tool.name
        /\ tool'.log = tool.log /\ tool'.under = tool.under /\ (tool'.settled => tool.settled)
        /\ tool'.settled => legacy = None /\ InForce = tool.under
    BY <1>1, <1>4 DEF LegacyFails, HasFields, ToolFields
  <2>3. tool'.settled => Merged(compiled.dir, tool.under)
    BY <1>1, <2>2 DEF Merged, InForce
  <2>. QED BY <1>1, <2>1, <2>2, <2>3, SettledReads
<1>5. CASE ReadCompiled
  <2>1. tool.pc = "compiled" /\ tool.listing = << >>
    BY <1>1, <1>5 DEF ReadCompiled, SettledInv
  <2>2. /\ tool'.listing = tool.listing /\ tool'.name = tool.name
        /\ tool'.log = tool.log /\ tool'.under = tool.under /\ (tool'.settled => tool.settled)
    BY <1>1, <1>5 DEF ReadCompiled, HasFields, ToolFields
  <2>3. tool.settled => \E dir : Merged(dir, tool.under)
    BY <1>1, <2>1 DEF SettledInv
  <2>. QED BY <1>1, <2>1, <2>2, <2>3, SettledReads
<1>6. CASE CompiledFails
  <2>1. tool.pc = "compiled" /\ tool.listing = << >>
    BY <1>1, <1>6 DEF CompiledFails, SettledInv
  <2>2. /\ tool'.pc = "write" /\ tool'.listing = tool.listing /\ tool'.name = tool.name
        /\ tool'.log = tool.log /\ tool'.under = tool.under /\ (tool'.settled => tool.settled)
    BY <1>1, <1>6 DEF CompiledFails, HasFields, ToolFields
  <2>. QED BY <1>1, <2>1, <2>2, SettledReads
<1>7. ASSUME NEW lost, ReadListing(lost) PROVE SettledInv'
  <2>1. tool.pc = "listing"
    BY <1>7 DEF ReadListing
  <2>2. /\ tool'.pc = "write" /\ tool'.base = compiled.dir /\ tool'.name = None
        /\ tool'.log = tool.log /\ tool'.under = tool.under
    BY <1>1, <1>7 DEF ReadListing, HasFields, ToolFields
  <2>3. tool'.settled => tool.settled /\ InForce = tool.under
    BY <1>1, <1>7 DEF ReadListing, HasFields, ToolFields
  <2>4. ASSUME tool'.settled PROVE Merged(compiled.dir, tool.under)
    <3>1. PICK dir : IsDir(dir) /\ tool.under = Listing(dir)
      BY <1>1, <2>1, <2>3, <2>4 DEF SettledInv, Merged
    <3>2. InForce = compiled.files
      BY <2>3, <2>4, <3>1, NotLegacy
    <3>. QED BY <1>1, <2>3, <2>4, <3>2 DEF Merged
  <2>5. tool'.settled => Denials(tool.log, tool.under)
    BY <1>1, <2>3 DEF SettledInv
  <2>6. (Merged(tool.base, tool.under))' <=> Merged(compiled.dir, tool.under)
    BY <2>2 DEF Merged, Listing, IsDir
  <2>7. (Denials(tool.log, tool.under))' <=> Denials(tool.log, tool.under)
    BY <2>2 DEF Denials
  <2>. QED BY <2>2, <2>4, <2>5, <2>6, <2>7 DEF SettledInv
<1>8. CASE Write
  <2>1. PICK read : read = IF tool.flags.follow THEN log ELSE tool.log
    OBVIOUS
  <2>2. tool' = [tool EXCEPT !.pc = "done", !.exit = 0, !.log = read,
                             !.settled = @ /\ (tool.flags.follow => loaded = tool.under),
                             !.fragment = Fragment(read), !.name = Placement(read)]
    BY <1>8, <2>1 DEF Write
  <2>3. /\ tool'.pc = "done" /\ tool'.flags = tool.flags /\ tool'.rules = tool.rules
        /\ tool'.log = read /\ tool'.under = tool.under /\ tool'.listing = tool.listing
        /\ tool'.base = tool.base /\ tool'.name = Placement(read)
    BY <1>1, <2>2 DEF HasFields, ToolFields
  <2>4. tool'.settled => tool.settled /\ (tool.flags.follow => loaded = tool.under)
    BY <1>1, <2>2 DEF HasFields, ToolFields
  <2>5. tool'.settled => Denials(read, tool.under)
    BY <1>1, <2>1, <2>4 DEF SettledInv
  <2>6. (Placement(tool.log))' = Placement(read)
    <3>1. ASSUME NEW d PROVE (Suggestion(d))' = Suggestion(d)
      BY <2>3 DEF Suggestion
    <3>2. (Credited(tool.log))' = Credited(read)
      BY <2>3, <3>1 DEF Credited
    <3>. QED BY <2>3, <3>2 DEF Placement
  <2>7. (Denials(tool.log, tool.under))' <=> Denials(read, tool.under)
    BY <2>3 DEF Denials
  <2>8. (Merged(tool.base, tool.under))' <=> Merged(tool.base, tool.under)
    BY <2>3 DEF Merged, Listing, IsDir
  <2>9. tool.settled /\ tool.listing # << >> => Merged(tool.base, tool.under)
    BY <1>1 DEF SettledInv
  <2>. QED BY <2>3, <2>4, <2>5, <2>6, <2>7, <2>8, <2>9 DEF SettledInv
<1>. QED BY <1>2, <1>3, <1>4, <1>5, <1>6, <1>7, <1>8

\* LEMMA: every step keeps the invariant.
LEMMA AdviceStep == RunInv /\ AdviceInv /\ [Next]_vars => AdviceInv'
<1>. SUFFICES ASSUME RunInv, AdviceInv, [Next]_vars PROVE AdviceInv'
  OBVIOUS
<1>1. SettledInv /\ IsDir(compiled.dir) /\ Denials(log, loaded) /\ IsDir(rulesd) /\ IsLog(log)
  BY DEF AdviceInv, RunInv
<1>2. ASSUME SettledInv', compiled' = compiled, loaded' = loaded, log' = log PROVE AdviceInv'
  BY <1>1, <1>2 DEF AdviceInv, IsDir, Denials
<1>3. CASE \/ \E name, lines : Edit(name, lines)
           \/ \E name : Delete(name)
           \/ \E lines : WriteLegacy(lines)
           \/ Apply \/ UNCHANGED vars
  <2>1. compiled' = compiled /\ loaded' = loaded /\ log' = log /\ tool' = tool
    BY <1>3 DEF Edit, Delete, WriteLegacy, Editing, Apply, vars
  <2>. QED BY <1>1, <1>2, <2>1, SettledSame
<1>4. CASE Fagenrules
  <2>1. compiled'.dir = rulesd /\ loaded' = loaded /\ log' = log /\ tool' = tool
    BY <1>4 DEF Fagenrules
  <2>2. SettledInv'
    BY <1>1, <2>1, SettledSame
  <2>. QED BY <1>1, <2>1, <2>2 DEF AdviceInv, IsDir, Denials
<1>5. CASE Reload
  <2>1. log' = << >> /\ compiled' = compiled /\ tool' = tool
    BY <1>5 DEF Reload
  <2>2. SettledInv'
    BY <1>1, <2>1, SettledSame
  <2>. QED BY <1>1, <2>1, <2>2 DEF AdviceInv, IsDir, Denials
<1>6. ASSUME NEW ev \in Tried, Deny(ev) PROVE AdviceInv'
  <2>1. compiled' = compiled /\ tool' = tool
    BY <1>6 DEF Deny
  <2>2. SettledInv'
    BY <1>1, <2>1, SettledSame
  <2>3. Denials(log', loaded')
    BY <1>1, <1>6, OneDenial
  <2>. QED BY <1>1, <2>1, <2>2, <2>3 DEF AdviceInv, IsDir, Denials
<1>7. CASE (\E flags : Usage(flags)) \/ StdinFails \/ WriteFails
  <2>1. UNCHANGED host /\ \E code : Exits(code)
    BY <1>7 DEF Usage, StdinFails, WriteFails
  <2>. QED BY <1>2, <2>1, FreshSettled DEF host
<1>8. CASE \/ \E flags \in Flags : Start(flags)
           \/ ReadLegacy \/ LegacyFails \/ ReadCompiled \/ CompiledFails
           \/ \E lost : ReadListing(lost)
           \/ Write
  <2>1. UNCHANGED host /\ tool.pc # "done"
    BY <1>8 DEF Start, ReadLegacy, LegacyFails, ReadCompiled, CompiledFails, ReadListing, Write
  <2>2. SettledInv'
    BY <1>8, <2>1, SettledTool
  <2>. QED BY <1>2, <2>1, <2>2 DEF host
<1>. QED BY <1>3, <1>4, <1>5, <1>6, <1>7, <1>8 DEF Next

\* LEMMA: the invariant holds at the start.
LEMMA AdviceInit == Init /\ RunInv => AdviceInv
<1>. SUFFICES ASSUME Init, RunInv PROVE AdviceInv
  OBVIOUS
<1>1. IsDir(compiled.dir)
  BY DEF Init, RunInv
<1>2. Denials(log, loaded)
  BY DEF Init, Denials
<1>. QED BY <1>1, <1>2, FreshSettled DEF Init, AdviceInv
--------------------------------------------------------------------------------
(* The advice taken                                                        *)

\* And the daemon compares no path with a prefix that it would not cover for
\* the way it is escaped.
PlainHost == PlainDirs /\ \A ev \in Accesses : ev.path \in Escaped => ev.spelt

\* LEMMA: the line that covers a denial is a rule that fires on its access.
LEMMA LineFires ==
    ASSUME PlainHost, NEW read, IsLog(read), NEW i \in Credited(read),
           NEW line, Covered(line, read, i), NEW defs
    PROVE  line.kind = "rule" /\ Fires(RuleOf(line.words), read[i].event, defs)
<1>1. PICK system : system = tool.flags.dirSystem
  OBVIOUS
<1>2. PICK s : s = Suggestion(read[i])
  OBVIOUS
<1>3. PICK own \in Accesses : own = read[i].event /\ RuleOn(s, own)
  BY <1>2, CreditedIs
<1>4. Writable(s) /\ s.kind = "rule" /\ s.perm = own.perm /\ s.path = own.path
  BY <1>3, RuleWritable
<1>5. s.exe = None \/ own.exe = s.exe
  BY <1>3 DEF RuleOn
<1>6. CASE line = Render(s)
  <2>1. s.kind # "dir"
    BY <1>4
  <2>2. Fires(RuleOf(Render(s).words), own, defs)
    BY <1>4, <1>5, <2>1, WrittenFires
  <2>3. Render(s).kind = "rule"
    BY DEF Render
  <2>. QED BY <1>3, <1>6, <2>2, <2>3
<1>7. CASE line # Render(s)
  <2>1. PICK d : d = DirOf(own.path, system)
    OBVIOUS
  <2>2. GroupKey(s, system) # None /\ \E paths : line = Render(DirRule(s.perm, s.exe, d, paths))
    BY <1>1, <1>2, <1>4, <1>7, <2>1 DEF Covered
  <2>3. PICK paths : line = Render(DirRule(s.perm, s.exe, d, paths))
    BY <2>2
  <2>4. d # None
    BY <1>4, <2>1, <2>2 DEF GroupKey
  <2>5. PICK r : r = DirRule(s.perm, s.exe, d, paths)
    OBVIOUS
  <2>6. Writable(r)
    BY <1>3, <2>1, <2>4, <2>5, DirWritable DEF PlainHost, PlainDirs
  <2>7. r.kind = "dir" /\ r.perm = s.perm /\ r.exe = s.exe /\ r.path = d
    BY <2>5 DEF DirRule
  <2>8. own.path \in Under[d]
    <3>1. IsPath(own.path)
      BY AccessAssumption DEF IsPath
    <3>2. Under[d] = {v \in DOMAIN Spelling : IsPrefix(Parent(own.path), Spelling[v])}
      BY <2>1, <2>4, DirIs
    <3>3. PICK p \in Seq(Nat) : /\ p = Parent(own.path) /\ Len(p) <= Len(Spelling[own.path])
                                /\ p = SubSeq(Spelling[own.path], 1, Len(p))
      BY <2>1, <2>4, <3>1, ParentIs
    <3>4. SubSeq(p, 1, Len(p)) = p
      OBVIOUS
    <3>5. IsPrefix(p, Spelling[own.path])
      BY <3>3, <3>4 DEF IsPrefix
    <3>. QED BY <3>1, <3>2, <3>3, <3>5 DEF IsPath
  <2>9. own.path \in Escaped => own.spelt
    BY DEF PlainHost
  <2>10. Fires(RuleOf(Render(r).words), own, defs)
    BY <1>4, <1>5, <2>6, <2>7, <2>8, <2>9, WrittenFires
  <2>11. Render(r).kind = "rule"
    BY DEF Render
  <2>. QED BY <1>3, <2>3, <2>5, <2>10, <2>11
<1>. QED BY <1>6, <1>7

\* LEMMA: a rule of the file applied fires on the access of each denial that a
\* rule was written for.
LEMMA FragmentFires ==
    ASSUME PlainHost, RunInv, tool.name # None, NEW i \in Credited(tool.log), NEW defs
    PROVE  \E k \in DOMAIN Parse(tool.fragment) :
              Fires(Parse(tool.fragment)[k], tool.log[i].event, defs)
<1>1. PICK read : read = tool.log
  OBVIOUS
<1>2. IsLog(read) /\ tool.flags \in Flags /\ tool.fragment = Fragment(read)
  BY <1>1 DEF RunInv, ToolInv, NoteInv
<1>3. tool.flags.dirMin = None \/ tool.flags.dirMin \in Nat
  BY <1>2, FlagsAssumption
<1>4. PICK f : f = Fragment(read) /\ IsSeq(f)
  BY <1>2, <1>3, FragmentIs
<1>5. PICK j \in DOMAIN f : Covered(f[j], read, i)
  BY <1>1, <1>2, <1>3, <1>4, FragmentIs
<1>6. f[j].kind = "rule" /\ Fires(RuleOf(f[j].words), read[i].event, defs)
  BY <1>1, <1>2, <1>5, LineFires
<1>7. PICK k \in DOMAIN Parse(f) : Parse(f)[k] = RuleOf(f[j].words)
  BY <1>4, <1>6, ParseIs
<1>. QED BY <1>1, <1>2, <1>4, <1>6, <1>7

\* LEMMA: a name that is merged holds a byte.
LEMMA MergedName ==
    ASSUME NEW name, IsMerged(name)
    PROVE  name # << >>
<1>1. Len(Reverse(RulesSuffix)) = 6 /\ Len(Reverse(<< >>)) = 0
  BY DEF RulesSuffix, Reverse
<1>2. Len(Reverse(RulesSuffix)) <= Len(Reverse(name))
  BY DEF IsMerged, IsSuffix, IsPrefix
<1>. QED BY <1>1, <1>2

\* LEMMA: the name recommended sorts ahead of every file that denied.
LEMMA NameAhead ==
    ASSUME RunInv, AdviceInv, tool.name # None, IsDir(tool.base), tool.listing = Listing(tool.base),
           \A j \in DOMAIN tool.listing : tool.listing[j].name[1] # Tilde,
           NEW i \in Credited(tool.log)
    PROVE  /\ IsMerged(tool.name) /\ tool.name \in String
           /\ \E w \in DOMAIN tool.listing :
                 /\ tool.log[i].n \in Ahead(tool.listing, w) + 1 .. Ahead(tool.listing, w + 1)
                 /\ Before(tool.name, tool.listing[w].name)
<1>1. PICK files : files = tool.listing
  OBVIOUS
<1>2. PICK names : names = [j \in DOMAIN files |-> files[j].name]
  OBVIOUS
<1>3. PICK at : at = {Locate(files, tool.rules, tool.log[j].n) : j \in Credited(tool.log)}
  OBVIOUS
<1>4. tool.name = Placement(tool.log)
  BY DEF AdviceInv, SettledInv
<1>5. at # {} /\ 0 \notin at /\ tool.name = Recommend(names, Smallest(at))
  BY <1>1, <1>2, <1>3, <1>4, Zenon DEF Placement
<1>6. IsSeq(files) /\ \A j \in DOMAIN files : files[j].name \in String
  BY <1>1 DEF RunInv, ToolInv, IsListing, IsFiles
<1>7. names \in Seq(String) /\ DOMAIN names = DOMAIN files /\ DOMAIN names \subseteq Nat
  BY <1>2, <1>6, SeqAt
<1>8. at \subseteq DOMAIN files
  BY <1>3, <1>5, <1>6, LocateIs
<1>9. PICK m : m = Smallest(at) /\ m \in DOMAIN files /\ \A w \in at : m <= w
  BY <1>5, <1>7, <1>8, SmallestIs
<1>10. names[m] = files[m].name /\ names[m] # << >> /\ names[m][1] # Tilde /\ names[m] \in String
  <2>1. files[m].name # << >>
    BY <1>1, <1>9, ListingIs, MergedName
  <2>. QED BY <1>1, <1>2, <1>6, <1>9, <2>1
<1>11. /\ tool.name \in String /\ IsMerged(tool.name)
       /\ Before(tool.name, names[m])
  BY <1>5, <1>7, <1>9, <1>10, RecommendIsAhead
<1>12. PICK w : w = Locate(files, tool.rules, tool.log[i].n) /\ w \in at
  BY <1>3
<1>13. w \in DOMAIN files /\ tool.log[i].n \in Ahead(files, w) + 1 .. Ahead(files, w + 1)
  BY <1>5, <1>6, <1>12, LocateIs
<1>14. Before(tool.name, files[w].name)
  <2>1. CASE m = w
    BY <1>10, <1>11, <2>1
  <2>2. CASE m # w
    <3>1. m < w
      BY <1>7, <1>9, <1>12, <1>13, <2>2
    <3>2. Before(files[m].name, files[w].name)
      BY <1>1, <1>9, <1>13, <3>1, ListingIs
    <3>. QED BY <1>6, <1>9, <1>10, <1>11, <1>13, <3>2, BeforeOrder
  <2>. QED BY <2>1, <2>2
<1>. QED BY <1>1, <1>11, <1>13, <1>14
\* The run's own reads agree: the listing is what was merged; no file it names
\* sorts ahead of every number (rules_d.rs, recommend); and the sets of the
\* rules then are those of the rules now.
Steady ==
    /\ tool.listing = Listing(tool.base)
    /\ \A i \in DOMAIN tool.listing : tool.listing[i].name[1] # Tilde
    /\ ChangedSets(loaded, Defined(tool.under)) = {}

\* LEMMA: a file that comes ahead of the one applied and was there before had
\* its rules ahead of the one that denied.
LEMMA SameFile ==
    ASSUME NEW before, IsDir(before), NEW now, IsDir(now),
           NEW files, files = Listing(before), NEW after, after = Listing(now),
           NEW j \in DOMAIN after, after[j].name \in DOMAIN before,
           before[after[j].name] = now[after[j].name],
           NEW n \in Ahead(after, j) + 1 .. Ahead(after, j + 1),
           NEW w \in DOMAIN files, Before(after[j].name, files[w].name)
    PROVE  \E at \in DOMAIN Flat(files) : at <= Ahead(files, w) /\ Flat(files)[at] = Flat(after)[n]
<1>1. IsFiles(files) /\ IsFiles(after)
  BY ListingIs DEF IsListing
<1>2. PICK name : name = after[j].name
  OBVIOUS
<1>3. /\ name \in DOMAIN now /\ IsMerged(name) /\ name \in String
      /\ after[j].rules = Parse(now[name])
  BY <1>2, ListingIs DEF IsListing
<1>4. PICK g \in DOMAIN files : files[g].name = name
  BY <1>2, <1>3, ListingIs
<1>5. PICK rules : rules = after[j].rules /\ rules = files[g].rules
  BY <1>2, <1>3, <1>4, ListingIs
<1>6. g < w
  <2>1. g \in Nat /\ w \in Nat
    BY <1>1, SeqAt DEF IsFiles
  <2>2. files[w].name \in String
    BY ListingIs DEF IsListing
  <2>3. ~Before(files[w].name, name)
    BY <1>2, <1>3, <2>2, BeforeOrder
  <2>4. g # w
    BY <1>2, <1>3, <1>4, <2>3
  <2>5. ~(w < g)
    BY <1>4, <2>3, ListingIs
  <2>. QED BY <2>1, <2>4, <2>5
<1>7. PICK a \in Nat : a = Ahead(after, j) /\ Ahead(after, j + 1) = a + Len(rules)
  <2>1. \A m \in DOMAIN after : /\ Ahead(after, m) \in Nat
                                /\ Ahead(after, m + 1) = Ahead(after, m) + Len(after[m].rules)
    BY <1>1, MergedIs
  <2>. QED BY <1>5, <2>1
<1>8. Len(rules) \in Nat /\ DOMAIN rules = 1..Len(rules)
  BY <1>1, <1>5, SeqAt DEF IsFiles
<1>9. PICK k : k = n - a
  OBVIOUS
<1>10. k \in 1..Len(rules) /\ n = a + k
  BY <1>7, <1>8, <1>9
<1>11. Flat(after)[n] = rules[k]
  <2>1. \A m \in DOMAIN after : \A l \in DOMAIN after[m].rules :
           Flat(after)[Ahead(after, m) + l] = after[m].rules[l]
    BY <1>1, MergedIs
  <2>2. k \in DOMAIN after[j].rules /\ n = Ahead(after, j) + k
    BY <1>5, <1>7, <1>8, <1>10
  <2>3. Flat(after)[Ahead(after, j) + k] = after[j].rules[k]
    BY <2>1, <2>2, Zenon
  <2>. QED BY <1>5, <2>2, <2>3, Zenon
<1>12. PICK b \in Nat : b = Ahead(files, g) /\ Ahead(files, g + 1) = b + Len(rules)
  BY <1>1, <1>5, MergedIs
<1>13. b + k \in DOMAIN Flat(files) /\ Flat(files)[b + k] = rules[k]
  BY <1>1, <1>5, <1>8, <1>10, <1>12, MergedIs
<1>14. Ahead(files, g + 1) <= Ahead(files, w) /\ Ahead(files, w) \in Nat
  BY <1>1, <1>6, AheadOrder, MergedIs
<1>15. b + k <= Ahead(files, w)
  BY <1>8, <1>10, <1>12, <1>14
<1>. QED BY <1>11, <1>13, <1>15

\* LEMMA: what is loaded once the fragment is applied answers each denial with
\* it, or with a file that was edited.
LEMMA AdviceWorks == PlainHost /\ RunInv /\ AdviceInv /\ Steady => Resolves
<1>. SUFFICES ASSUME PlainHost, RunInv, AdviceInv, Steady, Applied, tool.settled,
                     NEW i \in Credited(tool.log),
                     NEW now, now = FirstMatch(loaded, tool.log[i].event),
                     now # 0, FileAt(now) # tool.name, ~Changed(FileAt(now))
              PROVE  FALSE
  BY DEF Resolves
<1>1. PICK ev : ev = tool.log[i].event
  OBVIOUS
<1>2. PICK n : n = tool.log[i].n
  OBVIOUS
<1>3. /\ IsDir(rulesd) /\ loaded = Listing(rulesd) /\ compiled.dir = rulesd
      /\ rulesd[tool.name] = tool.fragment /\ tool.name # None /\ tool.name \in DOMAIN rulesd
  BY DEF RunInv, Applied, InForce
<1>4. IsFiles(loaded) /\ IsSeq(Defined(loaded))
  <2>1. IsFiles(loaded) /\ \A j \in DOMAIN loaded : IsSeq(loaded[j].sets)
    BY <1>3, ListingIs DEF IsListing
  <2>. QED BY <2>1, DefinedIs DEF IsFiles
<1>5. tool.listing # << >>
  BY <1>3, Zenon DEF AdviceInv, SettledInv, Placement
<1>6. PICK files : files = tool.listing /\ files = tool.under /\ files = Listing(tool.base)
  BY <1>5 DEF AdviceInv, SettledInv, Merged, Steady
<1>7. IsDir(tool.base) /\ n = FirstMatch(files, ev)
  <2>1. i \in DOMAIN tool.log
    BY DEF Credited
  <2>. QED BY <1>1, <1>2, <1>5, <1>6, <2>1 DEF AdviceInv, SettledInv, Merged, Denials
<1>8. IsFiles(files) /\ IsSeq(Defined(files))
  <2>1. IsFiles(files) /\ \A j \in DOMAIN files : IsSeq(files[j].sets)
    BY <1>6, <1>7, ListingIs DEF IsListing
  <2>. QED BY <2>1, DefinedIs DEF IsFiles
<1>9. /\ IsMerged(tool.name) /\ tool.name \in String
      /\ \E w \in DOMAIN files : /\ n \in Ahead(files, w) + 1 .. Ahead(files, w + 1)
                                 /\ Before(tool.name, files[w].name)
  BY <1>2, <1>3, <1>6, <1>7, NameAhead DEF Steady
<1>10. PICK w \in DOMAIN files : /\ n \in Ahead(files, w) + 1 .. Ahead(files, w + 1)
                                 /\ Before(tool.name, files[w].name)
  BY <1>9
<1>11. PICK t \in DOMAIN loaded : loaded[t].name = tool.name
  BY <1>3, <1>9, ListingIs
<1>12. loaded[t].rules = Parse(tool.fragment)
  BY <1>3, <1>11, ListingIs
<1>13. PICK k \in DOMAIN loaded[t].rules : Fires(loaded[t].rules[k], ev, Defined(loaded))
  BY <1>1, <1>3, <1>12, FragmentFires
<1>14. now \in DOMAIN Flat(loaded) /\ Fires(Flat(loaded)[now], ev, Defined(loaded))
  BY <1>1, <1>4, FirstMatchIs
<1>15. now \in Nat /\ now <= Ahead(loaded, t + 1)
  <2>1. Ahead(loaded, t) + k \in DOMAIN Flat(loaded)
        /\ Flat(loaded)[Ahead(loaded, t) + k] = loaded[t].rules[k]
    BY <1>4, <1>13, MergedIs
  <2>2. now <= Ahead(loaded, t) + k
    BY <1>1, <1>4, <1>13, <2>1, FirstMatchIs
  <2>3. Ahead(loaded, t) \in Nat /\ Ahead(loaded, t + 1) = Ahead(loaded, t) + Len(loaded[t].rules)
    BY <1>4, MergedIs
  <2>4. k \in 1..Len(loaded[t].rules) /\ Len(loaded[t].rules) \in Nat
    BY <1>4, <1>13, SeqAt DEF IsFiles
  <2>5. DOMAIN Flat(loaded) \subseteq Nat
    BY <1>4, MergedIs, SeqAt
  <2>. QED BY <1>14, <2>2, <2>3, <2>4, <2>5
<1>16. PICK j \in DOMAIN loaded : /\ now \in Ahead(loaded, j) + 1 .. Ahead(loaded, j + 1)
                                  /\ FileAt(now) = loaded[j].name
  BY <1>4, <1>14, FileAtIs
<1>17. j < t
  <2>1. j \in Nat /\ t \in Nat /\ Ahead(loaded, j) \in Nat /\ Ahead(loaded, t + 1) \in Nat
    <3>1. Ahead(loaded, t) \in Nat /\ Ahead(loaded, t + 1) = Ahead(loaded, t) + Len(loaded[t].rules)
      BY <1>4, MergedIs
    <3>2. Len(loaded[t].rules) \in Nat /\ DOMAIN loaded \subseteq Nat
      BY <1>4, SeqAt DEF IsFiles
    <3>3. Ahead(loaded, j) \in Nat
      BY <1>4, MergedIs
    <3>. QED BY <3>1, <3>2, <3>3
  <2>2. j # t
    BY <1>11, <1>16
  <2>3. ASSUME t < j PROVE FALSE
    <3>1. Ahead(loaded, t + 1) <= Ahead(loaded, j)
      BY <1>4, <2>3, AheadOrder
    <3>. QED BY <1>15, <1>16, <2>1, <3>1
  <2>. QED BY <2>1, <2>2, <2>3
<1>18. PICK f \in String : f = loaded[j].name /\ Before(f, tool.name)
  BY <1>3, <1>11, <1>16, <1>17, ListingIs DEF IsListing
<1>19. f \in DOMAIN tool.base /\ tool.base[f] = rulesd[f]
  BY <1>3, <1>16, <1>18 DEF Changed
<1>20. Before(f, files[w].name)
  <2>1. files[w].name \in String
    BY <1>6, <1>7, ListingIs DEF IsListing
  <2>. QED BY <1>9, <1>10, <1>18, <2>1, BeforeOrder
<1>21. PICK at \in DOMAIN Flat(files) : at <= Ahead(files, w) /\ Flat(files)[at] = Flat(loaded)[now]
  BY <1>3, <1>6, <1>7, <1>16, <1>18, <1>19, <1>20, SameFile
<1>22. Fires(Flat(files)[at], ev, Defined(files))
  <2>1. ChangedSets(loaded, Defined(files)) = {}
    BY <1>6 DEF Steady
  <2>. QED BY <1>4, <1>8, <1>14, <1>21, <2>1, SameRule
<1>23. n <= at
  BY <1>7, <1>8, <1>22, FirstMatchIs
<1>. QED
  <2>1. Ahead(files, w) \in Nat /\ DOMAIN Flat(files) \subseteq Nat
    BY <1>8, MergedIs, SeqAt
  <2>. QED BY <1>10, <1>21, <1>23, <2>1

\* THEOREM: the advice works, whatever the names of the files are and however
\* long they are, on a host that was not edited between the reads of the run:
\* once the fragment is saved under the recommended name and loaded, it is
\* reached before the rule that denied.
THEOREM AdviceResolves ==
    ASSUME PlainHost
    PROVE  Spec => [](Steady => Resolves)
<1>1. RunInv /\ AdviceInv => (Steady => Resolves)
  BY AdviceWorks
<1>2. Init => RunInv /\ AdviceInv
  BY RunInit, AdviceInit
<1>3. RunInv /\ AdviceInv /\ [Next]_vars => RunInv' /\ AdviceInv'
  BY RunStep, AdviceStep
<1>. QED BY <1>1, <1>2, <1>3, PTL DEF Spec
================================================================================
