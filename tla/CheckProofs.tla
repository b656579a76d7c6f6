------------------------------ MODULE CheckProofs ------------------------------
(***************************************************************************)
(* What CheckRun's runs show on a small host, proved for every one: what a *)
(* rule's answer on a record says of the daemon, what the walk therefore   *)
(* says, and the properties of the verb.                                   *)
(***************************************************************************)
EXTENDS CheckRun, DataLemmas

--------------------------------------------------------------------------------
(* The shape of a listing                                                  *)

FileSet == [name : Names, rules : Seq(WrittenRules), sets : Seq(WrittenSets)]
DefSet == [name : {s.name : s \in WrittenSets}, members : {s.members : s \in WrittenSets}, place : Nat]

\* A rules.d/: known names, and something that was written under each.
Dir(d) == DOMAIN d \subseteq Names /\ \A f \in DOMAIN d : d[f] \in Written

\* LEMMA: the least member of a set of naturals.
LEMMA SmallestIs ==
    ASSUME NEW S, S \subseteq Nat, S # {}
    PROVE  Smallest(S) \in S /\ \A m \in S : Smallest(S) <= m
<1>1. \E n \in S : \A m \in S : n <= m
  BY LeastElement
<1>. QED BY <1>1 DEF Smallest

\* File k of the listing is the one of name h[k], and the names are in order.
InOrderOf(h, d) ==
    /\ \A k \in DOMAIN Listing(d) :
          /\ h[k] \in DOMAIN NameOrder /\ NameOrder[h[k]] \in DOMAIN d
          /\ Listing(d)[k] = FileOf(d, NameOrder[h[k]])
    /\ \A j, k \in DOMAIN Listing(d) : j < k => h[j] < h[k]

\* LEMMA: a listing is the files that are there, in the order of the names.
LEMMA ListingIs ==
    ASSUME NEW d, Dir(d)
    PROVE  Listing(d) \in Seq(FileSet) /\ \E h : InOrderOf(h, d)
<1>1. PICK n \in Nat : n = Len(NameOrder) /\ DOMAIN NameOrder = 1..n
  BY NamesAssumption
<1>2. PICK e : e = [i \in 1..n |-> FileOf(d, NameOrder[i])]
  OBVIOUS
<1>3. PICK G : G = {i \in 1..n : NameOrder[i] \in DOMAIN d}
  OBVIOUS
<1>4. PICK ss : ss = [i \in 1..n |-> IF i \in G THEN <<e[i]>> ELSE << >>]
  OBVIOUS
<1>5. ASSUME NEW i \in 1..n, i \in G PROVE e[i] \in FileSet
  <2>1. NameOrder[i] \in DOMAIN d /\ NameOrder[i] \in Names /\ d[NameOrder[i]] \in Written
    BY <1>3, <1>5 DEF Dir
  <2>2. /\ d[NameOrder[i]].rules \in Seq(WrittenRules)
        /\ d[NameOrder[i]].sets \in Seq(WrittenSets)
    BY <2>1, ContentsAssumption
  <2>3. e[i] = FileOf(d, NameOrder[i])
    BY <1>2
  <2>. QED BY <2>1, <2>2, <2>3 DEF FileOf, FileSet
<1>6. Listing(d) = FlattenSeq(ss)
  <2>1. ss = [i \in DOMAIN NameOrder |->
                IF NameOrder[i] \in DOMAIN d THEN <<FileOf(d, NameOrder[i])>> ELSE << >>]
    BY <1>1, <1>2, <1>3, <1>4
  <2>. QED BY <2>1 DEF Listing
<1>11. ss \in Seq(Seq(FileSet)) /\ Len(ss) = n
  <2>1. ASSUME NEW i \in 1..n PROVE ss[i] \in Seq(FileSet)
    <3>1. ss[i] = IF i \in G THEN <<e[i]>> ELSE << >>
      BY <1>4
    <3>. QED BY <1>5, <3>1
  <2>. QED BY <1>4, <2>1
<1>12. \A i \in 1..n : ss[i] = IF i \in G THEN <<e[i]>> ELSE << >>
  BY <1>4
<1>7. FlattenSeq(ss) \in Seq(FileSet) /\ \E h : Keeps(h, FlattenSeq(ss), e, G, n)
  BY <1>5, <1>11, <1>12, Picked
<1>8. PICK h : Keeps(h, Listing(d), e, G, n)
  BY <1>6, <1>7
<1>9. \A k \in DOMAIN Listing(d) :
         /\ h[k] \in DOMAIN NameOrder /\ NameOrder[h[k]] \in DOMAIN d
         /\ Listing(d)[k] = FileOf(d, NameOrder[h[k]])
  BY <1>1, <1>2, <1>3, <1>8 DEF Keeps
<1>10. \A j, k \in DOMAIN Listing(d) : j < k => h[j] < h[k]
  BY <1>8 DEF Keeps
<1>. QED BY <1>6, <1>7, <1>9, <1>10 DEF InOrderOf

\* LEMMA: the rules of a listing, and of the files ahead of one.
LEMMA FlatIs ==
    ASSUME NEW files \in Seq(FileSet)
    PROVE  /\ Flat(files) \in Seq(WrittenRules)
           /\ \A i \in 1..Len(files) + 1 : Ahead(files, i) \in Nat
<1>1. ASSUME NEW fs \in Seq(FileSet) PROVE Flat(fs) \in Seq(WrittenRules)
  <2>. DEFINE ss == [i \in DOMAIN fs |-> fs[i].rules]
  <2>1. ss \in Seq(Seq(WrittenRules))
    <3>1. ASSUME NEW i \in DOMAIN fs PROVE fs[i].rules \in Seq(WrittenRules)
      <4>1. fs[i] \in FileSet
        OBVIOUS
      <4>. QED BY <4>1 DEF FileSet
    <3>. QED BY <3>1
  <2>2. Len(ss) \in 0..Len(ss)
    BY <2>1
  <2>. HIDE DEF ss
  <2>3. FlattenSeq(SubSeq(ss, 1, Len(ss))) \in Seq(WrittenRules)
    BY <2>1, <2>2, FlattenPrefix
  <2>4. FlattenSeq(SubSeq(ss, 1, Len(ss))) = FlattenSeq(ss)
    BY <2>1, FlattenPrefix
  <2>. QED BY <2>3, <2>4 DEF ss, Flat
<1>2. ASSUME NEW i \in 1..Len(files) + 1 PROVE Ahead(files, i) \in Nat
  <2>1. SubSeq(files, 1, i - 1) \in Seq(FileSet)
    OBVIOUS
  <2>2. Flat(SubSeq(files, 1, i - 1)) \in Seq(WrittenRules)
    BY <1>1, <2>1
  <2>. QED BY <2>2 DEF Ahead
<1>. QED BY <1>1, <1>2

\* LEMMA: the definitions of a listing.
LEMMA DefinedIs ==
    ASSUME NEW files \in Seq(FileSet)
    PROVE  Defined(files) \in Seq(DefSet)
<1>. DEFINE def(i, j) == [name |-> files[i].sets[j].name, members |-> files[i].sets[j].members,
                          place |-> Ahead(files, i) + files[i].sets[j].before]
            ss == [i \in DOMAIN files |-> [j \in DOMAIN files[i].sets |-> def(i, j)]]
<1>1. ASSUME NEW i \in DOMAIN files PROVE [j \in DOMAIN files[i].sets |-> def(i, j)] \in Seq(DefSet)
  <2>1. files[i] \in FileSet /\ i \in 1..Len(files) + 1
    OBVIOUS
  <2>2. files[i].sets \in Seq(WrittenSets) /\ Ahead(files, i) \in Nat
    BY <2>1, FlatIs DEF FileSet
  <2>3. ASSUME NEW j \in DOMAIN files[i].sets PROVE def(i, j) \in DefSet
    <3>1. files[i].sets[j] \in WrittenSets
      BY <2>2
    <3>2. files[i].sets[j].before \in Nat
      BY <3>1, ContentsAssumption
    <3>. QED BY <2>2, <3>1, <3>2 DEF DefSet
  <2>. HIDE DEF def
  <2>. QED BY <2>2, <2>3
<1>2. ss \in Seq(Seq(DefSet)) /\ Len(ss) \in Nat
  <2>. HIDE DEF def
  <2>. QED BY <1>1
<1>3. Len(ss) \in 0..Len(ss)
  BY <1>2
<1>4. Defined(files) = FlattenSeq(ss)
  BY DEF Defined
<1>. HIDE DEF ss
<1>5. FlattenSeq(SubSeq(ss, 1, Len(ss))) \in Seq(DefSet)
  BY <1>2, <1>3, FlattenPrefix
<1>6. FlattenSeq(SubSeq(ss, 1, Len(ss))) = FlattenSeq(ss)
  BY <1>2, FlattenPrefix
<1>. QED BY <1>4, <1>5, <1>6

\* LEMMA: the definitions of a name.
LEMMA NamedIs ==
    ASSUME NEW defs \in Seq(DefSet), NEW name
    PROVE  /\ Named(defs, name) \in Seq(DefSet)
           /\ \A k \in DOMAIN Named(defs, name) :
                 \E i \in DOMAIN defs : Named(defs, name)[k] = defs[i] /\ defs[i].name = name
           /\ \A i \in DOMAIN defs : defs[i].name = name => Named(defs, name) # << >>
<1>1. PICK n \in Nat : n = Len(defs) /\ DOMAIN defs = 1..n /\ \A i \in 1..n : defs[i] \in DefSet
  OBVIOUS
<1>2. PICK G : G = {i \in 1..n : defs[i].name = name}
  OBVIOUS
<1>3. PICK ss : ss = [i \in 1..n |-> IF i \in G THEN <<defs[i]>> ELSE << >>]
  OBVIOUS
<1>4. Named(defs, name) = FlattenSeq(ss)
  <2>1. ss = [i \in DOMAIN defs |-> IF defs[i].name = name THEN <<defs[i]>> ELSE << >>]
    BY <1>1, <1>2, <1>3
  <2>. QED BY <2>1 DEF Named
<1>11. ss \in Seq(Seq(DefSet)) /\ Len(ss) = n
  <2>1. ASSUME NEW i \in 1..n PROVE ss[i] \in Seq(DefSet)
    <3>1. ss[i] = IF i \in G THEN <<defs[i]>> ELSE << >>
      BY <1>3
    <3>. QED BY <1>1, <3>1
  <2>. QED BY <1>3, <2>1
<1>12. \A i \in 1..n : ss[i] = IF i \in G THEN <<defs[i]>> ELSE << >>
  BY <1>3
<1>5. FlattenSeq(ss) \in Seq(DefSet) /\ \E h : Keeps(h, FlattenSeq(ss), defs, G, n)
  BY <1>1, <1>11, <1>12, Picked
<1>6. PICK h : Keeps(h, Named(defs, name), defs, G, n)
  BY <1>4, <1>5
<1>7. \A k \in DOMAIN Named(defs, name) :
         \E i \in DOMAIN defs : Named(defs, name)[k] = defs[i] /\ defs[i].name = name
  BY <1>1, <1>2, <1>6 DEF Keeps
<1>8. ASSUME NEW i \in DOMAIN defs, defs[i].name = name PROVE Named(defs, name) # << >>
  <2>1. \E k \in DOMAIN Named(defs, name) : h[k] = i
    BY <1>1, <1>2, <1>6, <1>8 DEF Keeps
  <2>. QED BY <2>1
<1>. QED BY <1>4, <1>5, <1>7, <1>8

--------------------------------------------------------------------------------
(* What a rule's answer on a record says of the daemon                     *)

\* LEMMA: a value is expanded to something, the members of a set or itself.
LEMMA ExpandSome ==
    ASSUME NEW defs, NEW t
    PROVE  Expand(t, defs) # {}
BY DEF Expand

\* The values an attribute is compared with.
Values(a, defs) == UNION {Expand(t, defs) : t \in a.tokens}

\* LEMMA: one value compared.
LEMMA LiteralIs ==
    ASSUME NEW a, NEW t, NEW ev
    PROVE  LET l == Literal(a, t, RecordOf(ev))
           IN  /\ l \in {"yes", "no", Open}
               /\ l # Open => ev[a.field] # None
               /\ l = "no" => IF a.how = "under" THEN ev[a.field] \notin Under[t]
                              ELSE ev[a.field] # t /\ ~(a.field = "perm" /\ t = "any")
               /\ l = "yes" => IF a.how = "under"
                               THEN ev[a.field] \in Under[t] /\ ev[a.field] \notin Escaped
                               ELSE ev[a.field] = t \/ (a.field = "perm" /\ t = "any")
<1>1. a.field \in Logged => RecordOf(ev)[a.field] = ev[a.field]
  BY DEF RecordOf
<1>. QED BY <1>1 DEF Literal, Answer, Open

\* LEMMA: an attribute that does not match the record does not hold of the
\* event behind it.
LEMMA NoIsNo ==
    ASSUME NEW a, a.how = "never" \/ a.tokens # {}, NEW ev, NEW defs,
           AttrMatches(a, RecordOf(ev), defs) = "no"
    PROVE  ~Holds(a, ev, defs)
<1>1. CASE a.how = "never"
  BY <1>1 DEF Holds
<1>2. CASE a.how # "never"
  <2>1. PICK answers : answers = {Literal(a, t, RecordOf(ev)) : t \in Values(a, defs)}
    OBVIOUS
  <2>2. Among(answers) = "no"
    BY <1>2, <2>1 DEF AttrMatches, Values
  <2>3. "yes" \notin answers /\ Open \notin answers
    BY <2>2 DEF Among, Open
  <2>4. \A t \in Values(a, defs) : Literal(a, t, RecordOf(ev)) = "no"
    BY <2>1, <2>3, LiteralIs
  <2>5. Values(a, defs) # {}
    BY <1>2, ExpandSome DEF Values
  <2>6. ev[a.field] # None
    <3>1. PICK t \in Values(a, defs) : TRUE
      BY <2>5
    <3>2. Literal(a, t, RecordOf(ev)) = "no"
      BY <2>4, <3>1
    <3>. QED BY <3>2, LiteralIs DEF Open
  <2>7. \A t \in Values(a, defs) :
           ~IF a.how = "under"
            THEN ev[a.field] \in Under[t] /\ (ev[a.field] \in Escaped => ev.spelt)
            ELSE ev[a.field] = t \/ (a.field = "perm" /\ t = "any")
    BY <2>4, LiteralIs
  <2>. QED BY <2>6, <2>7 DEF Holds, Values
<1>. QED BY <1>1, <1>2

\* LEMMA: an attribute that matches the record holds of the event.
LEMMA YesIsYes ==
    ASSUME NEW a, NEW ev, NEW defs, AttrMatches(a, RecordOf(ev), defs) = "yes"
    PROVE  Holds(a, ev, defs)
<1>1. a.how # "never"
  BY DEF AttrMatches
<1>2. PICK answers : answers = {Literal(a, t, RecordOf(ev)) : t \in Values(a, defs)}
  OBVIOUS
<1>3. Among(answers) = "yes"
  BY <1>1, <1>2 DEF AttrMatches, Values
<1>4. "yes" \in answers
  BY <1>3 DEF Among, Open
<1>5. PICK t \in Values(a, defs) : Literal(a, t, RecordOf(ev)) = "yes"
  BY <1>2, <1>4
<1>6. IF a.how = "under"
      THEN ev[a.field] \in Under[t] /\ (ev[a.field] \in Escaped => ev.spelt)
      ELSE ev[a.field] = t \/ (a.field = "perm" /\ t = "any")
  BY <1>5, LiteralIs
<1>. QED BY <1>1, <1>5, <1>6 DEF Holds, Values

\* LEMMA: a rule that does not match the record does not fire on the event,
\* and one that matches does: the record says less than the daemon sees, and
\* nothing that is not so.
LEMMA MatchesSound ==
    ASSUME NEW r \in WrittenRules, NEW ev, NEW defs
    PROVE  /\ Matches(r, RecordOf(ev), defs) \in {"yes", "no", Open}
           /\ Matches(r, RecordOf(ev), defs) = "no" => ~Fires(r, ev, defs)
           /\ Matches(r, RecordOf(ev), defs) = "yes" => Fires(r, ev, defs)
<1>1. PICK answers : answers = {AttrMatches(a, RecordOf(ev), defs) : a \in r.attrs}
  OBVIOUS
<1>2. Matches(r, RecordOf(ev), defs) =
        IF "no" \in answers THEN "no" ELSE IF Open \in answers THEN Open ELSE "yes"
  BY <1>1 DEF Matches
<1>3. ASSUME "no" \in answers PROVE ~Fires(r, ev, defs)
  <2>1. PICK a \in r.attrs : AttrMatches(a, RecordOf(ev), defs) = "no"
    BY <1>1, <1>3
  <2>2. a.how = "never" \/ a.tokens # {}
    BY <2>1, TokensAssumption
  <2>3. ~Holds(a, ev, defs)
    BY <2>1, <2>2, NoIsNo
  <2>. QED BY <2>1, <2>3 DEF Fires
<1>4. ASSUME "no" \notin answers, Open \notin answers PROVE Fires(r, ev, defs)
  <2>1. SUFFICES ASSUME NEW a \in r.attrs PROVE Holds(a, ev, defs)
    BY DEF Fires
  <2>2. AttrMatches(a, RecordOf(ev), defs) \in {"yes", "no", Open}
    BY DEF AttrMatches, Among
  <2>3. AttrMatches(a, RecordOf(ev), defs) = "yes"
    BY <1>1, <1>4, <2>2
  <2>. QED BY <2>3, YesIsYes
<1>. QED BY <1>2, <1>3, <1>4 DEF Open

\* LEMMA: a name whose definitions are the same means the same.
LEMMA SameMeaning ==
    ASSUME NEW files, NEW old \in Seq(DefSet), Defined(files) \in Seq(DefSet),
           NEW t, t \notin ChangedSets(files, old)
    PROVE  Expand(t, Defined(files)) = Expand(t, old)
<1>1. CASE t \notin SetNames
  BY <1>1 DEF Expand
<1>2. CASE t \in SetNames
  <2>1. PICK mine, theirs : mine = Named(Defined(files), t) /\ theirs = Named(old, t)
    OBVIOUS
  <2>2. mine \in Seq(DefSet) /\ theirs \in Seq(DefSet)
    BY <2>1, NamedIs
  <2>3. [i \in DOMAIN mine |-> mine[i].members] = [i \in DOMAIN theirs |-> theirs[i].members]
    BY <1>2, <2>1 DEF ChangedSets
  <2>4. DOMAIN mine = DOMAIN theirs
    BY <2>3
  <2>5. \A i \in DOMAIN mine : mine[i].members = theirs[i].members
    <3>1. SUFFICES ASSUME NEW i \in DOMAIN mine PROVE mine[i].members = theirs[i].members
      OBVIOUS
    <3>2. [j \in DOMAIN mine |-> mine[j].members][i] = [j \in DOMAIN theirs |-> theirs[j].members][i]
      BY <2>3
    <3>. QED BY <2>4, <3>2
  <2>6. mine = << >> <=> theirs = << >>
    BY <2>2, <2>4
  <2>7. mine # << >> => 1 \in DOMAIN mine
    BY <2>2
  <2>8. mine # << >> => mine[1].members = theirs[1].members
    BY <2>5, <2>7
  <2>. QED BY <1>2, <2>1, <2>6, <2>8 DEF Expand
<1>. QED BY <1>1, <1>2

\* LEMMA: a rule that names no changed set fires on what it fired on.
LEMMA SameRule ==
    ASSUME NEW files, NEW old \in Seq(DefSet), Defined(files) \in Seq(DefSet),
           NEW r, References(r) \cap ChangedSets(files, old) = {}, NEW ev
    PROVE  Fires(r, ev, Defined(files)) <=> Fires(r, ev, old)
<1>1. ASSUME NEW a \in r.attrs
      PROVE  Holds(a, ev, Defined(files)) <=> Holds(a, ev, old)
  <2>1. ASSUME NEW t \in a.tokens PROVE Expand(t, Defined(files)) = Expand(t, old)
    <3>1. t \in SetNames => t \in References(r)
      BY DEF References
    <3>2. t \notin ChangedSets(files, old)
      BY <3>1 DEF ChangedSets
    <3>. QED BY <3>2, SameMeaning
  <2>2. Values(a, Defined(files)) = Values(a, old)
    BY <2>1 DEF Values
  <2>. QED BY <2>2 DEF Holds, Values
<1>. QED BY <1>1 DEF Fires

--------------------------------------------------------------------------------
(* The daemon over a listing                                               *)

\* LEMMA: the first match is a rule that fires, and none ahead of it does.
LEMMA FirstIs ==
    ASSUME NEW files \in Seq(FileSet), NEW ev
    PROVE  /\ FirstMatch(files, ev) # 0 =>
                 /\ FirstMatch(files, ev) \in DOMAIN Flat(files)
                 /\ Fires(Flat(files)[FirstMatch(files, ev)], ev, Defined(files))
                 /\ \A at \in 1..FirstMatch(files, ev) - 1 :
                       ~Fires(Flat(files)[at], ev, Defined(files))
           /\ \A at \in DOMAIN Flat(files) :
                 /\ Fires(Flat(files)[at], ev, Defined(files))
                 /\ \A b \in 1..at - 1 : ~Fires(Flat(files)[b], ev, Defined(files))
                 => FirstMatch(files, ev) = at /\ at # 0
<1>1. PICK firing : firing = {at \in DOMAIN Flat(files) : Fires(Flat(files)[at], ev, Defined(files))}
  OBVIOUS
<1>2. FirstMatch(files, ev) = IF firing = {} THEN 0 ELSE Smallest(firing)
  BY <1>1 DEF FirstMatch
<1>3. Flat(files) \in Seq(WrittenRules)
  BY FlatIs
<1>4. DOMAIN Flat(files) = 1..Len(Flat(files)) /\ Len(Flat(files)) \in Nat
  BY <1>3
<1>5. firing \subseteq Nat
  BY <1>1, <1>4
<1>6. firing # {} => Smallest(firing) \in firing /\ \A m \in firing : Smallest(firing) <= m
  BY <1>5, SmallestIs
<1>7. ASSUME FirstMatch(files, ev) # 0
      PROVE  /\ FirstMatch(files, ev) \in DOMAIN Flat(files)
             /\ Fires(Flat(files)[FirstMatch(files, ev)], ev, Defined(files))
             /\ \A at \in 1..FirstMatch(files, ev) - 1 :
                   ~Fires(Flat(files)[at], ev, Defined(files))
  <2>1. PICK s \in firing : s = FirstMatch(files, ev) /\ \A m \in firing : s <= m
    BY <1>2, <1>6, <1>7
  <2>2. s \in 1..Len(Flat(files))
    BY <1>1, <1>4
  <2>3. ASSUME NEW at \in 1..s - 1 PROVE at \notin firing /\ at \in DOMAIN Flat(files)
    <3>1. at \in Nat /\ ~(s <= at) /\ at \in 1..Len(Flat(files))
      BY <1>4, <2>2
    <3>. QED BY <1>4, <2>1, <3>1
  <2>. QED BY <1>1, <2>1, <2>3
<1>8. ASSUME NEW at \in DOMAIN Flat(files), Fires(Flat(files)[at], ev, Defined(files)),
             \A b \in 1..at - 1 : ~Fires(Flat(files)[b], ev, Defined(files))
      PROVE  FirstMatch(files, ev) = at /\ at # 0
  <2>1. at \in firing
    BY <1>1, <1>8
  <2>2. PICK s \in firing : s = FirstMatch(files, ev) /\ \A m \in firing : s <= m
    BY <1>2, <1>6, <2>1
  <2>3. s <= at /\ s \in 1..Len(Flat(files)) /\ at \in 1..Len(Flat(files))
    BY <1>1, <1>4, <2>1, <2>2
  <2>4. Fires(Flat(files)[s], ev, Defined(files))
    BY <1>1
  <2>5. ~(s \in 1..at - 1)
    BY <1>8, <2>4
  <2>6. s = at
    BY <2>3, <2>5
  <2>. QED BY <2>2, <2>3, <2>6
<1>. QED BY <1>7, <1>8

\* LEMMA: no word both allows and denies, and every decision does one of them.
LEMMA DecisionWords ==
    Allowing \cap Denying = {} /\ Decisions \subseteq Allowing \cup Denying
BY DEF Allowing, Denying, Decisions

\* LEMMA: what the tool does not refuse, the daemon loads, if it loaded the
\* host's own rules and knows the decision of every rule.
LEMMA NotRefused ==
    ASSUME NEW files \in Seq(FileSet), ~Refused(files),
           NEW compiled, ~MissingPerm(files, compiled), \A r \in ToSet(compiled) : HasPerm(r),
           \A r \in WrittenRules : r.dec \in Decisions
    PROVE  Loads(files)
<1>1. PICK defs, all : defs = Defined(files) /\ all = Flat(files)
  OBVIOUS
<1>2. defs \in Seq(DefSet) /\ all \in Seq(WrittenRules)
  BY <1>1, DefinedIs, FlatIs
<1>3. /\ \A i, j \in DOMAIN defs : defs[i].name = defs[j].name => i = j
      /\ \A at \in DOMAIN all : \A name \in References(all[at]) :
            Named(defs, name) # << >> /\ ~(Named(defs, name)[1].place > at - 1)
  BY <1>1 DEF Refused
<1>4. ASSUME NEW at \in DOMAIN all
      PROVE  HasPerm(all[at]) /\ all[at].dec \in Decisions
  <2>1. all[at] \in WrittenRules /\ all[at] \in ToSet(all)
    BY <1>2 DEF ToSet
  <2>2. all[at] \in ToSet(compiled) \/ HasPerm(all[at])
    BY <1>1, <2>1 DEF MissingPerm
  <2>. QED BY <2>1, <2>2
<1>5. ASSUME NEW at \in DOMAIN all, NEW name \in References(all[at])
      PROVE  {i \in DOMAIN defs : defs[i].name = name /\ defs[i].place < at} # {}
  <2>1. PICK s : s = Named(defs, name)
    OBVIOUS
  <2>2. s \in Seq(DefSet) /\ s # << >> /\ ~(s[1].place > at - 1)
    BY <1>2, <1>3, <2>1, NamedIs
  <2>3. 1 \in DOMAIN s
    BY <2>2
  <2>4. PICK i \in DOMAIN defs : s[1] = defs[i] /\ defs[i].name = name
    BY <1>2, <2>1, <2>3, NamedIs
  <2>5. defs[i].place \in Nat /\ at \in Nat
    <3>1. defs[i] \in DefSet /\ at \in Nat
      BY <1>2
    <3>. QED BY <3>1 DEF DefSet
  <2>6. defs[i].place < at
    BY <2>2, <2>4, <2>5
  <2>. QED BY <2>4, <2>6
<1>. QED BY <1>1, <1>3, <1>4, <1>5 DEF Loads

\* LEMMA: and it refuses nothing the daemon loads.
LEMMA LoadsNotRefused ==
    ASSUME NEW files \in Seq(FileSet), Loads(files)
    PROVE  ~Refused(files) /\ \A compiled : ~MissingPerm(files, compiled)
<1>1. PICK defs, all : defs = Defined(files) /\ all = Flat(files)
  OBVIOUS
<1>2. defs \in Seq(DefSet) /\ all \in Seq(WrittenRules)
  BY <1>1, DefinedIs, FlatIs
<1>3. /\ \A i, j \in DOMAIN defs : defs[i].name = defs[j].name => i = j
      /\ \A at \in DOMAIN all :
            /\ HasPerm(all[at])
            /\ \A name \in References(all[at]) :
                  \E i \in DOMAIN defs : defs[i].name = name /\ defs[i].place < at
  BY <1>1 DEF Loads
<1>4. ASSUME NEW at \in DOMAIN all, NEW name \in References(all[at])
      PROVE  Named(defs, name) # << >> /\ ~(Named(defs, name)[1].place > at - 1)
  <2>1. PICK i \in DOMAIN defs : defs[i].name = name /\ defs[i].place < at
    BY <1>3
  <2>2. PICK s : s = Named(defs, name)
    OBVIOUS
  <2>3. s \in Seq(DefSet) /\ s # << >>
    BY <1>2, <2>1, <2>2, NamedIs
  <2>4. 1 \in DOMAIN s
    BY <2>3
  <2>5. PICK j \in DOMAIN defs : s[1] = defs[j] /\ defs[j].name = name
    BY <1>2, <2>2, <2>4, NamedIs
  <2>6. i = j
    BY <1>3, <2>1, <2>5
  <2>7. defs[j].place \in Nat /\ at \in Nat
    <3>1. defs[j] \in DefSet /\ at \in Nat
      BY <1>2
    <3>. QED BY <3>1 DEF DefSet
  <2>8. ~(s[1].place > at - 1)
    BY <2>1, <2>5, <2>6, <2>7
  <2>. QED BY <2>2, <2>3, <2>8
<1>5. ~Refused(files)
  BY <1>1, <1>3, <1>4 DEF Refused
<1>6. ASSUME NEW compiled PROVE ~MissingPerm(files, compiled)
  <2>1. \A r \in ToSet(all) : HasPerm(r)
    BY <1>3 DEF ToSet
  <2>. QED BY <1>1, <2>1 DEF MissingPerm
<1>. QED BY <1>5, <1>6

--------------------------------------------------------------------------------
(* The walk                                                                *)

\* Rule `at` of the files is passed over.
PassedOver(at, rec, n, compiled, changed, files) ==
    \/ Skipped(Flat(files)[at], n, compiled, changed)
    \/ Matches(Flat(files)[at], rec, Defined(files)) = "no"

\* The walk stops at rule s.
StopsAt(s, rec, n, compiled, changed, files) ==
    /\ ~PassedOver(s, rec, n, compiled, changed, files)
    /\ \A at \in 1..s - 1 : PassedOver(at, rec, n, compiled, changed, files)

\* LEMMA: the walk stops at the first rule it does not pass over, or at N.
LEMMA WalkIs ==
    ASSUME NEW files, NEW limit \in Nat, NEW rec, NEW n, NEW compiled, NEW changed
    PROVE  \/ \E s \in 1..limit - 1 :
                 /\ StopsAt(s, rec, n, compiled, changed, files)
                 /\ Walk(rec, n, compiled, changed, files, limit)
                      = Settled(Flat(files)[s], Matches(Flat(files)[s], rec, Defined(files)))
           \/ /\ \A at \in 1..limit - 1 : PassedOver(at, rec, n, compiled, changed, files)
              /\ Walk(rec, n, compiled, changed, files, limit)
                   = IF /\ References(compiled[n]) \cap changed # {}
                        /\ Matches(compiled[n], rec, Defined(files)) # "yes"
                     THEN "unknown" ELSE "denied"
<1>1. PICK stops : stops = {at \in 1..limit - 1 :
                              /\ ~Skipped(Flat(files)[at], n, compiled, changed)
                              /\ Matches(Flat(files)[at], rec, Defined(files)) # "no"}
  OBVIOUS
<1>2. \A at \in 1..limit - 1 : at \in stops <=> ~PassedOver(at, rec, n, compiled, changed, files)
  BY <1>1 DEF PassedOver
<1>3. CASE stops = {}
  <2>1. Walk(rec, n, compiled, changed, files, limit)
          = IF /\ References(compiled[n]) \cap changed # {}
               /\ Matches(compiled[n], rec, Defined(files)) # "yes"
            THEN "unknown" ELSE "denied"
    BY <1>1, <1>3 DEF Walk
  <2>. QED BY <1>2, <1>3, <2>1
<1>4. CASE stops # {}
  <2>1. stops \subseteq Nat
    BY <1>1
  <2>2. PICK s \in stops : s = Smallest(stops) /\ \A m \in stops : s <= m
    BY <1>4, <2>1, SmallestIs
  <2>3. Walk(rec, n, compiled, changed, files, limit)
          = Settled(Flat(files)[s], Matches(Flat(files)[s], rec, Defined(files)))
    BY <1>1, <1>4, <2>2 DEF Walk
  <2>4. s \in 1..limit - 1
    BY <1>1
  <2>5. ASSUME NEW at \in 1..s - 1 PROVE PassedOver(at, rec, n, compiled, changed, files)
    <3>1. at \in 1..limit - 1 /\ ~(s <= at)
      BY <2>4
    <3>. QED BY <1>2, <2>2, <3>1
  <2>6. StopsAt(s, rec, n, compiled, changed, files)
    BY <1>2, <2>2, <2>4, <2>5 DEF StopsAt
  <2>. QED BY <2>3, <2>4, <2>6
<1>. QED BY <1>3, <1>4

\* LEMMA: a verdict other than `unknown` is the walk's, over files that are not
\* refused, up to a rule that is the one that denied.
LEMMA VerdictIs ==
    ASSUME NEW files \in Seq(FileSet), NEW rec, NEW n, NEW compiled, NEW host, NEW changed,
           CheckVerdict(rec, n, None, compiled, host, changed, files) # "unknown"
    PROVE  /\ ~Refused(files) /\ ~MissingPerm(files, compiled) /\ n \in DOMAIN compiled
           /\ \E limit \in DOMAIN Flat(files) :
                 /\ Flat(files)[limit] = compiled[n]
                 /\ CheckVerdict(rec, n, None, compiled, host, changed, files)
                      = Walk(rec, n, compiled, changed, files, limit)
<1>1. /\ ~Refused(files) /\ ~MissingPerm(files, compiled) /\ n \in DOMAIN compiled
      /\ Limit(compiled[n], From(host, compiled, n), files) # 0
      /\ CheckVerdict(rec, n, None, compiled, host, changed, files)
           = Walk(rec, n, compiled, changed, files,
                  Limit(compiled[n], From(host, compiled, n), files))
  BY DEF CheckVerdict
<1>2. PICK limit : limit = Limit(compiled[n], From(host, compiled, n), files)
  OBVIOUS
<1>3. PICK from : from = From(host, compiled, n)
  OBVIOUS
<1>4. PICK here :
         here = {at \in DOMAIN Flat(files) :
                   /\ Flat(files)[at] = compiled[n]
                   /\ \E i \in {i \in DOMAIN files : from = None \/ files[i].name = from} :
                         at \in Ahead(files, i) + 1 .. Ahead(files, i + 1)}
  OBVIOUS
<1>5. limit = IF here = {} THEN 0 ELSE Smallest(here)
  BY <1>2, <1>3, <1>4 DEF Limit
<1>6. Flat(files) \in Seq(WrittenRules)
  BY FlatIs
<1>7. here \subseteq Nat
  BY <1>4, <1>6
<1>8. limit \in here
  BY <1>1, <1>2, <1>5, <1>7, SmallestIs
<1>9. limit \in DOMAIN Flat(files) /\ Flat(files)[limit] = compiled[n]
  BY <1>4, <1>8
<1>. QED BY <1>1, <1>2, <1>9

--------------------------------------------------------------------------------
(* What an answer says of the daemon                                       *)

\* LEMMA: a rule passed over does not fire: it does not match the record, or
\* the daemon passed it over and it means what it meant then.
LEMMA PassedOverSound ==
    ASSUME NEW files \in Seq(FileSet), NEW was \in Seq(FileSet), NEW ev,
           FirstMatch(was, ev) # 0, NEW at \in DOMAIN Flat(files),
           PassedOver(at, RecordOf(ev), FirstMatch(was, ev), Flat(was),
                      ChangedSets(files, Defined(was)), files)
    PROVE  ~Fires(Flat(files)[at], ev, Defined(files))
<1>1. PICK r, n, changed : /\ r = Flat(files)[at] /\ n = FirstMatch(was, ev)
                           /\ changed = ChangedSets(files, Defined(was))
  OBVIOUS
<1>2. r \in WrittenRules
  BY <1>1, FlatIs
<1>3. CASE Matches(r, RecordOf(ev), Defined(files)) = "no"
  BY <1>1, <1>2, <1>3, MatchesSound
<1>4. CASE Skipped(r, n, Flat(was), changed)
  <2>1. References(r) \cap changed = {} /\ r \in ToSet(SubSeq(Flat(was), 1, n - 1))
    BY <1>4 DEF Skipped
  <2>2. /\ n \in DOMAIN Flat(was)
        /\ \A b \in 1..n - 1 : ~Fires(Flat(was)[b], ev, Defined(was))
    BY <1>1, FirstIs
  <2>3. Flat(was) \in Seq(WrittenRules)
    BY FlatIs
  <2>4. n \in 1..Len(Flat(was)) /\ Len(Flat(was)) \in Nat
    BY <2>2, <2>3
  <2>5. PICK b \in 1..n - 1 : r = Flat(was)[b]
    <3>1. PICK b \in DOMAIN SubSeq(Flat(was), 1, n - 1) : r = SubSeq(Flat(was), 1, n - 1)[b]
      BY <2>1 DEF ToSet
    <3>2. b \in 1..n - 1 /\ SubSeq(Flat(was), 1, n - 1)[b] = Flat(was)[b]
      BY <2>3, <2>4
    <3>. QED BY <3>1, <3>2
  <2>6. ~Fires(r, ev, Defined(was))
    BY <2>2, <2>5
  <2>7. Defined(files) \in Seq(DefSet) /\ Defined(was) \in Seq(DefSet)
    BY DefinedIs
  <2>. QED BY <1>1, <2>1, <2>6, <2>7, SameRule
<1>. QED BY <1>1, <1>3, <1>4 DEF PassedOver

\* The verdict on an event denied under the listing `was`.
VerdictOn(ev, was, host, files) ==
    CheckVerdict(RecordOf(ev), FirstMatch(was, ev), None, Flat(was), host,
                 ChangedSets(files, Defined(was)), files)

\* LEMMA: `allowed` is true of the daemon.
LEMMA AllowedSound ==
    ASSUME \A r \in WrittenRules : r.dec \in Decisions,
           NEW files \in Seq(FileSet), NEW was \in Seq(FileSet), Loads(was), NEW ev, NEW host,
           FirstMatch(was, ev) # 0, VerdictOn(ev, was, host, files) = "allowed"
    PROVE  ~DeniesAfter(files, ev)
<1>1. PICK n, changed : n = FirstMatch(was, ev) /\ changed = ChangedSets(files, Defined(was))
  OBVIOUS
<1>2. CheckVerdict(RecordOf(ev), n, None, Flat(was), host, changed, files) = "allowed"
  BY <1>1 DEF VerdictOn
<1>3. /\ ~Refused(files) /\ ~MissingPerm(files, Flat(was))
      /\ \E limit \in DOMAIN Flat(files) :
            Walk(RecordOf(ev), n, Flat(was), changed, files, limit) = "allowed"
  BY <1>2, VerdictIs
<1>4. Loads(files)
  <2>1. \A r \in ToSet(Flat(was)) : HasPerm(r)
    BY DEF Loads, ToSet
  <2>. QED BY <1>3, <2>1, NotRefused
<1>5. PICK limit \in DOMAIN Flat(files) :
         Walk(RecordOf(ev), n, Flat(was), changed, files, limit) = "allowed"
  BY <1>3
<1>6. Flat(files) \in Seq(WrittenRules)
  BY FlatIs
<1>7. limit \in 1..Len(Flat(files)) /\ Len(Flat(files)) \in Nat /\ limit \in Nat
  BY <1>6
<1>8. PICK s \in 1..limit - 1 :
         /\ StopsAt(s, RecordOf(ev), n, Flat(was), changed, files)
         /\ Settled(Flat(files)[s], Matches(Flat(files)[s], RecordOf(ev), Defined(files))) = "allowed"
  BY <1>5, <1>7, WalkIs
<1>9. /\ Flat(files)[s].dec \in Allowing /\ Matches(Flat(files)[s], RecordOf(ev), Defined(files)) = "yes"
  BY <1>8 DEF Settled
<1>10. s \in DOMAIN Flat(files)
  BY <1>6, <1>7
<1>11. Fires(Flat(files)[s], ev, Defined(files))
  BY <1>6, <1>9, <1>10, MatchesSound
<1>12. ASSUME NEW at \in 1..s - 1 PROVE ~Fires(Flat(files)[at], ev, Defined(files))
  <2>1. PassedOver(at, RecordOf(ev), n, Flat(was), changed, files)
    BY <1>8 DEF StopsAt
  <2>2. at \in DOMAIN Flat(files)
    BY <1>6, <1>7, <1>8
  <2>. QED BY <1>1, <2>1, <2>2, PassedOverSound
<1>13. FirstMatch(files, ev) = s
  BY <1>10, <1>11, <1>12, FirstIs
<1>. QED BY <1>4, <1>9, <1>13, DecisionWords DEF DeniesAfter

\* LEMMA: and so is `denied`.
LEMMA DeniedSound ==
    ASSUME NEW files \in Seq(FileSet), NEW was \in Seq(FileSet), NEW ev, NEW host,
           FirstMatch(was, ev) # 0, Flat(was)[FirstMatch(was, ev)].dec \in Denying,
           VerdictOn(ev, was, host, files) = "denied"
    PROVE  DeniesAfter(files, ev)
<1>1. PICK n, changed : n = FirstMatch(was, ev) /\ changed = ChangedSets(files, Defined(was))
  OBVIOUS
<1>2. CheckVerdict(RecordOf(ev), n, None, Flat(was), host, changed, files) = "denied"
  BY <1>1 DEF VerdictOn
<1>3. PICK limit \in DOMAIN Flat(files) :
         /\ Flat(files)[limit] = Flat(was)[n]
         /\ Walk(RecordOf(ev), n, Flat(was), changed, files, limit) = "denied"
  BY <1>2, VerdictIs
<1>4. Flat(files) \in Seq(WrittenRules) /\ Flat(was) \in Seq(WrittenRules)
  BY FlatIs
<1>5. limit \in 1..Len(Flat(files)) /\ Len(Flat(files)) \in Nat /\ limit \in Nat
  BY <1>4
<1>6. ASSUME NEW s \in 1..Len(Flat(files)),
             \A at \in 1..s - 1 : PassedOver(at, RecordOf(ev), n, Flat(was), changed, files),
             Fires(Flat(files)[s], ev, Defined(files)), Flat(files)[s].dec \in Denying
      PROVE  DeniesAfter(files, ev)
  <2>1. ASSUME NEW at \in 1..s - 1 PROVE ~Fires(Flat(files)[at], ev, Defined(files))
    <3>1. at \in DOMAIN Flat(files) /\ PassedOver(at, RecordOf(ev), n, Flat(was), changed, files)
      BY <1>4, <1>6
    <3>. QED BY <1>1, <3>1, PassedOverSound
  <2>2. s \in DOMAIN Flat(files)
    BY <1>4
  <2>3. FirstMatch(files, ev) = s /\ s # 0
    BY <1>6, <2>1, <2>2, FirstIs
  <2>. QED BY <1>6, <2>3 DEF DeniesAfter
<1>7. CASE \E s \in 1..limit - 1 :
              /\ StopsAt(s, RecordOf(ev), n, Flat(was), changed, files)
              /\ Settled(Flat(files)[s], Matches(Flat(files)[s], RecordOf(ev), Defined(files))) = "denied"
  <2>1. PICK s \in 1..limit - 1 :
           /\ StopsAt(s, RecordOf(ev), n, Flat(was), changed, files)
           /\ Settled(Flat(files)[s], Matches(Flat(files)[s], RecordOf(ev), Defined(files))) = "denied"
    BY <1>7
  <2>2. Flat(files)[s].dec \in Denying /\ Matches(Flat(files)[s], RecordOf(ev), Defined(files)) = "yes"
    BY <2>1 DEF Settled
  <2>3. s \in 1..Len(Flat(files))
    BY <1>5
  <2>4. Fires(Flat(files)[s], ev, Defined(files))
    <3>1. Flat(files)[s] \in WrittenRules
      BY <1>4, <2>3
    <3>. QED BY <2>2, <3>1, MatchesSound
  <2>5. \A at \in 1..s - 1 : PassedOver(at, RecordOf(ev), n, Flat(was), changed, files)
    BY <2>1 DEF StopsAt
  <2>. QED BY <1>6, <2>2, <2>3, <2>4, <2>5
<1>8. CASE /\ \A at \in 1..limit - 1 : PassedOver(at, RecordOf(ev), n, Flat(was), changed, files)
           /\ \/ References(Flat(was)[n]) \cap changed = {}
              \/ Matches(Flat(was)[n], RecordOf(ev), Defined(files)) = "yes"
  <2>1. n \in DOMAIN Flat(was) /\ Fires(Flat(was)[n], ev, Defined(was))
    BY <1>1, FirstIs
  <2>2. Defined(files) \in Seq(DefSet) /\ Defined(was) \in Seq(DefSet) /\ Flat(was)[n] \in WrittenRules
    BY <1>4, <2>1, DefinedIs
  <2>3. Fires(Flat(was)[n], ev, Defined(files))
    <3>1. CASE References(Flat(was)[n]) \cap changed = {}
      BY <1>1, <2>1, <2>2, <3>1, SameRule
    <3>2. CASE Matches(Flat(was)[n], RecordOf(ev), Defined(files)) = "yes"
      BY <2>2, <3>2, MatchesSound
    <3>. QED BY <1>8, <3>1, <3>2
  <2>4. Flat(files)[limit].dec \in Denying
    BY <1>1, <1>3
  <2>. QED BY <1>3, <1>5, <1>6, <1>8, <2>3, <2>4
<1>. QED BY <1>3, <1>5, <1>7, <1>8, WalkIs

--------------------------------------------------------------------------------
(* The files behind the rules                                              *)

\* LEMMA: flattening the rules of the first files.
LEMMA AheadIs ==
    ASSUME NEW files \in Seq(FileSet)
    PROVE  \E ss \in Seq(Seq(WrittenRules)) :
              /\ Len(ss) = Len(files) /\ \A i \in DOMAIN files : ss[i] = files[i].rules
              /\ Flat(files) = FlattenSeq(ss)
              /\ \A i \in DOMAIN files :
                    /\ Ahead(files, i) = Len(FlattenSeq(SubSeq(ss, 1, i - 1)))
                    /\ Ahead(files, i + 1) = Len(FlattenSeq(SubSeq(ss, 1, i)))
<1>1. PICK ss : ss = [i \in DOMAIN files |-> files[i].rules]
  OBVIOUS
<1>2. ss \in Seq(Seq(WrittenRules)) /\ Len(ss) = Len(files)
  <2>1. ASSUME NEW i \in DOMAIN files PROVE files[i].rules \in Seq(WrittenRules)
    <3>1. files[i] \in FileSet
      OBVIOUS
    <3>. QED BY <3>1 DEF FileSet
  <2>. QED BY <1>1, <2>1
<1>3. Flat(files) = FlattenSeq(ss)
  BY <1>1 DEF Flat
<1>4. ASSUME NEW m \in 0..Len(files)
      PROVE  Flat(SubSeq(files, 1, m)) = FlattenSeq(SubSeq(ss, 1, m))
  <2>1. PICK fs : fs = SubSeq(files, 1, m)
    OBVIOUS
  <2>2. DOMAIN fs = 1..m /\ \A j \in 1..m : fs[j] = files[j]
    BY <2>1
  <2>3. SubSeq(ss, 1, m) = [j \in 1..m |-> ss[j]]
    BY <1>2
  <2>4. \A j \in 1..m : j \in DOMAIN files
    OBVIOUS
  <2>5. [j \in DOMAIN fs |-> fs[j].rules] = [j \in 1..m |-> ss[j]]
    BY <1>1, <2>2, <2>4
  <2>. QED BY <2>1, <2>3, <2>5 DEF Flat
<1>5. ASSUME NEW i \in DOMAIN files
      PROVE  /\ Ahead(files, i) = Len(FlattenSeq(SubSeq(ss, 1, i - 1)))
             /\ Ahead(files, i + 1) = Len(FlattenSeq(SubSeq(ss, 1, i)))
  <2>1. i \in 0..Len(files) /\ i - 1 \in 0..Len(files) /\ (i + 1) - 1 = i
    OBVIOUS
  <2>. QED BY <1>4, <2>1 DEF Ahead
<1>. QED BY <1>1, <1>2, <1>3, <1>5

\* LEMMA: every rule of the merged order is in a file.
LEMMA InFile ==
    ASSUME NEW files \in Seq(FileSet), NEW at \in DOMAIN Flat(files)
    PROVE  \E i \in DOMAIN files : at \in Ahead(files, i) + 1 .. Ahead(files, i + 1)
<1>1. PICK ss \in Seq(Seq(WrittenRules)) :
         /\ Len(ss) = Len(files) /\ Flat(files) = FlattenSeq(ss)
         /\ \A i \in DOMAIN files :
               /\ Ahead(files, i) = Len(FlattenSeq(SubSeq(ss, 1, i - 1)))
               /\ Ahead(files, i + 1) = Len(FlattenSeq(SubSeq(ss, 1, i)))
  BY AheadIs
<1>2. PICK i \in DOMAIN ss : at \in Len(FlattenSeq(SubSeq(ss, 1, i - 1))) + 1
                                       .. Len(FlattenSeq(SubSeq(ss, 1, i)))
  BY <1>1, FlattenFrom
<1>3. i \in DOMAIN files
  BY <1>1
<1>. QED BY <1>1, <1>2, <1>3

\* LEMMA: every rule of a file is in the merged order, within the file.
LEMMA FromFile ==
    ASSUME NEW files \in Seq(FileSet), NEW i \in DOMAIN files, NEW r \in ToSet(files[i].rules)
    PROVE  \E at \in DOMAIN Flat(files) :
              Flat(files)[at] = r /\ at \in Ahead(files, i) + 1 .. Ahead(files, i + 1)
<1>1. PICK ss \in Seq(Seq(WrittenRules)) :
         /\ Len(ss) = Len(files) /\ Flat(files) = FlattenSeq(ss)
         /\ \A j \in DOMAIN files : ss[j] = files[j].rules
         /\ \A j \in DOMAIN files :
               /\ Ahead(files, j) = Len(FlattenSeq(SubSeq(ss, 1, j - 1)))
               /\ Ahead(files, j + 1) = Len(FlattenSeq(SubSeq(ss, 1, j)))
  BY AheadIs
<1>2. i \in DOMAIN ss /\ ss[i] = files[i].rules
  BY <1>1
<1>3. PICK k \in DOMAIN ss[i] : ss[i][k] = r
  BY <1>2 DEF ToSet
<1>4. PICK a : a = Ahead(files, i)
  OBVIOUS
<1>5. /\ a \in Nat /\ k \in Nat /\ k >= 1
      /\ a + k \in DOMAIN FlattenSeq(ss) /\ FlattenSeq(ss)[a + k] = ss[i][k]
      /\ a + k <= Len(FlattenSeq(SubSeq(ss, 1, i)))
  BY <1>1, <1>2, <1>4, FlattenAt
<1>6. Ahead(files, i + 1) \in Nat
  <2>1. i + 1 \in 1..Len(files) + 1
    OBVIOUS
  <2>. QED BY <2>1, FlatIs
<1>7. a + k \in a + 1 .. Ahead(files, i + 1)
  BY <1>1, <1>5, <1>6, SMTT(30)
<1>. QED BY <1>1, <1>3, <1>4, <1>5, <1>7

\* LEMMA: a rule that is still in its file is found there, no later.
LEMMA LimitIs ==
    ASSUME NEW files \in Seq(FileSet), NEW from, NEW at \in DOMAIN Flat(files),
           NEW i \in DOMAIN files, from = None \/ files[i].name = from,
           at \in Ahead(files, i) + 1 .. Ahead(files, i + 1)
    PROVE  LET limit == Limit(Flat(files)[at], from, files)
           IN  limit \in DOMAIN Flat(files) /\ limit # 0 /\ limit <= at
<1>1. PICK here :
         here = {b \in DOMAIN Flat(files) :
                   /\ Flat(files)[b] = Flat(files)[at]
                   /\ \E j \in {j \in DOMAIN files : from = None \/ files[j].name = from} :
                         b \in Ahead(files, j) + 1 .. Ahead(files, j + 1)}
  OBVIOUS
<1>2. at \in here
  BY <1>1
<1>3. Limit(Flat(files)[at], from, files) = Smallest(here)
  BY <1>1, <1>2 DEF Limit
<1>4. DOMAIN Flat(files) = 1..Len(Flat(files)) /\ Len(Flat(files)) \in Nat
  <2>1. Flat(files) \in Seq(WrittenRules)
    BY FlatIs
  <2>. QED BY <2>1
<1>5. here \subseteq Nat
  BY <1>1, <1>4
<1>6. Smallest(here) \in here /\ Smallest(here) <= at
  BY <1>2, <1>5, SmallestIs
<1>7. Smallest(here) # 0
  BY <1>1, <1>4, <1>6
<1>. QED BY <1>1, <1>3, <1>6, <1>7

\* LEMMA: rules.d/ agrees with what was merged of it about every rule.
LEMMA LocateOwn ==
    ASSUME NEW was \in Seq(FileSet), NEW n \in DOMAIN Flat(was)
    PROVE  Locate(was, Flat(was), n) \in DOMAIN was /\ Locate(was, Flat(was), n) # 0
<1>1. PICK holds : holds = {i \in DOMAIN was : n \in Ahead(was, i) + 1 .. Ahead(was, i + 1)}
  OBVIOUS
<1>2. holds # {}
  BY <1>1, InFile
<1>3. holds \subseteq Nat
  BY <1>1
<1>4. Smallest(holds) \in holds
  BY <1>2, <1>3, SmallestIs
<1>5. Locate(was, Flat(was), n) = Smallest(holds)
  BY <1>1, <1>2 DEF Locate
<1>. QED BY <1>1, <1>4, <1>5

\* LEMMA: with nothing in the way, the verdict is the walk's.
LEMMA VerdictWalks ==
    ASSUME NEW files \in Seq(FileSet), Loads(files), NEW was \in Seq(FileSet),
           NEW n \in DOMAIN Flat(was), NEW rec, NEW host, NEW changed,
           NEW limit, limit = Limit(Flat(was)[n], From(host, Flat(was), n), files), limit # 0,
           From(host, Flat(was), n) # "drift"
    PROVE  CheckVerdict(rec, n, None, Flat(was), host, changed, files)
             = Walk(rec, n, Flat(was), changed, files, limit)
<1>1. ~Refused(files) /\ ~MissingPerm(files, Flat(was))
  BY LoadsNotRefused
<1>2. Flat(was) \in Seq(WrittenRules)
  BY FlatIs
<1>3. Flat(was) # None /\ n # 0
  BY <1>2, ContentsAssumption
<1>. QED BY <1>1, <1>3 DEF CheckVerdict

\* LEMMA: files that merge to the loaded rules, set for set, and load, deny
\* every denial again.
LEMMA NothingNew ==
    ASSUME NEW files \in Seq(FileSet), Loads(files), NEW was \in Seq(FileSet), NEW ev,
           FirstMatch(was, ev) # 0, Flat(files) = Flat(was),
           ChangedSets(files, Defined(was)) = {}
    PROVE  VerdictOn(ev, was, None, files) = "denied"
<1>1. PICK n, changed : n = FirstMatch(was, ev) /\ changed = ChangedSets(files, Defined(was))
  OBVIOUS
<1>2. n \in DOMAIN Flat(was)
  BY <1>1, FirstIs
<1>3. From(None, Flat(was), n) = None /\ None # "drift"
  BY NamesAssumption DEF From
<1>4. PICK i \in DOMAIN files : n \in Ahead(files, i) + 1 .. Ahead(files, i + 1)
  BY <1>2, InFile
<1>5. PICK limit : limit = Limit(Flat(was)[n], None, files)
  OBVIOUS
<1>6. limit \in DOMAIN Flat(was) /\ limit # 0 /\ limit <= n
  BY <1>2, <1>4, <1>5, LimitIs
<1>7. CheckVerdict(RecordOf(ev), n, None, Flat(was), None, changed, files)
        = Walk(RecordOf(ev), n, Flat(was), changed, files, limit)
  BY <1>2, <1>3, <1>5, <1>6, VerdictWalks
<1>8. Flat(was) \in Seq(WrittenRules)
  BY FlatIs
<1>9. limit \in Nat /\ n \in 1..Len(Flat(was)) /\ Len(Flat(was)) \in Nat
  BY <1>2, <1>6, <1>8
<1>10. ASSUME NEW at \in 1..limit - 1
       PROVE  PassedOver(at, RecordOf(ev), n, Flat(was), changed, files)
  <2>1. at \in 1..n - 1
    BY <1>6, <1>9
  <2>2. at \in DOMAIN SubSeq(Flat(was), 1, n - 1) /\ SubSeq(Flat(was), 1, n - 1)[at] = Flat(was)[at]
    BY <1>8, <1>9, <2>1
  <2>3. Flat(was)[at] \in ToSet(SubSeq(Flat(was), 1, n - 1))
    BY <2>2 DEF ToSet
  <2>. QED BY <1>1, <2>3 DEF PassedOver, Skipped
<1>11. Walk(RecordOf(ev), n, Flat(was), changed, files, limit) = "denied"
  <2>1. ~\E s \in 1..limit - 1 : StopsAt(s, RecordOf(ev), n, Flat(was), changed, files)
    BY <1>10 DEF StopsAt
  <2>2. References(Flat(was)[n]) \cap changed = {}
    BY <1>1
  <2>. QED BY <1>9, <2>1, <2>2, WalkIs
<1>. QED BY <1>1, <1>7, <1>11 DEF VerdictOn

\* LEMMA: a proposal that loads, changes no set, keeps the rule that denied in
\* its file and holds, beside the rules ahead of it, only rules the record
\* decides, has an answer.
LEMMA AlwaysDecides ==
    ASSUME NEW files \in Seq(FileSet), Loads(files), NEW was \in Seq(FileSet), NEW ev,
           FirstMatch(was, ev) # 0, ChangedSets(files, Defined(was)) = {},
           NEW host, host = None \/ host = was,
           NEW i \in DOMAIN files,
           files[i].name = was[Locate(was, Flat(was), FirstMatch(was, ev))].name,
           Flat(was)[FirstMatch(was, ev)] \in ToSet(files[i].rules),
           \A r \in ToSet(Flat(files)) \ ToSet(Flat(was)) :
              Decided(r, RecordOf(ev), Defined(files)),
           \A at \in DOMAIN Flat(was) : at >= FirstMatch(was, ev) =>
              Decided(Flat(was)[at], RecordOf(ev), Defined(files))
    PROVE  VerdictOn(ev, was, host, files) # "unknown"
<1>1. PICK n, changed : n = FirstMatch(was, ev) /\ changed = ChangedSets(files, Defined(was))
  OBVIOUS
<1>2. n \in DOMAIN Flat(was)
  BY <1>1, FirstIs
<1>3. PICK from : from = From(host, Flat(was), n)
  OBVIOUS
<1>4. from # "drift" /\ (from = None \/ files[i].name = from)
  <2>1. CASE host = None
    BY <1>3, <2>1, NamesAssumption DEF From
  <2>2. CASE host # None /\ host = was
    <3>1. Locate(was, Flat(was), n) \in DOMAIN was /\ Locate(was, Flat(was), n) # 0
      BY <1>2, LocateOwn
    <3>2. from = was[Locate(was, Flat(was), n)].name
      BY <1>3, <2>2, <3>1 DEF From
    <3>3. was[Locate(was, Flat(was), n)] \in FileSet
      BY <3>1
    <3>4. from \in Names
      BY <3>2, <3>3 DEF FileSet
    <3>. QED BY <1>1, <3>2, <3>4, NamesAssumption DEF Names
  <2>. QED BY <2>1, <2>2
<1>5. PICK at \in DOMAIN Flat(files) :
         Flat(files)[at] = Flat(was)[n] /\ at \in Ahead(files, i) + 1 .. Ahead(files, i + 1)
  BY <1>1, FromFile
<1>6. PICK limit : limit = Limit(Flat(was)[n], from, files)
  OBVIOUS
<1>7. limit \in DOMAIN Flat(files) /\ limit # 0
  BY <1>4, <1>5, <1>6, LimitIs
<1>8. CheckVerdict(RecordOf(ev), n, None, Flat(was), host, changed, files)
        = Walk(RecordOf(ev), n, Flat(was), changed, files, limit)
  BY <1>2, <1>3, <1>4, <1>6, <1>7, VerdictWalks
<1>9. Flat(files) \in Seq(WrittenRules) /\ Flat(was) \in Seq(WrittenRules)
  BY FlatIs
<1>10. limit \in Nat /\ limit <= Len(Flat(files)) /\ Len(Flat(files)) \in Nat
  BY <1>7, <1>9
<1>11. ASSUME NEW s \in 1..limit - 1, StopsAt(s, RecordOf(ev), n, Flat(was), changed, files)
       PROVE  Settled(Flat(files)[s], Matches(Flat(files)[s], RecordOf(ev), Defined(files))) # "unknown"
  <2>1. PICK r : r = Flat(files)[s]
    OBVIOUS
  <2>2. s \in DOMAIN Flat(files)
    BY <1>9, <1>10
  <2>3. r \in ToSet(Flat(files)) /\ r \in WrittenRules /\ r.dec \in Decisions
    BY <1>9, <2>1, <2>2 DEF ToSet, Loads
  <2>4. ~Skipped(r, n, Flat(was), changed) /\ Matches(r, RecordOf(ev), Defined(files)) # "no"
    BY <1>11, <2>1 DEF StopsAt, PassedOver
  <2>5. r \notin ToSet(SubSeq(Flat(was), 1, n - 1))
    BY <1>1, <2>4 DEF Skipped
  <2>6. Decided(r, RecordOf(ev), Defined(files))
    <3>1. CASE r \notin ToSet(Flat(was))
      BY <2>3, <3>1
    <3>2. CASE r \in ToSet(Flat(was))
      <4>1. PICK b \in DOMAIN Flat(was) : r = Flat(was)[b]
        BY <3>2 DEF ToSet
      <4>2. n \in 1..Len(Flat(was)) /\ Len(Flat(was)) \in Nat /\ b \in 1..Len(Flat(was))
        BY <1>2, <1>9
      <4>3. ASSUME b < n PROVE FALSE
        <5>1. b \in DOMAIN SubSeq(Flat(was), 1, n - 1) /\ SubSeq(Flat(was), 1, n - 1)[b] = r
          BY <1>9, <4>1, <4>2, <4>3
        <5>. QED BY <2>5, <5>1 DEF ToSet
      <4>4. b >= n
        BY <4>2, <4>3
      <4>. QED BY <1>1, <4>1, <4>4
    <3>. QED BY <3>1, <3>2
  <2>7. Matches(r, RecordOf(ev), Defined(files)) # Open
    BY <2>6 DEF Decided, Matches, Open
  <2>8. Matches(r, RecordOf(ev), Defined(files)) = "yes"
    BY <2>3, <2>4, <2>7, MatchesSound
  <2>. QED BY <2>1, <2>3, <2>8, DecisionWords DEF Settled
<1>12. References(Flat(was)[n]) \cap changed = {}
  BY <1>1
<1>13. Walk(RecordOf(ev), n, Flat(was), changed, files, limit) # "unknown"
  BY <1>10, <1>11, <1>12, WalkIs
<1>. QED BY <1>1, <1>8, <1>13 DEF VerdictOn

\* LEMMA: there are three verdicts.
LEMMA ThreeVerdicts ==
    ASSUME NEW files \in Seq(FileSet), NEW was \in Seq(FileSet), NEW ev, NEW host
    PROVE  VerdictOn(ev, was, host, files) \in {"allowed", "denied", "unknown"}
<1>1. PICK rec, n, changed : /\ rec = RecordOf(ev) /\ n = FirstMatch(was, ev)
                             /\ changed = ChangedSets(files, Defined(was))
  OBVIOUS
<1>2. CASE CheckVerdict(rec, n, None, Flat(was), host, changed, files) = "unknown"
  BY <1>1, <1>2 DEF VerdictOn
<1>3. CASE CheckVerdict(rec, n, None, Flat(was), host, changed, files) # "unknown"
  <2>1. PICK limit \in DOMAIN Flat(files) :
           CheckVerdict(rec, n, None, Flat(was), host, changed, files)
             = Walk(rec, n, Flat(was), changed, files, limit)
    BY <1>3, VerdictIs
  <2>2. limit \in Nat
    <3>1. Flat(files) \in Seq(WrittenRules)
      BY FlatIs
    <3>. QED BY <3>1
  <2>3. Walk(rec, n, Flat(was), changed, files, limit) \in {"allowed", "denied", "unknown"}
    BY <2>2, WalkIs DEF Settled
  <2>. QED BY <1>1, <2>1, <2>3 DEF VerdictOn
<1>. QED BY <1>2, <1>3

--------------------------------------------------------------------------------
(* The invariant                                                           *)

\* rules.d/ holds what was written there, and the daemon runs on rules that
\* it loads.
HostInv ==
    /\ Dir(disk) /\ Dir(loaded) /\ Loads(Listing(loaded))
    /\ edits \in 0..MaxEdits

\* A denial is of the loaded rules: they have not been loaded anew since.
DenialInv ==
    denial # None =>
       /\ denial.n = FirstMatch(Listing(loaded), denial.event)
       /\ denial.n # 0 /\ Compiled[denial.n].dec \in Denying

\* Row was answered for the denial, over the listing of a rules.d/, beside the
\* host's own or, when that is the proposal, beside none.
RowFrom(dir, own) ==
    /\ Dir(dir) /\ row.files = Listing(dir)
    /\ own = None \/ own = Listing(ReadRulesD(row.lost))
    /\ row.mode = "disk" => own = None
    /\ row.verdict = VerdictOn(denial.event, Listing(loaded), own, row.files)

RowInv == row # None => denial # None /\ \E dir, own : RowFrom(dir, own)

CheckInv == HostInv /\ DenialInv /\ RowInv

\* LEMMA: writing a file of a rules.d/ makes a rules.d/.
LEMMA WithIs ==
    ASSUME NEW d, Dir(d), NEW name \in Names, NEW content \in Contents
    PROVE  Dir(With(d, name, content))
BY DEF Dir, With, Written

\* LEMMA: what can be read of rules.d/ is one.
LEMMA ReadIs ==
    ASSUME Dir(disk), NEW lost
    PROVE  Dir(ReadRulesD(lost))
BY DEF Dir, ReadRulesD

\* LEMMA: the host's files and what the daemon made of them.
LEMMA StartInv ==
    Init => CheckInv
<1>. SUFFICES ASSUME Init PROVE CheckInv
  OBVIOUS
<1>1. Dir(Start)
  BY StartAssumption DEF Dir, Names, Written
<1>2. HostInv
  BY <1>1, StartAssumption, ContentsAssumption DEF Init, HostInv
<1>. QED BY <1>2 DEF Init, CheckInv, DenialInv, RowInv

\* LEMMA: a run of the verb.
LEMMA AnsweredInv ==
    ASSUME CheckInv, row = None, denial # None, UNCHANGED <<disk, loaded, denial, edits>>,
           NEW mode, NEW lost, NEW host, NEW dir, Dir(dir), NEW proposed,
           host = None \/ host = Listing(ReadRulesD(lost)), mode = "disk" => host = None,
           Answered(mode, lost, host, Listing(dir), proposed)
    PROVE  CheckInv'
<1>1. HostInv' /\ DenialInv'
  BY DEF CheckInv, HostInv, DenialInv, Compiled, Dir
<1>2. row' = [mode |-> mode, lost |-> lost, files |-> Listing(dir), proposed |-> proposed,
              verdict |-> VerdictOn(denial.event, Listing(loaded), host, Listing(dir))]
  <2>1. denial.n = FirstMatch(Listing(loaded), denial.event)
    BY DEF CheckInv, DenialInv
  <2>. QED BY <2>1 DEF Answered, VerdictOn, LoadedSets, Compiled
<1>3. /\ row'.files = Listing(dir) /\ row'.lost = lost /\ row'.mode = mode
      /\ row'.verdict = VerdictOn(denial.event, Listing(loaded), host, Listing(dir))
  BY <1>2
<1>4. RowFrom(dir, host)'
  BY <1>3 DEF RowFrom, ReadRulesD, Dir
<1>5. RowInv'
  BY <1>4 DEF RowInv
<1>. QED BY <1>1, <1>5 DEF CheckInv

\* LEMMA: the invariant is inductive.
LEMMA CheckStep ==
    CheckInv /\ [Next]_vars => CheckInv'
<1>. SUFFICES ASSUME CheckInv, [Next]_vars PROVE CheckInv'
  OBVIOUS
<1>1. ASSUME NEW name \in Names, NEW content \in Edited, Edit(name, content)
      PROVE  CheckInv'
  <2>1. Dir(With(disk, name, content))
    BY WithIs, ContentsAssumption DEF CheckInv, HostInv
  <2>2. edits + 1 \in 0..MaxEdits
    BY <1>1, ContentsAssumption DEF CheckInv, HostInv, Edit
  <2>3. HostInv'
    BY <1>1, <2>1, <2>2 DEF CheckInv, HostInv, Edit, Dir
  <2>4. DenialInv' /\ RowInv'
    BY <1>1 DEF CheckInv, DenialInv, RowInv, Edit, Compiled
  <2>. QED BY <2>3, <2>4 DEF CheckInv
<1>2. ASSUME NEW lost \in SUBSET (Unreadable \cap DOMAIN disk), NEW name \in Names,
             NEW content \in Contents, CheckFile(lost, name, content)
      PROVE  CheckInv'
  <2>1. Dir(Merged(lost, name, content))
    BY WithIs, ReadIs DEF CheckInv, HostInv, Merged
  <2>. QED BY <1>2, <2>1, AnsweredInv DEF CheckFile
<1>3. ASSUME NEW lost \in SUBSET (Unreadable \cap DOMAIN disk), NEW name \in Names,
             NEW content \in Contents, CheckDir(lost, name, content)
      PROVE  CheckInv'
  <2>1. Dir(With(loaded, name, content))
    BY WithIs DEF CheckInv, HostInv
  <2>. QED BY <1>3, <2>1, AnsweredInv DEF CheckDir
<1>4. ASSUME NEW lost \in SUBSET (Unreadable \cap DOMAIN disk), CheckDisk(lost)
      PROVE  CheckInv'
  <2>1. Dir(ReadRulesD(lost))
    BY ReadIs DEF CheckInv, HostInv
  <2>. QED BY <1>4, <2>1, AnsweredInv DEF CheckDisk
<1>5. ASSUME NEW name \in Names, Delete(name)
      PROVE  CheckInv'
  <2>1. Dir([f \in DOMAIN disk \ {name} |-> disk[f]])
    BY DEF CheckInv, HostInv, Dir
  <2>2. edits + 1 \in 0..MaxEdits
    BY <1>5, ContentsAssumption DEF CheckInv, HostInv, Delete
  <2>3. HostInv'
    BY <1>5, <2>1, <2>2 DEF CheckInv, HostInv, Delete, Dir
  <2>4. DenialInv' /\ RowInv'
    BY <1>5 DEF CheckInv, DenialInv, RowInv, Delete, Compiled
  <2>. QED BY <2>3, <2>4 DEF CheckInv
<1>6. ASSUME NEW ev \in Events, Deny(ev)
      PROVE  CheckInv'
  <2>1. HostInv'
    BY <1>6 DEF CheckInv, HostInv, Deny, Dir
  <2>2. denial'.n = FirstMatch(Listing(loaded), ev) /\ denial'.event = ev
    BY <1>6 DEF Deny
  <2>3. DenialInv'
    BY <1>6, <2>2 DEF DenialInv, Deny, Compiled
  <2>4. RowInv'
    BY <1>6 DEF CheckInv, RowInv, Deny
  <2>. QED BY <2>1, <2>3, <2>4 DEF CheckInv
<1>7. ASSUME Fagenrules PROVE CheckInv'
  <2>1. HostInv'
    BY <1>7 DEF CheckInv, HostInv, Fagenrules, Dir
  <2>2. DenialInv' /\ RowInv'
    BY <1>7 DEF CheckInv, DenialInv, RowInv, Fagenrules
  <2>. QED BY <2>1, <2>2 DEF CheckInv
<1>8. ASSUME Exit PROVE CheckInv'
  <2>1. HostInv' /\ DenialInv'
    BY <1>8 DEF CheckInv, HostInv, DenialInv, Exit, Dir, Compiled
  <2>2. RowInv'
    BY <1>8 DEF RowInv, Exit
  <2>. QED BY <2>1, <2>2 DEF CheckInv
<1>9. ASSUME UNCHANGED vars PROVE CheckInv'
  <2>1. HostInv' /\ DenialInv'
    BY <1>9 DEF CheckInv, HostInv, DenialInv, Dir, Compiled, vars
  <2>2. RowInv'
    BY <1>9 DEF CheckInv, RowInv, RowFrom, ReadRulesD, Dir, vars
  <2>. QED BY <2>1, <2>2 DEF CheckInv
<1>. QED BY <1>1, <1>2, <1>3, <1>4, <1>5, <1>6, <1>7, <1>8, <1>9 DEF Next

\* LEMMA: it holds in every reachable state.
LEMMA Invariant ==
    Spec => []CheckInv
BY StartInv, CheckStep, PTL DEF Spec

--------------------------------------------------------------------------------
(* The properties                                                          *)

\* LEMMA: what the invariant says of a row.
LEMMA RowIs ==
    ASSUME CheckInv, row # None
    PROVE  LET was == Listing(loaded)
           IN  /\ was \in Seq(FileSet) /\ Loads(was)
               /\ FirstMatch(was, denial.event) # 0 /\ denial.n = FirstMatch(was, denial.event)
               /\ Flat(was)[FirstMatch(was, denial.event)].dec \in Denying
               /\ row.files \in Seq(FileSet)
               /\ \E own : /\ row.verdict = VerdictOn(denial.event, was, own, row.files)
                           /\ own = None \/ own = Listing(ReadRulesD(row.lost))
                           /\ row.mode = "disk" => own = None
<1>1. PICK dir, own : RowFrom(dir, own)
  BY DEF CheckInv, RowInv
<1>2. Listing(dir) \in Seq(FileSet) /\ Listing(loaded) \in Seq(FileSet)
  BY <1>1, ListingIs DEF CheckInv, HostInv, RowFrom
<1>3. denial # None
  BY DEF CheckInv, RowInv
<1>. QED BY <1>1, <1>2, <1>3 DEF CheckInv, HostInv, DenialInv, RowFrom, Compiled

\* THEOREM: `allowed` is never wrong (check.rs:8), for every rules.d/, every
\* event and every proposal that was read whole, as long as every rule has a
\* decision the daemon knows.  Without those it is not so: main.rs:601 passes
\* over what it cannot read, and check_misspelt is the counterexample for the
\* decision.
THEOREM AllowedNeverWrong ==
    ASSUME \A r \in WrittenRules : r.dec \in Decisions
    PROVE  Spec => []AllowedIsTrue
<1>1. CheckInv => AllowedIsTrue
  <2>. SUFFICES ASSUME CheckInv, row # None, row.files = row.proposed, row.verdict = "allowed"
                PROVE  ~DeniesAfter(row.proposed, denial.event)
    BY DEF AllowedIsTrue, ReadWhole
  <2>1. ~DeniesAfter(row.files, denial.event)
    BY RowIs, AllowedSound
  <2>. QED BY <2>1
<1>. QED BY <1>1, Invariant, PTL

\* THEOREM: `denied` is not a guess: told to load a proposal that was read
\* whole, the daemon denies the access again.
THEOREM DeniedNeverWrong ==
    Spec => []DeniedIsTrue
<1>1. CheckInv => DeniedIsTrue
  <2>. SUFFICES ASSUME CheckInv, row # None, row.files = row.proposed, row.verdict = "denied"
                PROVE  DeniesAfter(row.proposed, denial.event)
    BY DEF DeniedIsTrue, ReadWhole
  <2>1. DeniesAfter(row.files, denial.event)
    BY RowIs, DeniedSound
  <2>. QED BY <2>1
<1>. QED BY <1>1, Invariant, PTL

\* THEOREM: a rules.d/ that merges to the loaded rules, set for set, and loads,
\* is answered `denied` throughout, as main.rs notes of it.
THEOREM NothingIsProposed ==
    Spec => []NothingProposed
<1>1. CheckInv => NothingProposed
  <2>. SUFFICES ASSUME CheckInv, row # None, ProposesNothing, Loads(row.files)
                PROVE  row.verdict = "denied"
    BY DEF NothingProposed
  <2>1. row.verdict = VerdictOn(denial.event, Listing(loaded), None, row.files)
    BY RowIs DEF ProposesNothing
  <2>. QED BY <2>1, RowIs, NothingNew DEF ProposesNothing, Compiled, LoadedSets
<1>. QED BY <1>1, Invariant, PTL

\* THEOREM: `unknown` is not a way out: a proposal that loads and that the
\* record decides is answered.
THEOREM AlwaysDecisive ==
    Spec => []Decisive
<1>1. CheckInv => Decisive
  <2>. DEFINE was == Listing(loaded)
              n == FirstMatch(was, denial.event)
  <2>. SUFFICES ASSUME CheckInv, row # None, disk = loaded, row.lost = {}, Loads(row.files),
                       ChangedSets(row.files, LoadedSets) = {},
                       \A r \in ToSet(Flat(row.files)) \ ToSet(Compiled) :
                          Decided(r, RecordOf(denial.event), Defined(row.files)),
                       NEW i \in DOMAIN row.files,
                       row.files[i].name
                         = Listing(disk)[Locate(Listing(disk), Compiled, denial.n)].name,
                       Compiled[denial.n] \in ToSet(row.files[i].rules),
                       \A at \in DOMAIN Compiled : at >= denial.n =>
                          Decided(Compiled[at], RecordOf(denial.event), Defined(row.files))
                PROVE  row.verdict # "unknown"
    BY DEF Decisive
  <2>1. denial.n = n /\ Compiled = Flat(was) /\ LoadedSets = Defined(was)
    BY RowIs DEF Compiled, LoadedSets
  <2>2. Listing(ReadRulesD({})) = was
    <3>1. PICK d : d = ReadRulesD({})
      OBVIOUS
    <3>2. DOMAIN d = DOMAIN disk /\ \A f \in DOMAIN disk : d[f] = disk[f]
      BY <3>1 DEF ReadRulesD
    <3>3. \A i_1 \in DOMAIN NameOrder :
             IF NameOrder[i_1] \in DOMAIN d THEN FileOf(d, NameOrder[i_1]) = FileOf(disk, NameOrder[i_1])
             ELSE NameOrder[i_1] \notin DOMAIN disk
      BY <3>2 DEF FileOf
    <3>4. [k \in DOMAIN NameOrder |->
             IF NameOrder[k] \in DOMAIN d THEN <<FileOf(d, NameOrder[k])>> ELSE << >>]
            = [k \in DOMAIN NameOrder |->
                 IF NameOrder[k] \in DOMAIN disk THEN <<FileOf(disk, NameOrder[k])>> ELSE << >>]
      BY <3>2, <3>3
    <3>. QED BY <3>1, <3>4 DEF Listing
  <2>3. PICK own : /\ row.verdict = VerdictOn(denial.event, was, own, row.files)
                   /\ own = None \/ own = was
    BY <2>2, RowIs
  <2>. QED BY <2>1, <2>3, RowIs, AlwaysDecides
<1>. QED BY <1>1, Invariant, PTL

\* THEOREM: the type invariant: what a denial and a row are, and a listing in
\* fagenrules' order.
THEOREM TypeCorrect ==
    Spec => []TypeOK
<1>1. CheckInv => TypeOK
  <2>. SUFFICES ASSUME CheckInv PROVE TypeOK
    OBVIOUS
  <2>1. DOMAIN disk \subseteq Names /\ DOMAIN loaded \subseteq Names /\ edits \in 0..MaxEdits
    BY DEF CheckInv, HostInv, Dir
  <2>2. denial = None \/ (denial.n \in DOMAIN Compiled /\ Compiled[denial.n].dec \in Denying)
    <3>1. Listing(loaded) \in Seq(FileSet)
      BY ListingIs DEF CheckInv, HostInv
    <3>. QED BY <3>1, FirstIs DEF CheckInv, DenialInv, Compiled
  <2>3. ASSUME row # None
        PROVE  /\ denial # None /\ row.verdict \in {"allowed", "denied", "unknown"}
               /\ \A i, j \in DOMAIN row.files :
                     i < j => Position(row.files[i].name) < Position(row.files[j].name)
    <3>1. denial # None
      BY <2>3 DEF CheckInv, RowInv
    <3>2. row.verdict \in {"allowed", "denied", "unknown"}
      BY <2>3, RowIs, ThreeVerdicts
    <3>3. PICK dir, own : RowFrom(dir, own)
      BY <2>3 DEF CheckInv, RowInv
    <3>4. PICK h : InOrderOf(h, dir)
      BY <3>3, ListingIs DEF RowFrom
    <3>5. ASSUME NEW k \in DOMAIN row.files PROVE Position(row.files[k].name) = h[k]
      <4>1. h[k] \in DOMAIN NameOrder /\ row.files[k].name = NameOrder[h[k]]
        BY <3>3, <3>4 DEF RowFrom, InOrderOf, FileOf
      <4>2. \A p \in DOMAIN NameOrder : NameOrder[p] = NameOrder[h[k]] => p = h[k]
        BY <4>1, NamesAssumption DEF IsInjective
      <4>. QED BY <4>1, <4>2 DEF Position
    <3>6. \A i, j \in DOMAIN row.files : i < j => h[i] < h[j]
      BY <3>3, <3>4 DEF RowFrom, InOrderOf
    <3>. QED BY <3>1, <3>2, <3>5, <3>6
  <2>. QED BY <2>1, <2>2, <2>3 DEF TypeOK
<1>. QED BY <1>1, Invariant, PTL
================================================================================
