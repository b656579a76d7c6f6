----------------------------- MODULE AnalyzerProofs -----------------------------
(***************************************************************************)
(* Proofs about Analyzer, for every log, every ruleset and every proposal: *)
(* the state keeps its shape, what was written a line at a time is the     *)
(* report of the end, nothing of it is taken back, and every denial is     *)
(* counted in exactly one row of the check report.                         *)
(*                                                                         *)
(* Then, of what is reported: exit 2 says what it means, the counts are    *)
(* those of the log, nothing is suggested that no denial warrants, and no  *)
(* denial passes in silence.                                               *)
(***************************************************************************)
EXTENDS Analyzer, DataLemmas

\* The records a line can yield, the images one can be stale to, and what can
\* be made of it.
Recs == {l.rec : l \in Lines} \cup UNION {ToSet(rs) : rs \in Releases}
Images == {None} \cup {r.path : r \in Recs}
Answers == {Decide(r, image) : r \in Recs, image \in Images}
Keys == {Key(r) : r \in Recs}
Verdicts == {VerdictOn(r, image) : r \in Recs, image \in Images}
Numbers == {r.rule : r \in Recs}

Tallies == [denials : Nat, rules : Nat, trust : Nat]
Rows == [key : Keys, count : Nat, verdict : Verdicts]

Shapes ==
    /\ pending \in Seq(Recs) /\ done \in Seq(Recs)
    /\ held \in Nat /\ content \in Nat /\ parsed \in Nat /\ corrupt \in Nat
    /\ seen \in Seq(Answers) /\ checked \in Seq(Rows)
    /\ tally = [n \in DOMAIN tally |-> tally[n]]
    /\ \A n \in DOMAIN tally : tally[n] \in Tallies
    /\ live.suggestions \in Seq(Answers) /\ live.why \in Seq(Numbers) /\ live.warned \in Nat
    /\ \A p \in DOMAIN execs : execs[p].path \in Images

\* Until the route is known nothing was judged and nothing waits to be.
Untouched == route = "undecided" => pending = << >> /\ done = << >>

IInv == TypeOK /\ Shapes /\ Untouched /\ LiveIsReport

--------------------------------------------------------------------------------
LEMMA InitInv == Init => IInv
BY DEF Init, IInv, TypeOK, Shapes, Untouched, LiveIsReport, ToSet, IsInjective, Recs

\* Appending what was not there keeps a sequence without repetitions.
LEMMA InjectiveAppend ==
    ASSUME NEW S, NEW s \in Seq(S), NEW e \in S, IsInjective(s), e \notin ToSet(s)
    PROVE  IsInjective(s \o <<e>>) /\ ToSet(s \o <<e>>) = ToSet(s) \cup {e}
<1>. DEFINE t == s \o <<e>>
<1>1. /\ t \in Seq(S) /\ Len(t) = Len(s) + 1 /\ t[Len(s) + 1] = e
      /\ \A i \in 1..Len(s) : t[i] = s[i]
  OBVIOUS
<1>2. DOMAIN t = 1..(Len(s) + 1) /\ DOMAIN s = 1..Len(s) /\ Len(s) \in Nat
  BY <1>1
<1>3. \A i \in 1..Len(s) : s[i] # e
  BY <1>2 DEF ToSet
<1>4. ASSUME NEW i \in DOMAIN t, NEW j \in DOMAIN t, t[i] = t[j]
      PROVE  i = j
  BY <1>1, <1>2, <1>3, <1>4 DEF IsInjective
<1>5. IsInjective(t)
  BY <1>4 DEF IsInjective
<1>6. ToSet(t) \subseteq ToSet(s) \cup {e}
  BY <1>1, <1>2 DEF ToSet
<1>7. ToSet(s) \subseteq ToSet(t)
  <2>. SUFFICES ASSUME NEW i \in DOMAIN s PROVE s[i] \in ToSet(t)
    BY DEF ToSet
  <2>1. i \in DOMAIN t /\ t[i] = s[i]
    BY <1>1, <1>2
  <2>. QED BY <2>1 DEF ToSet
<1>8. e \in ToSet(t)
  BY <1>1, <1>2 DEF ToSet
<1>. QED BY <1>5, <1>6, <1>7, <1>8

\* A record of the line being fed is one of those a line can yield.
LEMMA TakeRecord ==
    ASSUME Shapes, NEW r, Take(r)
    PROVE  /\ r \in Recs /\ pending' \in Seq(Recs) /\ done' = Append(done, r) /\ done' \in Seq(Recs)
           /\ pending # << >>
BY DEF Shapes, Take

\* The image a record is stale to is one an exec of the log named.
LEMMA StaleImage ==
    ASSUME Shapes, NEW r
    PROVE  Stale(r) \in Images
BY DEF Shapes, Stale, HasPid, Images

\* The pid map holds images of the log, under pids that are pids.
LEMMA ExecsShape ==
    ASSUME Shapes, TypeOK, NEW r \in Recs
    PROVE  \A p \in DOMAIN ExecsAfter(r) : /\ p \notin {None, "0"} /\ ExecsAfter(r)[p].path # None
                                          /\ ExecsAfter(r)[p].path \in Images
<1>1. CASE ~HasPid(r) \/ r.perm # "execute" \/ r.path = None
  BY <1>1 DEF ExecsAfter, Shapes, TypeOK
<1>2. CASE HasPid(r) /\ r.perm = "execute" /\ r.path # None
  <2>1. ExecsAfter(r) = [p \in DOMAIN execs \cup {r.pid} |->
                           IF p = r.pid THEN [exe |-> r.exe, path |-> r.path] ELSE execs[p]]
    BY <1>2 DEF ExecsAfter
  <2>2. r.path \in Images
    BY DEF Images
  <2>. QED BY <1>2, <2>1, <2>2 DEF HasPid, Shapes, TypeOK
<1>. QED BY <1>1, <1>2

\* What one denial does to the tally.
LEMMA CreditedFacts ==
    ASSUME Shapes, TypeOK, NEW n, NEW kind
    PROVE  /\ DOMAIN Credited(n, kind) = DOMAIN tally \cup (IF n = 0 THEN {} ELSE {n})
           /\ Credited(n, kind) = [m \in DOMAIN Credited(n, kind) |-> Credited(n, kind)[m]]
           /\ \A m \in DOMAIN Credited(n, kind) :
                 /\ Credited(n, kind)[m] \in Tallies /\ m # 0 /\ Credited(n, kind)[m].denials > 0
                 /\ Credited(n, kind)[m].rules + Credited(n, kind)[m].trust
                       <= Credited(n, kind)[m].denials
<1>1. CASE n = 0
  BY <1>1 DEF Credited, Shapes, TypeOK
<1>2. CASE n # 0
  <2>. DEFINE old == TallyOf(n)
              new == [denials |-> old.denials + 1,
                      rules |-> old.rules + IF kind = "rule" THEN 1 ELSE 0,
                      trust |-> old.trust + IF kind = "trust" THEN 1 ELSE 0]
  <2>1. old \in Tallies /\ old.rules + old.trust <= old.denials
    BY DEF TallyOf, NoTally, Tallies, Shapes, TypeOK
  <2>2. new \in Tallies /\ new.denials > 0 /\ new.rules + new.trust <= new.denials
    BY <2>1 DEF Tallies
  <2>3. Credited(n, kind) = [m \in DOMAIN tally \cup {n} |-> IF m = n THEN new ELSE tally[m]]
    BY <1>2 DEF Credited
  <2>. HIDE DEF new
  <2>. QED BY <1>2, <2>2, <2>3 DEF Shapes, TypeOK
<1>. QED BY <1>1, <1>2

\* The row written live is the one the tally gains.
LEMMA WhyRowFacts ==
    ASSUME Shapes, LiveIsReport, NEW r \in Recs
    PROVE  LET why == live.why \o WhyRow(r.rule)
           IN  /\ why \in Seq(Numbers) /\ IsInjective(why)
               /\ ToSet(why) = DOMAIN tally \cup (IF r.rule = 0 THEN {} ELSE {r.rule})
<1>1. r.rule \in Numbers /\ live.why \in Seq(Numbers)
  BY DEF Numbers, Shapes
<1>2. CASE r.rule = 0 \/ r.rule \in DOMAIN tally
  <2>1. WhyRow(r.rule) = << >>
    BY <1>2 DEF WhyRow
  <2>2. live.why \o << >> = live.why
    BY <1>1
  <2>. QED BY <1>1, <1>2, <2>1, <2>2 DEF LiveIsReport
<1>3. CASE r.rule # 0 /\ r.rule \notin DOMAIN tally
  <2>1. WhyRow(r.rule) = <<r.rule>>
    BY <1>3 DEF WhyRow
  <2>2. IsInjective(live.why) /\ r.rule \notin ToSet(live.why) /\ ToSet(live.why) = DOMAIN tally
    BY <1>3 DEF LiveIsReport
  <2>3. live.why \o <<r.rule>> \in Seq(Numbers)
    BY <1>1
  <2>. QED BY <1>1, <1>3, <2>1, <2>2, <2>3, InjectiveAppend
<1>. QED BY <1>2, <1>3

\* A row keeps its key and its verdict, and the record's own is there.
LEMMA CheckedFacts ==
    ASSUME Shapes, NEW r \in Recs
    PROVE  /\ CheckedAfter(r) \in Seq(Rows)
           /\ \A i \in DOMAIN checked : /\ i \in DOMAIN CheckedAfter(r)
                                        /\ CheckedAfter(r)[i].key = checked[i].key
                                        /\ CheckedAfter(r)[i].verdict = checked[i].verdict
<1>1. Key(r) \in Keys /\ VerdictOf(r) \in Verdicts
  BY StaleImage DEF Keys, Verdicts, VerdictOf
<1>2. CASE Proposal = None
  BY <1>2 DEF CheckedAfter, Shapes
<1>3. CASE Proposal # None /\ \E i \in DOMAIN checked : checked[i].key = Key(r)
  <2>1. CheckedAfter(r) = [i \in DOMAIN checked |->
            IF checked[i].key = Key(r) THEN [checked[i] EXCEPT !.count = @ + 1] ELSE checked[i]]
    BY <1>3 DEF CheckedAfter
  <2>2. \A i \in DOMAIN checked : checked[i] \in Rows
    BY DEF Shapes
  <2>3. \A i \in DOMAIN checked : [checked[i] EXCEPT !.count = @ + 1] \in Rows
    BY <2>2 DEF Rows
  <2>4. \A i \in DOMAIN checked : /\ [checked[i] EXCEPT !.count = @ + 1].key = checked[i].key
                                 /\ [checked[i] EXCEPT !.count = @ + 1].verdict = checked[i].verdict
    BY <2>2 DEF Rows
  <2>5. DOMAIN checked = 1..Len(checked) /\ Len(checked) \in Nat
    BY DEF Shapes
  <2>. QED BY <2>1, <2>2, <2>3, <2>4, <2>5
<1>4. CASE Proposal # None /\ ~\E i \in DOMAIN checked : checked[i].key = Key(r)
  <2>. DEFINE row == [key |-> Key(r), count |-> 1, verdict |-> VerdictOf(r)]
  <2>1. CheckedAfter(r) = Append(checked, row)
    BY <1>4 DEF CheckedAfter
  <2>2. row \in Rows
    BY <1>1 DEF Rows
  <2>3. checked \in Seq(Rows)
    BY DEF Shapes
  <2>. HIDE DEF row
  <2>. QED BY <2>1, <2>2, <2>3
<1>. QED BY <1>2, <1>3, <1>4

--------------------------------------------------------------------------------
(* Every step keeps the invariant                                          *)

\* A line, or the end of the input, moves the route and what it counts only.
LEMMA InputInv ==
    ASSUME IInv, \/ \E l \in Lines : Hold(l) \/ FeedDaemon(l) \/ OpenAudit(l)
                 \/ \E l \in Lines, records \in Releases : FeedAudit(l, records)
                 \/ \E records \in Releases : Finish(records)
    PROVE  IInv' /\ UNCHANGED <<counted, done>>
<1>. USE DEF IInv
<1>1. \A rs \in Releases : rs \in Seq(Recs)
  <2>. SUFFICES ASSUME NEW rs \in Releases PROVE rs \in Seq(Recs)
    OBVIOUS
  <2>1. rs \in Seq(ToSet(rs)) /\ ToSet(rs) \subseteq Recs
    BY ReleasesAssumption DEF Recs
  <2>. QED BY <2>1
<1>2. \A l \in Lines : l.rec \in Recs
  BY DEF Recs
<1>3. ASSUME UNCHANGED <<live, counted, done>>, pending' \in Seq(Recs),
             held' \in Nat, content' \in Nat, parsed' \in Nat, parsed' <= content',
             route' \in {"undecided", "daemon", "audit"},
             route' # "undecided" => held' = 0,
             route' = "undecided" => route = "undecided" /\ content' = content /\ pending' = << >>
      PROVE  IInv'
  BY <1>3 DEF TypeOK, Shapes, Untouched, LiveIsReport, counted
<1>4. ASSUME NEW l \in Lines, Hold(l) PROVE IInv' /\ UNCHANGED <<counted, done>>
  BY <1>3, <1>4 DEF Hold, NextLine, TypeOK, Shapes, Untouched
<1>5. ASSUME NEW l \in Lines, FeedDaemon(l) PROVE IInv' /\ UNCHANGED <<counted, done>>
  <2>1. pending' \in Seq(Recs)
    BY <1>2, <1>5 DEF FeedDaemon
  <2>2. /\ content' \in Nat /\ parsed' \in Nat /\ parsed' <= content'
        /\ held' = 0 /\ route' = "daemon"
    <3>. DEFINE c == IF l.kind \in {"blank", "noise"} THEN 0 ELSE 1
                p == IF l.kind \in {"record", "audit"} THEN 1 ELSE 0
    <3>1. c \in {0, 1} /\ p \in {0, 1} /\ p <= c
      OBVIOUS
    <3>2. content' = content + held + c /\ parsed' = parsed + p
      BY <1>5 DEF FeedDaemon, Carried
    <3>3. held' = 0 /\ route' = "daemon"
      BY <1>5 DEF FeedDaemon
    <3>. HIDE DEF c, p
    <3>. QED BY <3>1, <3>2, <3>3 DEF TypeOK, Shapes
  <2>3. UNCHANGED <<live, counted, done>>
    BY <1>5 DEF FeedDaemon, NextLine
  <2>. QED BY <1>3, <2>1, <2>2, <2>3
<1>6. ASSUME NEW l \in Lines, OpenAudit(l) PROVE IInv' /\ UNCHANGED <<counted, done>>
  BY <1>3, <1>6 DEF OpenAudit, NextLine, TypeOK, Shapes
<1>7. ASSUME NEW l \in Lines, NEW records \in Releases, FeedAudit(l, records)
      PROVE  IInv' /\ UNCHANGED <<counted, done>>
  BY <1>1, <1>3, <1>7 DEF FeedAudit, NextLine, TypeOK, Shapes
<1>8. ASSUME NEW records \in Releases, Finish(records) PROVE IInv' /\ UNCHANGED <<counted, done>>
  <2>1. pending' \in Seq(Recs)
    BY <1>1, <1>8 DEF Finish
  <2>2. /\ content' \in Nat /\ parsed' \in Nat /\ parsed' <= content'
        /\ held' = 0 /\ route' = "daemon"
    BY <1>8 DEF Finish, TypeOK, Shapes
  <2>3. UNCHANGED <<live, counted, done>>
    BY <1>8 DEF Finish
  <2>. QED BY <1>3, <2>1, <2>2, <2>3
<1>. QED BY <1>4, <1>5, <1>6, <1>7, <1>8

\* What a record leaves alone, and what is left to show of the rest.
LEMMA RecordInv ==
    ASSUME IInv, NEW r, Take(r),
           /\ seen' \in Seq(Answers) /\ IsInjective(seen') /\ live'.suggestions = seen'
           /\ checked' \in Seq(Rows) /\ corrupt' \in Nat /\ live'.warned \in Nat
           /\ live'.warned = IF corrupt' > 0 THEN 1 ELSE 0,
           \A p \in DOMAIN execs' : /\ p \notin {None, "0"} /\ execs'[p].path # None
                                    /\ execs'[p].path \in Images,
           \/ tally' = tally /\ live'.why = live.why
           \/ \E kind : r \in Recs /\ tally' = Credited(r.rule, kind)
                         /\ live'.why = live.why \o WhyRow(r.rule)
    PROVE  IInv'
<1>1. /\ pending' \in Seq(Recs) /\ done' \in Seq(Recs) /\ route # "undecided"
      /\ UNCHANGED <<route, held, content, parsed>>
  BY TakeRecord DEF IInv, Take, Untouched, TypeOK
<1>. DEFINE Fits ==
       /\ tally' = [n \in DOMAIN tally' |-> tally'[n]]
       /\ \A n \in DOMAIN tally' : /\ tally'[n] \in Tallies /\ n # 0 /\ tally'[n].denials > 0
                                   /\ tally'[n].rules + tally'[n].trust <= tally'[n].denials
       /\ live'.why \in Seq(Numbers) /\ IsInjective(live'.why) /\ ToSet(live'.why) = DOMAIN tally'
<1>2. Fits
  <2>1. CASE tally' = tally /\ live'.why = live.why
    BY <2>1 DEF IInv, Shapes, TypeOK, LiveIsReport
  <2>2. ASSUME NEW kind, r \in Recs, tally' = Credited(r.rule, kind),
               live'.why = live.why \o WhyRow(r.rule)
        PROVE  Fits
    <3>. DEFINE c == Credited(r.rule, kind)
    <3>1. /\ DOMAIN c = DOMAIN tally \cup (IF r.rule = 0 THEN {} ELSE {r.rule})
          /\ c = [n \in DOMAIN c |-> c[n]]
          /\ \A n \in DOMAIN c : /\ c[n] \in Tallies /\ n # 0 /\ c[n].denials > 0
                                 /\ c[n].rules + c[n].trust <= c[n].denials
      BY CreditedFacts DEF IInv
    <3>2. tally' = c
      BY <2>2
    <3>. HIDE DEF c
    <3>3. /\ live'.why \in Seq(Numbers) /\ IsInjective(live'.why)
          /\ ToSet(live'.why) = DOMAIN tally \cup (IF r.rule = 0 THEN {} ELSE {r.rule})
      BY <2>2, WhyRowFacts DEF IInv
    <3>. QED BY <3>1, <3>2, <3>3
  <2>. QED BY <2>1, <2>2
<1>3. Shapes'
  BY <1>1, <1>2 DEF IInv, Shapes
<1>4. TypeOK'
  BY <1>1, <1>2 DEF IInv, TypeOK
<1>5. LiveIsReport'
  BY <1>2 DEF LiveIsReport
<1>. QED BY <1>1, <1>3, <1>4, <1>5 DEF IInv, Untouched

LEMMA CorruptedInv ==
    ASSUME IInv, NEW r, Corrupted(r)
    PROVE  IInv' /\ UNCHANGED <<seen, checked>>
<1>1. Take(r) /\ UNCHANGED <<seen, tally, execs, checked>> /\ corrupt' = corrupt + 1
  BY DEF Corrupted
<1>2. /\ live'.suggestions = live.suggestions \o << >> /\ live'.why = live.why \o << >>
      /\ live'.warned = live.warned + IF corrupt = 0 THEN 1 ELSE 0
  BY DEF Corrupted, HandBack
<1>3. live'.suggestions = live.suggestions /\ live'.why = live.why
  BY <1>2 DEF IInv, Shapes
<1>4. /\ corrupt' \in Nat /\ live'.warned \in Nat
      /\ live'.warned = IF corrupt' > 0 THEN 1 ELSE 0
  BY <1>1, <1>2 DEF IInv, Shapes, LiveIsReport
<1>5. /\ seen' \in Seq(Answers) /\ IsInjective(seen') /\ live'.suggestions = seen'
      /\ checked' \in Seq(Rows)
  BY <1>1, <1>3 DEF IInv, TypeOK, Shapes, LiveIsReport
<1>6. \A p \in DOMAIN execs' : /\ p \notin {None, "0"} /\ execs'[p].path # None
                              /\ execs'[p].path \in Images
  BY <1>1 DEF IInv, TypeOK, Shapes
<1>. QED BY <1>1, <1>3, <1>4, <1>5, <1>6, RecordInv

LEMMA PassedOverInv ==
    ASSUME IInv, NEW r, PassedOver(r)
    PROVE  IInv' /\ UNCHANGED <<seen, checked>>
<1>1. Take(r) /\ UNCHANGED <<live, seen, tally, execs, checked, corrupt>>
  BY DEF PassedOver, counted
<1>. QED BY <1>1, RecordInv DEF IInv, TypeOK, Shapes, LiveIsReport

LEMMA TruncatedInv ==
    ASSUME IInv, NEW r, Truncated(r)
    PROVE  IInv' /\ UNCHANGED <<seen, checked>>
<1>1. Take(r) /\ UNCHANGED <<seen, tally, execs, checked, corrupt>>
  BY DEF Truncated, counted
<1>2. /\ live'.suggestions = live.suggestions \o << >> /\ live'.why = live.why \o << >>
      /\ live'.warned = live.warned + 0
  BY DEF Truncated, HandBack
<1>3. live'.suggestions = live.suggestions /\ live'.why = live.why /\ live'.warned = live.warned
  BY <1>2 DEF IInv, Shapes
<1>. QED BY <1>1, <1>3, RecordInv DEF IInv, TypeOK, Shapes, LiveIsReport

LEMMA RefuseInv ==
    ASSUME IInv, NEW r, Refuse(r)
    PROVE  IInv' /\ UNCHANGED seen /\ checked' = CheckedAfter(r) /\ r \in Recs
<1>1. /\ Take(r) /\ UNCHANGED <<seen, corrupt>>
      /\ execs' = ExecsAfter(r) /\ tally' = Credited(r.rule, "none")
      /\ checked' = CheckedAfter(r)
  BY DEF Refuse
<1>2. r \in Recs
  BY <1>1, TakeRecord DEF IInv
<1>3. /\ live'.suggestions = live.suggestions \o << >>
      /\ live'.why = live.why \o WhyRow(r.rule)
      /\ live'.warned = live.warned + 0
  BY DEF Refuse, HandBack
<1>4. live'.suggestions = live.suggestions /\ live'.warned = live.warned
  BY <1>3 DEF IInv, Shapes
<1>5. checked' \in Seq(Rows)
  BY <1>1, <1>2, CheckedFacts DEF IInv
<1>6. \A p \in DOMAIN execs' : /\ p \notin {None, "0"} /\ execs'[p].path # None
                              /\ execs'[p].path \in Images
  BY <1>1, <1>2, ExecsShape DEF IInv
<1>7. /\ seen' \in Seq(Answers) /\ IsInjective(seen') /\ live'.suggestions = seen'
      /\ corrupt' \in Nat /\ live'.warned \in Nat
      /\ live'.warned = IF corrupt' > 0 THEN 1 ELSE 0
  BY <1>1, <1>4 DEF IInv, TypeOK, Shapes, LiveIsReport
<1>8. IInv'
  BY <1>1, <1>2, <1>3, <1>5, <1>6, <1>7, RecordInv
<1>. QED BY <1>1, <1>2, <1>8

\* Whether the suggestion is new or not, what was accepted stays in front.
LEMMA ResolveInv ==
    ASSUME IInv, NEW r, Resolve(r)
    PROVE  /\ IInv' /\ checked' = CheckedAfter(r) /\ r \in Recs
           /\ \/ seen' = seen
              \/ \E s \in Answers : seen' = seen \o <<s>>
<1>. DEFINE s == Decide(r, Stale(r))
            n == IF New(s) THEN <<s>> ELSE << >>
<1>1. /\ Take(r) /\ UNCHANGED corrupt
      /\ execs' = ExecsAfter(r) /\ checked' = CheckedAfter(r)
      /\ seen' = seen \o n
      /\ tally' = Credited(r.rule, IF New(s) THEN s.kind ELSE "none")
  BY DEF Resolve
<1>2. r \in Recs
  BY <1>1, TakeRecord DEF IInv
<1>3. /\ live'.suggestions = live.suggestions \o n
      /\ live'.why = live.why \o WhyRow(r.rule)
      /\ live'.warned = live.warned + 0
  BY DEF Resolve, HandBack
<1>4. s \in Answers
  BY <1>2, StaleImage DEF IInv, Answers
<1>5. New(s) => s \notin ToSet(seen)
  BY DEF New
<1>. HIDE DEF s
<1>6. /\ seen' \in Seq(Answers) /\ IsInjective(seen')
      /\ seen' = seen \/ \E t \in Answers : seen' = seen \o <<t>>
  <2>1. seen \in Seq(Answers) /\ IsInjective(seen)
    BY DEF IInv, TypeOK, Shapes
  <2>2. CASE New(s)
    <3>1. seen' = seen \o <<s>>
      BY <1>1, <2>2
    <3>2. seen \o <<s>> \in Seq(Answers)
      BY <1>4, <2>1
    <3>. QED BY <1>4, <1>5, <2>1, <2>2, <3>1, <3>2, InjectiveAppend
  <2>3. CASE ~New(s)
    <3>1. seen \o << >> = seen
      BY <2>1
    <3>2. seen' = seen
      BY <1>1, <2>3, <3>1
    <3>. QED BY <2>1, <3>2
  <2>. QED BY <2>2, <2>3
<1>7. live'.suggestions = seen' /\ live'.warned = live.warned
  BY <1>1, <1>3 DEF IInv, Shapes, LiveIsReport
<1>8. checked' \in Seq(Rows)
  BY <1>1, <1>2, CheckedFacts DEF IInv
<1>9. \A p \in DOMAIN execs' : /\ p \notin {None, "0"} /\ execs'[p].path # None
                              /\ execs'[p].path \in Images
  BY <1>1, <1>2, ExecsShape DEF IInv
<1>10. /\ corrupt' \in Nat /\ live'.warned \in Nat
       /\ live'.warned = IF corrupt' > 0 THEN 1 ELSE 0
  BY <1>1, <1>7 DEF IInv, Shapes, LiveIsReport
<1>11. IInv'
  <2>. DEFINE kind == IF New(s) THEN s.kind ELSE "none"
  <2>1. \E k : r \in Recs /\ tally' = Credited(r.rule, k)
               /\ live'.why = live.why \o WhyRow(r.rule)
    BY <1>1, <1>2, <1>3
  <2>. QED BY <1>1, <1>6, <1>7, <1>8, <1>9, <1>10, <2>1, RecordInv
<1>. QED BY <1>1, <1>2, <1>6, <1>11

LEMMA InvStep == IInv /\ [Next]_vars => IInv'
<1>. SUFFICES ASSUME IInv, [Next]_vars PROVE IInv'
  OBVIOUS
<1>1. CASE \/ \E l \in Lines : Hold(l) \/ FeedDaemon(l) \/ OpenAudit(l)
           \/ \E l \in Lines, records \in Releases : FeedAudit(l, records)
           \/ \E records \in Releases : Finish(records)
  BY <1>1, InputInv
<1>2. CASE Judge
  BY <1>2, CorruptedInv, PassedOverInv, TruncatedInv, RefuseInv, ResolveInv DEF Judge
<1>3. CASE UNCHANGED vars
  BY <1>3 DEF vars, counted, IInv, TypeOK, Shapes, Untouched, LiveIsReport
<1>. QED BY <1>1, <1>2, <1>3 DEF Next, Consumed

LEMMA Invariant == Spec => []IInv
<1>1. Init => IInv
  BY InitInv
<1>2. IInv /\ [Next]_vars => IInv'
  BY InvStep
<1>. QED BY <1>1, <1>2, PTL DEF Spec

\* The analyzer's state keeps its shape whatever the log holds: nothing is
\* judged before the route is known, no suggestion is accepted twice, and no
\* rule is credited with more suggestions than denials.
THEOREM TypeCorrect == Spec => []TypeOK
<1>1. IInv => TypeOK
  BY DEF IInv
<1>. QED BY <1>1, Invariant, PTL

\* What --follow wrote a line at a time is what batch reports at the end:
\* analyze.rs's Step against its Finish.
THEOREM LiveReport == Spec => []LiveIsReport
<1>1. IInv => LiveIsReport
  BY DEF IInv
<1>. QED BY <1>1, Invariant, PTL

--------------------------------------------------------------------------------
(* What was handed back stays                                              *)

LEMMA PrefixOfAppend ==
    ASSUME NEW S, NEW s \in Seq(S), NEW e \in S
    PROVE  IsPrefix(s, s) /\ IsPrefix(s, s \o <<e>>)
BY DEF IsPrefix

\* A suggestion once written is never taken back or moved, and a check row
\* once written keeps its key and its verdict: the lines --follow wrote cannot
\* be contradicted by the end of the run.
THEOREM NoRetraction == Spec => NothingRetracted
<1>. DEFINE Kept == /\ IsPrefix(seen, seen')
                    /\ \A i \in DOMAIN checked : /\ i \in DOMAIN checked'
                                                 /\ checked'[i].key = checked[i].key
                                                 /\ checked'[i].verdict = checked[i].verdict
<1>1. IInv /\ [Next]_vars => [Kept]_vars
  <2>. SUFFICES ASSUME IInv, Next PROVE Kept
    OBVIOUS
  <2>. seen \in Seq(Answers)
    BY DEF IInv, Shapes
  <2>1. CASE UNCHANGED <<seen, checked>>
    BY <2>1, PrefixOfAppend DEF IsPrefix
  <2>2. CASE \/ \E l \in Lines : Hold(l) \/ FeedDaemon(l) \/ OpenAudit(l)
             \/ \E l \in Lines, records \in Releases : FeedAudit(l, records)
             \/ \E records \in Releases : Finish(records)
    BY <2>1, <2>2, InputInv DEF counted
  <2>3. ASSUME NEW r, Corrupted(r) \/ PassedOver(r) \/ Truncated(r) PROVE Kept
    BY <2>1, <2>3, CorruptedInv, PassedOverInv, TruncatedInv
  <2>4. ASSUME NEW r, Refuse(r) PROVE Kept
    <3>1. UNCHANGED seen /\ checked' = CheckedAfter(r) /\ r \in Recs
      BY <2>4, RefuseInv
    <3>2. IsPrefix(seen, seen')
      BY <3>1 DEF IsPrefix
    <3>. QED BY <3>1, <3>2, CheckedFacts DEF IInv
  <2>5. ASSUME NEW r, Resolve(r) PROVE Kept
    <3>1. checked' = CheckedAfter(r) /\ r \in Recs
      BY <2>5, ResolveInv
    <3>2. seen' = seen \/ \E s \in Answers : seen' = seen \o <<s>>
      BY <2>5, ResolveInv
    <3>3. IsPrefix(seen, seen')
      <4>1. CASE seen' = seen
        BY <4>1 DEF IsPrefix
      <4>2. ASSUME NEW s \in Answers, seen' = seen \o <<s>> PROVE IsPrefix(seen, seen')
        <5>1. IsPrefix(seen, seen \o <<s>>)
          BY PrefixOfAppend
        <5>. QED BY <4>2, <5>1
      <4>. QED BY <3>2, <4>1, <4>2
    <3>. QED BY <3>1, <3>3, CheckedFacts DEF IInv
  <2>6. CASE Consumed
    BY <2>1, <2>6 DEF Consumed, vars, counted
  <2>. QED BY <2>2, <2>3, <2>4, <2>5, <2>6 DEF Next, Judge
<1>. QED BY <1>1, Invariant, PTL DEF Spec, NothingRetracted

--------------------------------------------------------------------------------
(* Every denial in one row                                                 *)

\* The whole denials of a log that have key k.
KeyedIn(log, k) == {i \in DOMAIN log : Whole(log[i]) /\ Key(log[i]) = k}

\* RowsCount of any rows and any log.
Counted(rows, log) ==
    /\ \A i, j \in DOMAIN rows : rows[i].key = rows[j].key => i = j
    /\ \A j \in DOMAIN rows : rows[j].count = Cardinality(KeyedIn(log, rows[j].key))
    /\ \A i \in DOMAIN log : Whole(log[i]) => \E j \in DOMAIN rows : rows[j].key = Key(log[i])

RowsInv == (Proposal # None => Counted(checked, done)) /\ (Proposal = None => checked = << >>)

LEMMA CountedIsRowsCount ==
    ASSUME Proposal # None => Counted(checked, done)
    PROVE  RowsCount
<1>. SUFFICES ASSUME Proposal # None, Counted(checked, done) PROVE RowsCount
  BY DEF RowsCount
<1>1. \A k : {i \in Judged : Key(done[i]) = k} = KeyedIn(done, k)
  BY DEF Judged, KeyedIn
<1>2. \A j \in DOMAIN checked :
         checked[j].count = Count({i \in Judged : Key(done[i]) = checked[j].key})
  BY <1>1 DEF Counted, Count
<1>. QED BY <1>2 DEF RowsCount, Counted, Judged

\* One more record is one more denial of its own key, if it is one.
LEMMA KeyedInAppend ==
    ASSUME NEW log \in Seq(Recs), NEW r \in Recs, NEW k
    PROVE  /\ Cardinality(KeyedIn(log, k)) \in Nat
           /\ Whole(r) /\ Key(r) = k =>
                 Cardinality(KeyedIn(Append(log, r), k)) = Cardinality(KeyedIn(log, k)) + 1
           /\ ~(Whole(r) /\ Key(r) = k) => KeyedIn(Append(log, r), k) = KeyedIn(log, k)
<1>. DEFINE n == Len(log) + 1
            after == Append(log, r)
<1>1. /\ DOMAIN after = DOMAIN log \cup {n} /\ n \notin DOMAIN log
      /\ after[n] = r /\ \A i \in DOMAIN log : after[i] = log[i]
  OBVIOUS
<1>2. IsFiniteSet(KeyedIn(log, k))
  <2>1. KeyedIn(log, k) \subseteq 1..Len(log) /\ Len(log) \in Nat
    BY DEF KeyedIn
  <2>2. IsFiniteSet(1..Len(log))
    BY <2>1, FS_Interval
  <2>. QED BY <2>1, <2>2, FS_Subset
<1>3. Cardinality(KeyedIn(log, k)) \in Nat
  BY <1>2, FS_CardinalityType
<1>. HIDE DEF n, after
<1>4. ASSUME Whole(r), Key(r) = k
      PROVE  Cardinality(KeyedIn(after, k)) = Cardinality(KeyedIn(log, k)) + 1
  <2>1. KeyedIn(after, k) = KeyedIn(log, k) \cup {n}
    BY <1>1, <1>4 DEF KeyedIn
  <2>2. n \notin KeyedIn(log, k)
    BY <1>1 DEF KeyedIn
  <2>. QED BY <1>2, <2>1, <2>2, FS_AddElement
<1>5. ASSUME ~(Whole(r) /\ Key(r) = k)
      PROVE  KeyedIn(after, k) = KeyedIn(log, k)
  BY <1>1, <1>5 DEF KeyedIn
<1>. QED BY <1>3, <1>4, <1>5 DEF after

\* What a record appended to the log leaves in it.
LEMMA LogAppend ==
    ASSUME NEW log \in Seq(Recs), NEW r \in Recs
    PROVE  \A i \in DOMAIN Append(log, r) :
              \/ i \in DOMAIN log /\ Append(log, r)[i] = log[i]
              \/ Append(log, r)[i] = r
OBVIOUS

\* The row of the key is there, and its count goes up.
LEMMA CountedAgain ==
    ASSUME NEW rows \in Seq(Rows), NEW log \in Seq(Recs), Counted(rows, log),
           NEW r \in Recs, Whole(r), \E i \in DOMAIN rows : rows[i].key = Key(r),
           NEW after,
           after = [i \in DOMAIN rows |-> IF rows[i].key = Key(r)
                                          THEN [rows[i] EXCEPT !.count = @ + 1] ELSE rows[i]]
    PROVE  Counted(after, Append(log, r))
<1>1. \A i \in DOMAIN rows : rows[i] \in Rows
  OBVIOUS
<1>2. DOMAIN after = DOMAIN rows
  OBVIOUS
<1>3. \A i \in DOMAIN rows :
         /\ after[i].key = rows[i].key
         /\ rows[i].key = Key(r) => after[i].count = rows[i].count + 1
         /\ rows[i].key # Key(r) => after[i].count = rows[i].count
  BY <1>1 DEF Rows
<1>4. ASSUME NEW j \in DOMAIN after
      PROVE  after[j].count = Cardinality(KeyedIn(Append(log, r), after[j].key))
  <2>. DEFINE k == rows[j].key
  <2>1. rows[j].count = Cardinality(KeyedIn(log, k)) /\ after[j].key = k
    BY <1>2, <1>3 DEF Counted
  <2>2. CASE k = Key(r)
    BY <1>2, <1>3, <2>1, <2>2, KeyedInAppend
  <2>3. CASE k # Key(r)
    <3>1. KeyedIn(Append(log, r), k) = KeyedIn(log, k)
      BY <2>3, KeyedInAppend
    <3>. QED BY <1>2, <1>3, <2>1, <2>3, <3>1
  <2>. QED BY <2>2, <2>3
<1>5. ASSUME NEW i \in DOMAIN Append(log, r), Whole(Append(log, r)[i])
      PROVE  \E j \in DOMAIN after : after[j].key = Key(Append(log, r)[i])
  <2>1. CASE Append(log, r)[i] = r
    BY <1>2, <1>3, <2>1
  <2>2. CASE i \in DOMAIN log /\ Append(log, r)[i] = log[i]
    <3>1. PICK j \in DOMAIN rows : rows[j].key = Key(log[i])
      BY <1>5, <2>2 DEF Counted
    <3>. QED BY <1>2, <1>3, <2>2, <3>1
  <2>. QED BY <2>1, <2>2, LogAppend
<1>6. \A i, j \in DOMAIN after : after[i].key = after[j].key => i = j
  BY <1>2, <1>3 DEF Counted
<1>. QED BY <1>4, <1>5, <1>6 DEF Counted

\* There is no row of the key, and one is added.
LEMMA CountedFirst ==
    ASSUME NEW rows \in Seq(Rows), NEW log \in Seq(Recs), Counted(rows, log),
           NEW r \in Recs, Whole(r), ~ \E i \in DOMAIN rows : rows[i].key = Key(r),
           NEW row, row.key = Key(r), row.count = 1
    PROVE  Counted(Append(rows, row), Append(log, r))
<1>. DEFINE after == Append(rows, row)
            m == Len(rows) + 1
<1>1. /\ DOMAIN after = DOMAIN rows \cup {m} /\ m \notin DOMAIN rows
      /\ after[m] = row /\ \A i \in DOMAIN rows : after[i] = rows[i]
  OBVIOUS
<1>. HIDE DEF after, m
<1>2. Cardinality(KeyedIn(Append(log, r), Key(r))) = 1
  <2>1. KeyedIn(log, Key(r)) = {}
    BY DEF KeyedIn, Counted
  <2>2. Cardinality(KeyedIn(log, Key(r))) = 0
    BY <2>1, FS_EmptySet
  <2>. QED BY <2>2, KeyedInAppend
<1>3. ASSUME NEW j \in DOMAIN after
      PROVE  after[j].count = Cardinality(KeyedIn(Append(log, r), after[j].key))
  <2>1. CASE j = m
    BY <1>1, <1>2, <2>1
  <2>2. CASE j \in DOMAIN rows
    <3>1. rows[j].key # Key(r) /\ rows[j].count = Cardinality(KeyedIn(log, rows[j].key))
      BY <2>2 DEF Counted
    <3>2. KeyedIn(Append(log, r), rows[j].key) = KeyedIn(log, rows[j].key)
      BY <3>1, KeyedInAppend
    <3>. QED BY <1>1, <2>2, <3>1, <3>2
  <2>. QED BY <1>1, <2>1, <2>2
<1>4. ASSUME NEW i \in DOMAIN Append(log, r), Whole(Append(log, r)[i])
      PROVE  \E j \in DOMAIN after : after[j].key = Key(Append(log, r)[i])
  <2>1. CASE Append(log, r)[i] = r
    BY <1>1, <2>1
  <2>2. CASE i \in DOMAIN log /\ Append(log, r)[i] = log[i]
    <3>1. PICK j \in DOMAIN rows : rows[j].key = Key(log[i])
      BY <1>4, <2>2 DEF Counted
    <3>. QED BY <1>1, <2>2, <3>1
  <2>. QED BY <2>1, <2>2, LogAppend
<1>5. \A i, j \in DOMAIN after : after[i].key = after[j].key => i = j
  BY <1>1 DEF Counted
<1>. QED BY <1>3, <1>4, <1>5 DEF Counted, after

\* A whole denial is counted in its key's row, which is added when there is
\* none.
LEMMA RowsStep ==
    ASSUME Shapes, RowsInv, NEW r \in Recs, Whole(r),
           done' = Append(done, r), checked' = CheckedAfter(r)
    PROVE  RowsInv'
<1>1. CASE Proposal = None
  BY <1>1 DEF RowsInv, CheckedAfter
<1>2. CASE Proposal # None
  <2>1. checked \in Seq(Rows) /\ done \in Seq(Recs) /\ Counted(checked, done)
    BY <1>2 DEF Shapes, RowsInv
  <2>2. CASE \E i \in DOMAIN checked : checked[i].key = Key(r)
    <3>1. checked' = [i \in DOMAIN checked |-> IF checked[i].key = Key(r)
                         THEN [checked[i] EXCEPT !.count = @ + 1] ELSE checked[i]]
      BY <1>2, <2>2 DEF CheckedAfter
    <3>2. Counted(checked', Append(done, r))
      BY <2>1, <2>2, <3>1, CountedAgain
    <3>. QED BY <1>2, <3>2 DEF RowsInv
  <2>3. CASE ~ \E i \in DOMAIN checked : checked[i].key = Key(r)
    <3>. DEFINE row == [key |-> Key(r), count |-> 1, verdict |-> VerdictOf(r)]
    <3>1. checked' = Append(checked, row)
      BY <1>2, <2>3 DEF CheckedAfter
    <3>2. row.key = Key(r) /\ row.count = 1
      OBVIOUS
    <3>. HIDE DEF row
    <3>3. Counted(checked', Append(done, r))
      BY <2>1, <2>3, <3>1, <3>2, CountedFirst
    <3>. QED BY <1>2, <3>3 DEF RowsInv
  <2>. QED BY <2>2, <2>3
<1>. QED BY <1>1, <1>2

\* A record that is not one leaves every count as it was.
LEMMA RowsSame ==
    ASSUME Shapes, RowsInv, NEW r \in Recs, ~Whole(r),
           done' = Append(done, r), checked' = checked
    PROVE  RowsInv'
<1>1. done \in Seq(Recs)
  BY DEF Shapes
<1>2. \A k : KeyedIn(Append(done, r), k) = KeyedIn(done, k)
  BY <1>1, KeyedInAppend
<1>3. \A i \in DOMAIN Append(done, r) : Whole(Append(done, r)[i]) =>
         i \in DOMAIN done /\ Append(done, r)[i] = done[i]
  BY <1>1, LogAppend
<1>4. ASSUME Proposal # None PROVE Counted(checked, Append(done, r))
  BY <1>2, <1>3, <1>4 DEF RowsInv, Counted
<1>. QED BY <1>4 DEF RowsInv

\* Every whole denial of the log is counted in exactly one row of the check
\* report, that of its own key, for every log, ruleset and proposal.
THEOREM RowsExact == Spec => []RowsCount
<1>1. Init => RowsInv
  BY DEF Init, RowsInv, Counted
<1>2. IInv /\ RowsInv /\ [Next]_vars => RowsInv'
  <2>. SUFFICES ASSUME IInv, RowsInv, [Next]_vars PROVE RowsInv'
    OBVIOUS
  <2>. Shapes
    BY DEF IInv
  <2>1. CASE UNCHANGED <<checked, done>>
    BY <2>1 DEF RowsInv, Counted
  <2>2. CASE \/ \E l \in Lines : Hold(l) \/ FeedDaemon(l) \/ OpenAudit(l)
             \/ \E l \in Lines, records \in Releases : FeedAudit(l, records)
             \/ \E records \in Releases : Finish(records)
    BY <2>1, <2>2 DEF Hold, FeedDaemon, OpenAudit, FeedAudit, Finish, NextLine, counted
  <2>3. ASSUME NEW r, Corrupted(r) \/ PassedOver(r) \/ Truncated(r) PROVE RowsInv'
    <3>1. Take(r) /\ ~Whole(r) /\ checked' = checked
      BY <2>3 DEF Corrupted, PassedOver, Truncated, Whole, counted
    <3>2. r \in Recs /\ done' = Append(done, r)
      BY <3>1, TakeRecord
    <3>. QED BY <3>1, <3>2, RowsSame
  <2>4. ASSUME NEW r, Refuse(r) \/ Resolve(r) PROVE RowsInv'
    <3>1. Take(r) /\ Whole(r) /\ checked' = CheckedAfter(r)
      BY <2>4 DEF Refuse, Resolve
    <3>2. r \in Recs /\ done' = Append(done, r)
      BY <3>1, TakeRecord
    <3>. QED BY <3>1, <3>2, RowsStep
  <2>5. CASE UNCHANGED vars \/ Consumed
    BY <2>1, <2>5 DEF Consumed, vars
  <2>. QED BY <2>2, <2>3, <2>4, <2>5 DEF Next, Judge
<1>3. RowsInv => RowsCount
  BY CountedIsRowsCount DEF RowsInv
<1>. QED BY <1>1, <1>2, <1>3, Invariant, PTL DEF Spec

--------------------------------------------------------------------------------
(* Exit 2                                                                  *)

\* The input opened an audit log; it held a line of one of these kinds.
AuditLog == FirstReal # {} /\ fed[Smallest(FirstReal)].kind = "audit"
FedOf(kinds) == \E n \in DOMAIN fed : fed[n].kind \in kinds

\* The route is the first real line's, and what the daemon's reader counted,
\* with the framing held for it, is the log's.
LinesInv ==
    /\ fed \in Seq(Lines)
    /\ ~ended => /\ route = "undecided" <=> FirstReal = {}
                 /\ route = "audit" <=> AuditLog
    /\ parsed > 0 <=> ~AuditLog /\ FedOf({"record", "audit"})
    /\ content + held > 0 <=> ~AuditLog /\ FedOf({"framing", "prose", "record", "audit"})
    /\ ended => held = 0

\* The least line of a set stays the least when a later one joins it.
LEMMA SmallestKept ==
    ASSUME NEW ns, ns \subseteq Nat, ns # {}
    PROVE  /\ Smallest(ns) \in ns /\ \A m \in ns : Smallest(ns) <= m
           /\ \A n \in Nat : (\A m \in ns : m < n) => Smallest(ns \cup {n}) = Smallest(ns)
<1>1. Smallest(ns) \in ns /\ \A m \in ns : Smallest(ns) <= m
  BY LeastElement DEF Smallest
<1>2. ASSUME NEW n \in Nat, \A m \in ns : m < n
      PROVE  Smallest(ns \cup {n}) = Smallest(ns)
  <2>. DEFINE more == ns \cup {n}
              a == Smallest(ns)
              b == Smallest(more)
  <2>1. more \subseteq Nat /\ more # {}
    OBVIOUS
  <2>2. b \in more /\ \A m \in more : b <= m
    BY <2>1, LeastElement DEF Smallest
  <2>3. a \in ns /\ a \in Nat /\ b \in Nat /\ a < n /\ b <= a
    BY <1>1, <1>2, <2>1, <2>2
  <2>4. b \in ns /\ a <= b
    BY <1>1, <2>2, <2>3
  <2>5. a = b
    <3>. HIDE DEF a, b
    <3>. QED BY <2>3, <2>4
  <2>. QED BY <2>5
<1>. QED BY <1>1, <1>2

LEMMA SmallestOne ==
    ASSUME NEW n \in Nat
    PROVE  Smallest({n}) = n
<1>1. {n} \subseteq Nat /\ {n} # {}
  OBVIOUS
<1>. QED BY <1>1, SmallestKept

\* What one more line adds to what the log held.
LEMMA FedMore ==
    ASSUME fed \in Seq(Lines), NEW l \in Lines, fed' = Append(fed, l)
    PROVE  /\ fed' \in Seq(Lines)
           /\ FirstReal' = {} <=> FirstReal = {} /\ l.kind \in Framing
           /\ AuditLog' <=> AuditLog \/ (FirstReal = {} /\ l.kind = "audit")
           /\ \A kinds : FedOf(kinds)' <=> FedOf(kinds) \/ l.kind \in kinds
<1>. DEFINE n == Len(fed) + 1
<1>1. /\ fed' \in Seq(Lines) /\ DOMAIN fed = 1..Len(fed) /\ Len(fed) \in Nat
      /\ DOMAIN fed' = DOMAIN fed \cup {n} /\ n \notin DOMAIN fed
      /\ fed'[n] = l /\ \A i \in DOMAIN fed : fed'[i] = fed[i]
  BY Appended
<1>2. n \in Nat /\ \A i \in DOMAIN fed : i < n
  BY <1>1
<1>3. FirstReal \subseteq DOMAIN fed /\ FirstReal \subseteq Nat
  BY <1>1 DEF FirstReal
<1>. HIDE DEF n
<1>4. FirstReal' = IF l.kind \in Framing THEN FirstReal ELSE FirstReal \cup {n}
  BY <1>1 DEF FirstReal
<1>5. AuditLog' <=> AuditLog \/ (FirstReal = {} /\ l.kind = "audit")
  <2>1. CASE FirstReal # {}
    <3>1. Smallest(FirstReal) \in FirstReal
      BY <1>3, <2>1, SmallestKept
    <3>2. Smallest(FirstReal)' = Smallest(FirstReal)
      <4>1. Smallest(FirstReal \cup {n}) = Smallest(FirstReal)
        BY <1>2, <1>3, <2>1, SmallestKept
      <4>2. Smallest(FirstReal)' = Smallest(FirstReal')
        BY DEF Smallest
      <4>. QED BY <1>4, <4>1, <4>2
    <3>3. fed'[Smallest(FirstReal)] = fed[Smallest(FirstReal)]
      BY <1>1, <1>3, <3>1
    <3>. QED BY <1>4, <2>1, <3>2, <3>3 DEF AuditLog
  <2>2. CASE FirstReal = {} /\ l.kind \in Framing
    BY <1>4, <2>2 DEF AuditLog, Framing
  <2>3. CASE FirstReal = {} /\ l.kind \notin Framing
    <3>1. FirstReal' = {n}
      BY <1>4, <2>3
    <3>2. Smallest(FirstReal)' = n
      <4>1. Smallest(FirstReal)' = Smallest(FirstReal')
        BY DEF Smallest
      <4>. QED BY <1>2, <3>1, <4>1, SmallestOne
    <3>. QED BY <1>1, <2>3, <3>1, <3>2 DEF AuditLog
  <2>. QED BY <2>1, <2>2, <2>3
<1>6. \A kinds : FedOf(kinds)' <=> FedOf(kinds) \/ l.kind \in kinds
  BY <1>1 DEF FedOf
<1>7. FirstReal' = {} <=> FirstReal = {} /\ l.kind \in Framing
  BY <1>4
<1>. QED BY <1>1, <1>5, <1>6, <1>7

LEMMA LinesInit == Init => LinesInv
<1>. SUFFICES ASSUME Init PROVE LinesInv
  OBVIOUS
<1>1. fed = << >> /\ DOMAIN fed = {} /\ fed \in Seq(Lines)
  BY DEF Init
<1>2. FirstReal = {} /\ ~AuditLog /\ \A kinds : ~FedOf(kinds)
  BY <1>1 DEF FirstReal, AuditLog, FedOf
<1>. QED BY <1>1, <1>2 DEF Init, LinesInv

\* A step that feeds nothing and leaves the route's counts alone.
LEMMA LinesSame ==
    ASSUME LinesInv, UNCHANGED <<route, held, content, parsed, ended, fed>>
    PROVE  LinesInv'
BY DEF LinesInv, FirstReal, AuditLog, FedOf

\* A line fed: the route and the counts follow what it adds to the log.
LEMMA LinesFed ==
    ASSUME IInv, LinesInv, NEW l \in Lines, fed' = Append(fed, l), ~ended, ended' = ended,
           \/ /\ route = "undecided" /\ l.kind \in Framing /\ route' = "undecided"
              /\ held' = held + IF l.kind = "framing" THEN 1 ELSE 0
              /\ content' = content /\ parsed' = parsed
           \/ /\ route = "daemon" \/ (route = "undecided" /\ l.kind \notin Framing \cup {"audit"})
              /\ route' = "daemon" /\ held' = 0
              /\ content' = content + held + IF l.kind \in {"blank", "noise"} THEN 0 ELSE 1
              /\ parsed' = parsed + IF l.kind \in {"record", "audit"} THEN 1 ELSE 0
           \/ /\ route = "undecided" /\ l.kind = "audit" /\ route' = "audit" /\ held' = 0
              /\ content' = content /\ parsed' = parsed
           \/ /\ route = "audit" /\ UNCHANGED <<route, held, content, parsed>>
    PROVE  LinesInv'
<1>1. /\ held \in Nat /\ content \in Nat /\ parsed \in Nat
      /\ route \in {"undecided", "daemon", "audit"} /\ route # "undecided" => held = 0
      /\ route = "undecided" => content = 0 /\ parsed = 0
  BY DEF IInv, Shapes, TypeOK
<1>2. /\ fed' \in Seq(Lines)
      /\ FirstReal' = {} <=> FirstReal = {} /\ l.kind \in Framing
      /\ AuditLog' <=> AuditLog \/ (FirstReal = {} /\ l.kind = "audit")
      /\ \A kinds : FedOf(kinds)' <=> FedOf(kinds) \/ l.kind \in kinds
  BY FedMore DEF LinesInv
<1>. DEFINE P == FedOf({"record", "audit"})
            C == FedOf({"framing", "prose", "record", "audit"})
<1>3. /\ route = "undecided" <=> FirstReal = {}
      /\ route = "audit" <=> AuditLog
      /\ parsed > 0 <=> ~AuditLog /\ P
      /\ content + held > 0 <=> ~AuditLog /\ C
  BY DEF LinesInv
<1>4. P' <=> P \/ l.kind \in {"record", "audit"}
  BY <1>2
<1>5. C' <=> C \/ l.kind \in {"framing", "prose", "record", "audit"}
  BY <1>2
<1>6. l.kind \in {"blank", "framing", "noise", "prose", "record", "audit"}
  BY LinesAssumption
<1>. HIDE DEF P, C
<1>7. /\ route' = "undecided" <=> FirstReal' = {}
      /\ route' = "audit" <=> AuditLog'
  BY <1>1, <1>2, <1>3 DEF Framing, AuditLog
<1>8. parsed' > 0 <=> ~AuditLog' /\ P'
  BY <1>1, <1>2, <1>3, <1>4, <1>6 DEF Framing
<1>9. content' + held' > 0 <=> ~AuditLog' /\ C'
  BY <1>1, <1>2, <1>3, <1>5, <1>6 DEF Framing
<1>. QED BY <1>2, <1>7, <1>8, <1>9 DEF LinesInv, P, C

LEMMA LinesStep == IInv /\ LinesInv /\ [Next]_vars => LinesInv'
<1>. SUFFICES ASSUME IInv, LinesInv, [Next]_vars PROVE LinesInv'
  OBVIOUS
<1>1. ASSUME NEW l \in Lines, Hold(l) PROVE LinesInv'
  BY <1>1, LinesFed DEF Hold, NextLine
<1>2. ASSUME NEW l \in Lines, FeedDaemon(l) PROVE LinesInv'
  BY <1>2, LinesFed DEF FeedDaemon, NextLine, Carried
<1>3. ASSUME NEW l \in Lines, OpenAudit(l) PROVE LinesInv'
  BY <1>3, LinesFed DEF OpenAudit, NextLine
<1>4. ASSUME NEW l \in Lines, NEW records \in Releases, FeedAudit(l, records) PROVE LinesInv'
  BY <1>4, LinesFed DEF FeedAudit, NextLine
<1>5. ASSUME NEW records \in Releases, Finish(records) PROVE LinesInv'
  <2>1. /\ ended' /\ UNCHANGED <<fed, parsed>> /\ held' = 0
        /\ content' = content + IF route = "undecided" THEN held ELSE 0
    BY <1>5 DEF Finish
  <2>2. content' + held' = content + held
    BY <2>1 DEF IInv, Shapes, TypeOK
  <2>. QED BY <2>1, <2>2 DEF LinesInv, FirstReal, AuditLog, FedOf
<1>6. CASE Judge
  BY <1>6, LinesSame
     DEF Judge, Corrupted, PassedOver, Truncated, Refuse, Resolve, Take
<1>7. CASE UNCHANGED vars
  BY <1>7, LinesSame DEF vars
<1>. QED BY <1>1, <1>2, <1>3, <1>4, <1>5, <1>6, <1>7 DEF Next, Consumed

\* Exit 2 is returned of an input that is the daemon's, holds something that
\* looks like a log and not one line that yielded a field, and of no other,
\* whatever framing was held back before the route was known.
THEOREM ExitTwoRight == Spec => []ExitTwo
<1>1. IInv /\ LinesInv => ExitTwo
  <2>. SUFFICES ASSUME IInv, LinesInv, ended PROVE ExitTwo
    BY DEF ExitTwo
  <2>1. content \in Nat /\ parsed \in Nat /\ held = 0
    BY DEF IInv, Shapes, LinesInv
  <2>2. /\ parsed > 0 <=> ~AuditLog /\ FedOf({"record", "audit"})
        /\ content > 0 <=> ~AuditLog /\ FedOf({"framing", "prose", "record", "audit"})
    BY <2>1 DEF LinesInv
  <2>. QED BY <2>1, <2>2 DEF ExitTwo, ConsumedButUnparseable, AuditLog, FedOf
<1>. QED BY <1>1, LinesInit, LinesStep, Invariant, PTL DEF Spec

--------------------------------------------------------------------------------
(* What each denial was answered with                                      *)

\* The image record i was stale to when it was judged.
StaleImageAt(i) == IF StaleAt(i) THEN LastExec(i).path ELSE None
AnswerAt(i) == Decide(done[i], StaleImageAt(i))

\* Record j of the log entered the pid map, under pid p.
Enters(j, p) ==
    /\ j \in Judged /\ HasPid(done[j]) /\ done[j].pid = p
    /\ done[j].perm = "execute" /\ done[j].path # None

\* The pid map is the latest exec of each pid, read off the whole log.
ExecsKnown ==
    /\ \A p \in DOMAIN execs : \E j \in DOMAIN done :
          /\ Enters(j, p) /\ \A k \in DOMAIN done : Enters(k, p) => k <= j
          /\ execs[p].exe = done[j].exe /\ execs[p].path = done[j].path
    /\ \A j \in DOMAIN done : \A p : Enters(j, p) => p \in DOMAIN execs

Notes == [record : Nat, kind : {"cut", "refused", "explain", "absent", "stale"}, rule : Numbers]

\* Every record judged left its trace: a suggestion, a note or a count.
AnsweredInv ==
    /\ live.notes \in Seq(Notes)
    /\ \A i \in DOMAIN done :
          /\ done[i].corrupt => corrupt > 0
          /\ ~done[i].corrupt /\ done[i].denial /\ done[i].cut => NotedAs(i, {"cut"})
          /\ Whole(done[i]) /\ RefusedBy(done[i]) /\ Proposal = None => NotedAs(i, {"refused"})
          /\ Whole(done[i]) /\ ~RefusedBy(done[i]) =>
                IF AnswerAt(i).kind = "explain" THEN NotedAs(i, {"explain"})
                ELSE AnswerAt(i) \in ToSet(seen)

\* Every suggestion accepted is the answer of a denial.
SeenInv ==
    \A j \in DOMAIN seen :
       /\ seen[j].kind # "explain"
       /\ \E i \in Judged : ~RefusedBy(done[i]) /\ seen[j] = AnswerAt(i)

Reported == ExecsKnown /\ AnsweredInv /\ SeenInv

\* One more record changes nothing of what the ones before it stand for.
LEMMA DoneMore ==
    ASSUME done \in Seq(Recs), NEW r \in Recs, done' = Append(done, r)
    PROVE  /\ Len(done) + 1 \in Nat
           /\ DOMAIN done' = DOMAIN done \cup {Len(done) + 1} /\ Len(done) + 1 \notin DOMAIN done
           /\ \A i \in DOMAIN done : i \in Nat /\ i < Len(done) + 1 /\ i <= Len(done)
           /\ done'[Len(done) + 1] = r
           /\ \A i \in DOMAIN done : done'[i] = done[i]
           /\ Judged' = Judged \cup (IF Whole(r) THEN {Len(done) + 1} ELSE {})
<1>. DEFINE n == Len(done) + 1
<1>1. /\ n \in Nat /\ DOMAIN done = 1..Len(done) /\ Len(done) \in Nat
      /\ DOMAIN done' = DOMAIN done \cup {n} /\ n \notin DOMAIN done
      /\ done'[n] = r /\ \A i \in DOMAIN done : done'[i] = done[i]
  BY Appended
<1>2. \A i \in DOMAIN done : i \in Nat /\ i < n /\ i <= Len(done)
  BY <1>1
<1>. HIDE DEF n
<1>3. Judged' = Judged \cup (IF Whole(r) THEN {n} ELSE {})
  BY <1>1 DEF Judged
<1>. QED BY <1>1, <1>2, <1>3 DEF n

\* The exec a record is stale to is the latest of its process, and whole.
LEMMA LastExecIs ==
    ASSUME done \in Seq(Recs), NEW i, ExecsOf(i) # {}
    PROVE  \E j \in ExecsOf(i) : /\ LastExec(i) = done[j] /\ \A k \in ExecsOf(i) : k <= j
                                 /\ j \in DOMAIN done
<1>1. ExecsOf(i) \subseteq 0..Len(done) /\ Len(done) \in Nat /\ ExecsOf(i) \subseteq DOMAIN done
  BY DEF ExecsOf, Judged
<1>2. \E j \in ExecsOf(i) : \A k \in ExecsOf(i) : k <= j
  BY <1>1, GreatestElement
<1>. DEFINE j == CHOOSE j \in ExecsOf(i) : \A k \in ExecsOf(i) : k <= j
<1>3. j \in ExecsOf(i) /\ \A k \in ExecsOf(i) : k <= j
  BY <1>2
<1>4. LastExec(i) = done[j]
  BY DEF LastExec
<1>. HIDE DEF j
<1>. QED BY <1>1, <1>3, <1>4

LEMMA AnswerKept ==
    ASSUME done \in Seq(Recs), NEW r \in Recs, done' = Append(done, r), NEW i \in DOMAIN done
    PROVE  (i \in Judged' <=> i \in Judged) /\ AnswerAt(i)' = AnswerAt(i)
<1>1. /\ Len(done) + 1 \notin DOMAIN done /\ done'[i] = done[i]
      /\ \A k \in DOMAIN done : done'[k] = done[k] /\ k \in Nat /\ k < Len(done) + 1
      /\ Judged' = Judged \cup (IF Whole(r) THEN {Len(done) + 1} ELSE {})
      /\ Len(done) + 1 \in Nat
  BY DoneMore
<1>2. i \in Judged' <=> i \in Judged
  BY <1>1
<1>3. ExecsOf(i)' = ExecsOf(i)
  <2>1. \A j : j \in Judged' /\ j < i => j \in Judged
    BY <1>1
  <2>2. \A j \in Judged : j \in DOMAIN done
    BY DEF Judged
  <2>. QED BY <1>1, <2>1, <2>2 DEF ExecsOf
<1>4. CASE ExecsOf(i) = {}
  BY <1>1, <1>3, <1>4 DEF AnswerAt, StaleImageAt, StaleAt
<1>5. CASE ExecsOf(i) # {}
  <2>. DEFINE j == CHOOSE j \in ExecsOf(i) : \A k \in ExecsOf(i) : k <= j
  <2>1. j \in ExecsOf(i)
    <3>1. ExecsOf(i) \subseteq 0..Len(done) /\ Len(done) \in Nat
      BY DEF ExecsOf, Judged
    <3>2. \E m \in ExecsOf(i) : \A k \in ExecsOf(i) : k <= m
      BY <1>5, <3>1, GreatestElement
    <3>. QED BY <3>2
  <2>2. j \in DOMAIN done
    BY <2>1 DEF ExecsOf, Judged
  <2>3. LastExec(i) = done[j] /\ LastExec(i)' = done'[j]
    BY <1>3 DEF LastExec
  <2>. HIDE DEF j
  <2>4. LastExec(i)' = LastExec(i)
    BY <1>1, <2>2, <2>3
  <2>. QED BY <1>1, <1>3, <2>4 DEF AnswerAt, StaleImageAt, StaleAt
<1>. QED BY <1>2, <1>4, <1>5

\* What entered the pid map, once record r is in the log.
LEMMA EntersMore ==
    ASSUME done \in Seq(Recs), NEW r \in Recs, done' = Append(done, r),
           NEW n, n = Len(done) + 1
    PROVE  /\ \A j \in DOMAIN done : \A p : Enters(j, p)' <=> Enters(j, p)
           /\ \A p : Enters(n, p)' <=>
                 Whole(r) /\ HasPid(r) /\ r.pid = p /\ r.perm = "execute" /\ r.path # None
<1>1. /\ n \notin DOMAIN done /\ done'[n] = r
      /\ \A k \in DOMAIN done : done'[k] = done[k]
      /\ Judged' = Judged \cup (IF Whole(r) THEN {n} ELSE {})
  BY DoneMore
<1>2. Judged \subseteq DOMAIN done
  BY DEF Judged
<1>3. \A j \in DOMAIN done : \A p : Enters(j, p)' <=> Enters(j, p)
  BY <1>1, <1>2 DEF Enters
<1>4. \A p : Enters(n, p)' <=>
         Whole(r) /\ HasPid(r) /\ r.pid = p /\ r.perm = "execute" /\ r.path # None
  BY <1>1, <1>2 DEF Enters
<1>. QED BY <1>3, <1>4

\* The image the pid map gives record r is the one the log gives it.
LEMMA StaleFromLog ==
    ASSUME done \in Seq(Recs), NEW r \in Recs, done' = Append(done, r), ExecsKnown,
           NEW n, n = Len(done) + 1
    PROVE  AnswerAt(n)' = Decide(r, Stale(r))
<1>. DEFINE E == {j \in DOMAIN done : HasPid(r) /\ Enters(j, r.pid)}
<1>1. /\ n \notin DOMAIN done /\ done'[n] = r /\ n \in Nat
      /\ \A k \in DOMAIN done : done'[k] = done[k] /\ k \in Nat /\ k < n
      /\ Judged' = Judged \cup (IF Whole(r) THEN {n} ELSE {})
  BY DoneMore
<1>2. Judged \subseteq DOMAIN done
  BY DEF Judged
<1>3. ExecsOf(n)' = E
  <2>1. \A j : j \in Judged' /\ j < n <=> j \in Judged
    BY <1>1, <1>2
  <2>2. \A j \in Judged : done'[j] = done[j]
    BY <1>1, <1>2
  <2>3. ExecsOf(n)' = {j \in Judged : /\ HasPid(r) /\ done[j].pid = r.pid
                                      /\ done[j].perm = "execute" /\ done[j].exe # None
                                      /\ done[j].path # None}
    BY <1>1, <2>1, <2>2 DEF ExecsOf
  <2>. QED BY <1>2, <2>3 DEF Enters, HasPid
<1>4. CASE HasPid(r) /\ r.pid \in DOMAIN execs
  <2>1. PICK j \in DOMAIN done :
           /\ Enters(j, r.pid) /\ \A k \in DOMAIN done : Enters(k, r.pid) => k <= j
           /\ execs[r.pid].exe = done[j].exe /\ execs[r.pid].path = done[j].path
    BY <1>4 DEF ExecsKnown
  <2>2. j \in E /\ \A k \in E : k <= j
    BY <1>4, <2>1
  <2>3. \A k \in E : (\A m \in E : m <= k) => k = j
    BY <1>1, <2>2
  <2>4. (CHOOSE k \in E : \A m \in E : m <= k) = j
    BY <2>2, <2>3
  <2>5. LastExec(n)' = done[j]
    BY <1>1, <1>3, <2>4 DEF LastExec
  <2>. HIDE DEF E
  <2>6. StaleAt(n)' <=> /\ r.perm # "execute" /\ execs[r.pid].exe = r.exe
                        /\ execs[r.pid].path # r.path
    BY <1>1, <1>3, <2>1, <2>2, <2>5 DEF StaleAt
  <2>. QED BY <1>1, <1>4, <2>1, <2>5, <2>6 DEF AnswerAt, StaleImageAt, Stale
<1>5. CASE ~(HasPid(r) /\ r.pid \in DOMAIN execs)
  <2>1. E = {}
    BY <1>5 DEF ExecsKnown
  <2>. HIDE DEF E
  <2>2. ~StaleAt(n)'
    BY <1>3, <2>1 DEF StaleAt
  <2>. QED BY <1>1, <1>5, <2>2 DEF AnswerAt, StaleImageAt, Stale
<1>. QED BY <1>4, <1>5

\* The pid map follows the log: the latest exec of a process replaces the one
\* before it, and every other process keeps its own.
LEMMA ExecsStep ==
    ASSUME done \in Seq(Recs), NEW r \in Recs, done' = Append(done, r), ExecsKnown,
           execs' = IF Whole(r) THEN ExecsAfter(r) ELSE execs
    PROVE  ExecsKnown'
<1>. DEFINE n == Len(done) + 1
            Entered(p) == /\ Whole(r) /\ HasPid(r) /\ r.pid = p
                          /\ r.perm = "execute" /\ r.path # None
<1>1. /\ DOMAIN done' = DOMAIN done \cup {n} /\ n \notin DOMAIN done /\ n \in Nat
      /\ done'[n] = r /\ \A k \in DOMAIN done : done'[k] = done[k] /\ k \in Nat /\ k <= n
  BY DoneMore
<1>2. ASSUME NEW m, m = n
      PROVE  /\ \A j \in DOMAIN done : \A p : Enters(j, p)' <=> Enters(j, p)
             /\ \A p : Enters(m, p)' <=> Entered(p)
  BY <1>2, EntersMore
<1>3. /\ DOMAIN execs' = DOMAIN execs \cup {p \in {r.pid} : Entered(p)}
      /\ \A p \in DOMAIN execs' : IF Entered(p) THEN execs'[p].exe = r.exe /\ execs'[p].path = r.path
                                  ELSE p \in DOMAIN execs /\ execs'[p] = execs[p]
  <2>1. CASE Entered(r.pid)
    <3>1. execs' = [p \in DOMAIN execs \cup {r.pid} |->
                      IF p = r.pid THEN [exe |-> r.exe, path |-> r.path] ELSE execs[p]]
      BY <2>1 DEF ExecsAfter
    <3>2. \A p : Entered(p) <=> p = r.pid
      BY <2>1
    <3>. HIDE DEF Entered
    <3>. QED BY <3>1, <3>2
  <2>2. CASE ~Entered(r.pid)
    <3>1. execs' = execs
      BY <2>2 DEF ExecsAfter
    <3>2. \A p : ~Entered(p)
      BY <2>2
    <3>. HIDE DEF Entered
    <3>. QED BY <3>1, <3>2
  <2>. QED BY <2>1, <2>2
<1>4. PICK m : m = n
  OBVIOUS
<1>. HIDE DEF n, Entered
<1>5. ASSUME NEW p \in DOMAIN execs'
      PROVE  \E j \in DOMAIN done' :
                /\ Enters(j, p)' /\ \A k \in DOMAIN done' : Enters(k, p)' => k <= j
                /\ execs'[p].exe = done'[j].exe /\ execs'[p].path = done'[j].path
  <2>1. CASE Entered(p)
    <3>1. Enters(m, p)' /\ \A k \in DOMAIN done' : k <= m
      BY <1>1, <1>2, <1>4, <2>1
    <3>2. m \in DOMAIN done' /\ execs'[p].exe = done'[m].exe /\ execs'[p].path = done'[m].path
      BY <1>1, <1>3, <1>4, <2>1
    <3>. QED BY <3>1, <3>2
  <2>2. CASE ~Entered(p)
    <3>1. p \in DOMAIN execs /\ execs'[p] = execs[p]
      BY <1>3, <2>2
    <3>2. PICK j \in DOMAIN done :
             /\ Enters(j, p) /\ \A k \in DOMAIN done : Enters(k, p) => k <= j
             /\ execs[p].exe = done[j].exe /\ execs[p].path = done[j].path
      BY <3>1 DEF ExecsKnown
    <3>3. Enters(j, p)' /\ j \in DOMAIN done' /\ done'[j] = done[j]
      BY <1>1, <1>2, <1>4, <3>2
    <3>4. \A k \in DOMAIN done' : Enters(k, p)' => k <= j
      BY <1>1, <1>2, <1>4, <2>2, <3>2
    <3>. QED BY <3>1, <3>2, <3>3, <3>4
  <2>. QED BY <2>1, <2>2
<1>6. ASSUME NEW j \in DOMAIN done', NEW p, Enters(j, p)'
      PROVE  p \in DOMAIN execs'
  <2>1. CASE j \in DOMAIN done
    BY <1>2, <1>3, <1>4, <1>6, <2>1 DEF ExecsKnown
  <2>2. CASE j = n
    <3>1. Entered(p) /\ p = r.pid
      BY <1>2, <1>4, <1>6, <2>2 DEF Entered
    <3>. QED BY <1>3, <3>1
  <2>. QED BY <1>1, <2>1, <2>2
<1>. QED BY <1>5, <1>6 DEF ExecsKnown

\* A note once written stays with its record, and the new ones are there too.
LEMMA NotesMore ==
    ASSUME live.notes \in Seq(Notes), NEW ns \in Seq(Notes), live'.notes = live.notes \o ns
    PROVE  /\ live'.notes \in Seq(Notes)
           /\ \A i, kinds : NotedAs(i, kinds) => NotedAs(i, kinds)'
           /\ \A k \in DOMAIN ns : \A kinds : ns[k].kind \in kinds => NotedAs(ns[k].record, kinds)'
<1>. DEFINE m == Len(live.notes)
<1>1. /\ live'.notes \in Seq(Notes) /\ m \in Nat
      /\ DOMAIN live.notes = 1..m /\ DOMAIN ns = 1..Len(ns) /\ Len(ns) \in Nat
      /\ DOMAIN live'.notes = 1..(m + Len(ns))
      /\ \A j \in 1..m : live'.notes[j] = live.notes[j]
      /\ \A k \in 1..Len(ns) : live'.notes[m + k] = ns[k]
  OBVIOUS
<1>. HIDE DEF m
<1>2. ASSUME NEW i, NEW kinds, NotedAs(i, kinds) PROVE NotedAs(i, kinds)'
  <2>1. PICK j \in DOMAIN live.notes : live.notes[j].record = i /\ live.notes[j].kind \in kinds
    BY <1>2 DEF NotedAs
  <2>2. j \in DOMAIN live'.notes /\ live'.notes[j] = live.notes[j]
    BY <1>1
  <2>. QED BY <2>1, <2>2 DEF NotedAs
<1>3. ASSUME NEW k \in DOMAIN ns, NEW kinds, ns[k].kind \in kinds
      PROVE  NotedAs(ns[k].record, kinds)'
  <2>1. m + k \in DOMAIN live'.notes /\ live'.notes[m + k] = ns[k]
    BY <1>1
  <2>. QED BY <1>3, <2>1 DEF NotedAs
<1>. QED BY <1>1, <1>2, <1>3

\* One more record judged: what a step has to do for the report to stay right.
LEMMA ReportedMore ==
    ASSUME IInv, Reported, NEW r \in Recs, done' = Append(done, r),
           NEW ns \in Seq(Notes), live'.notes = live.notes \o ns,
           corrupt > 0 \/ r.corrupt => corrupt' > 0,
           execs' = IF Whole(r) THEN ExecsAfter(r) ELSE execs,
           NEW s, s = Decide(r, Stale(r)),
           \/ seen' = seen
           \/ /\ Whole(r) /\ ~RefusedBy(r) /\ s.kind # "explain" /\ s \in Answers
              /\ seen' = Append(seen, s),
           ~r.corrupt /\ r.denial /\ r.cut =>
              \E k \in DOMAIN ns : ns[k].record = Len(done) + 1 /\ ns[k].kind = "cut",
           Whole(r) /\ RefusedBy(r) /\ Proposal = None =>
              \E k \in DOMAIN ns : ns[k].record = Len(done) + 1 /\ ns[k].kind = "refused",
           Whole(r) /\ ~RefusedBy(r) =>
              IF s.kind = "explain"
              THEN \E k \in DOMAIN ns : ns[k].record = Len(done) + 1 /\ ns[k].kind = "explain"
              ELSE s \in ToSet(seen')
    PROVE  Reported'
<1>. done \in Seq(Recs) /\ seen \in Seq(Answers)
  BY DEF IInv, Shapes
<1>1. PICK n : n = Len(done) + 1
  OBVIOUS
<1>2. /\ DOMAIN done' = DOMAIN done \cup {n} /\ n \notin DOMAIN done
      /\ done'[n] = r /\ \A k \in DOMAIN done : done'[k] = done[k]
      /\ Judged' = Judged \cup (IF Whole(r) THEN {n} ELSE {})
  BY <1>1, DoneMore
<1>3. ExecsKnown'
  BY ExecsStep DEF Reported
<1>4. AnswerAt(n)' = s
  BY <1>1, StaleFromLog DEF Reported
<1>5. \A i \in DOMAIN done : AnswerAt(i)' = AnswerAt(i) /\ (i \in Judged' <=> i \in Judged)
  BY AnswerKept
<1>6. /\ live'.notes \in Seq(Notes)
      /\ \A i, kinds : NotedAs(i, kinds) => NotedAs(i, kinds)'
      /\ \A k \in DOMAIN ns : \A kinds : ns[k].kind \in kinds => NotedAs(ns[k].record, kinds)'
  BY NotesMore DEF Reported, AnsweredInv
<1>7. \A kind : (\E k \in DOMAIN ns : ns[k].record = n /\ ns[k].kind = kind) => NotedAs(n, {kind})'
  BY <1>6
<1>8. ToSet(seen) \subseteq ToSet(seen')
  <2>1. CASE seen' = Append(seen, s) /\ s \in Answers
    BY <2>1, Appended DEF ToSet
  <2>. QED BY <2>1
<1>9. AnsweredInv'
  <2>1. ASSUME NEW i \in DOMAIN done
        PROVE  /\ done'[i].corrupt => corrupt' > 0
               /\ ~done'[i].corrupt /\ done'[i].denial /\ done'[i].cut => NotedAs(i, {"cut"})'
               /\ Whole(done'[i]) /\ RefusedBy(done'[i]) /\ Proposal = None => NotedAs(i, {"refused"})'
               /\ Whole(done'[i]) /\ ~RefusedBy(done'[i]) =>
                     IF AnswerAt(i)'.kind = "explain" THEN NotedAs(i, {"explain"})'
                     ELSE AnswerAt(i)' \in ToSet(seen')
    BY <1>2, <1>5, <1>6, <1>8 DEF Reported, AnsweredInv
  <2>2. /\ r.corrupt => corrupt' > 0
        /\ ~r.corrupt /\ r.denial /\ r.cut => NotedAs(n, {"cut"})'
        /\ Whole(r) /\ RefusedBy(r) /\ Proposal = None => NotedAs(n, {"refused"})'
        /\ Whole(r) /\ ~RefusedBy(r) =>
              IF s.kind = "explain" THEN NotedAs(n, {"explain"})' ELSE s \in ToSet(seen')
    BY <1>1, <1>7
  <2>3. RefusedBy(done[n])' <=> RefusedBy(done'[n])
    BY DEF RefusedBy
  <2>4. ASSUME NEW i \in DOMAIN done'
        PROVE  /\ done'[i].corrupt => corrupt' > 0
               /\ ~done'[i].corrupt /\ done'[i].denial /\ done'[i].cut => NotedAs(i, {"cut"})'
               /\ Whole(done'[i]) /\ RefusedBy(done'[i]) /\ Proposal = None => NotedAs(i, {"refused"})'
               /\ Whole(done'[i]) /\ ~RefusedBy(done'[i]) =>
                     IF AnswerAt(i)'.kind = "explain" THEN NotedAs(i, {"explain"})'
                     ELSE AnswerAt(i)' \in ToSet(seen')
    <3>1. CASE i \in DOMAIN done
      BY <2>1, <3>1
    <3>2. CASE i = n
      BY <1>2, <1>4, <2>2, <3>2
    <3>. QED BY <1>2, <3>1, <3>2
  <2>. QED BY <1>6, <2>4 DEF AnsweredInv, RefusedBy, Whole
<1>10. SeenInv'
  <2>1. ASSUME NEW j \in DOMAIN seen, seen'[j] = seen[j]
        PROVE  seen'[j].kind # "explain" /\ \E i \in Judged' : ~RefusedBy(done'[i]) /\ seen'[j] = AnswerAt(i)'
    <3>1. PICK i \in Judged : ~RefusedBy(done[i]) /\ seen[j] = AnswerAt(i)
      BY DEF Reported, SeenInv
    <3>2. i \in DOMAIN done
      BY DEF Judged
    <3>3. i \in Judged' /\ done'[i] = done[i] /\ AnswerAt(i)' = AnswerAt(i)
      BY <1>2, <1>5, <3>2
    <3>. QED BY <2>1, <3>1, <3>3 DEF Reported, SeenInv
  <2>2. CASE seen' = seen
    BY <2>1, <2>2 DEF SeenInv, RefusedBy
  <2>3. CASE /\ Whole(r) /\ ~RefusedBy(r) /\ s.kind # "explain" /\ s \in Answers
             /\ seen' = Append(seen, s)
    <3>1. PICK m : m = Len(seen) + 1
      OBVIOUS
    <3>2. /\ DOMAIN seen' = DOMAIN seen \cup {m} /\ seen'[m] = s
          /\ \A j \in DOMAIN seen : seen'[j] = seen[j]
      BY <2>3, <3>1, Appended
    <3>3. n \in Judged' /\ ~RefusedBy(done'[n]) /\ AnswerAt(n)' = s
      BY <1>2, <1>4, <2>3
    <3>. QED BY <2>1, <2>3, <3>2, <3>3 DEF SeenInv, RefusedBy
  <2>. QED BY <2>2, <2>3
<1>. QED BY <1>3, <1>9, <1>10 DEF Reported

\* The notes of a decision are its record's, none of them a refusal, and what
\* came to nothing says so.
DecisionNotes == {note \in Notes : note.kind \in {"explain", "absent", "stale"}}

LEMMA NotesOfFacts ==
    ASSUME done \in Seq(Recs), NEW r \in Recs, NEW s
    PROVE  /\ NotesOf(r, s) \in Seq(DecisionNotes)
           /\ s.kind = "explain" =>
                 \E k \in DOMAIN NotesOf(r, s) : /\ NotesOf(r, s)[k].record = Len(done) + 1
                                                 /\ NotesOf(r, s)[k].kind = "explain"
<1>. DEFINE notes == { <<s.kind = "explain", "explain">>,
                       <<s.kind # "explain" /\ r.trust = None, "absent">>,
                       <<s.kind = "rule" /\ Stale(r) # None, "stale">> }
            Said(kind) == IF <<TRUE, kind>> \in notes THEN <<Note(kind, r)>> ELSE << >>
<1>1. NotesOf(r, s) = Said("explain") \o Said("absent") \o Said("stale")
  BY DEF NotesOf
<1>2. /\ \A kind \in {"explain", "absent", "stale"} : Note(kind, r) \in DecisionNotes
      /\ Note("explain", r).record = Len(done) + 1 /\ Note("explain", r).kind = "explain"
  BY DEF Note, Notes, DecisionNotes, Numbers
<1>3. \A kind \in {"explain", "absent", "stale"} :
         Said(kind) = << >> \/ Said(kind) = <<Note(kind, r)>>
  OBVIOUS
<1>4. s.kind = "explain" => Said("explain") = <<Note("explain", r)>>
  OBVIOUS
<1>. HIDE DEF Said
<1>5. ASSUME NEW kind \in {"explain", "absent", "stale"}
      PROVE  Said(kind) \in Seq(DecisionNotes)
  <2>1. PICK note \in DecisionNotes : note = Note(kind, r)
    BY <1>2
  <2>2. Said(kind) = << >> \/ Said(kind) = <<note>>
    BY <1>3, <2>1
  <2>3. << >> \in Seq(DecisionNotes) /\ <<note>> \in Seq(DecisionNotes)
    OBVIOUS
  <2>. QED BY <2>2, <2>3, Zenon
<1>6. NotesOf(r, s) \in Seq(DecisionNotes)
  BY <1>1, <1>5
<1>7. ASSUME s.kind = "explain"
      PROVE  1 \in DOMAIN NotesOf(r, s) /\ NotesOf(r, s)[1] = Note("explain", r)
  BY <1>1, <1>4, <1>5, <1>7
<1>. QED BY <1>2, <1>6, <1>7

LEMMA ReportedInit == Init => Reported
<1>. SUFFICES ASSUME Init PROVE Reported
  OBVIOUS
<1>1. /\ done = << >> /\ seen = << >> /\ execs = << >> /\ live.notes = << >>
      /\ DOMAIN done = {} /\ DOMAIN seen = {} /\ DOMAIN execs = {}
  BY DEF Init
<1>. QED BY <1>1 DEF Reported, ExecsKnown, AnsweredInv, SeenInv

\* A step that judges nothing leaves the report as it was.
LEMMA ReportedSame ==
    ASSUME Reported, UNCHANGED <<seen, corrupt, execs, done, live>>
    PROVE  Reported'
<1>1. \A i : /\ AnswerAt(i)' = AnswerAt(i) /\ (i \in Judged' <=> i \in Judged)
             /\ (RefusedBy(done[i])' <=> RefusedBy(done[i]))
             /\ \A kinds : NotedAs(i, kinds)' <=> NotedAs(i, kinds)
  BY DEF AnswerAt, StaleImageAt, StaleAt, LastExec, ExecsOf, Judged, NotedAs, RefusedBy, Whole
<1>2. \A j, p : Enters(j, p)' <=> Enters(j, p)
  BY <1>1 DEF Enters
<1>3. ExecsKnown'
  BY <1>2 DEF Reported, ExecsKnown
<1>4. AnsweredInv'
  BY <1>1 DEF Reported, AnsweredInv
<1>5. SeenInv'
  BY <1>1 DEF Reported, SeenInv
<1>. QED BY <1>3, <1>4, <1>5 DEF Reported

LEMMA ReportedStep == IInv /\ Reported /\ [Next]_vars => Reported'
<1>. SUFFICES ASSUME IInv, Reported, [Next]_vars PROVE Reported'
  OBVIOUS
<1>0. /\ done \in Seq(Recs) /\ seen \in Seq(Answers) /\ live.notes \in Seq(Notes)
      /\ corrupt \in Nat /\ live.notes \o << >> = live.notes /\ << >> \in Seq(Notes)
  BY DEF IInv, Shapes, Reported, AnsweredInv
<1>1. CASE UNCHANGED vars \/ Consumed
  BY <1>1, ReportedSame DEF Consumed, vars
<1>2. CASE \/ \E l \in Lines : Hold(l) \/ FeedDaemon(l) \/ OpenAudit(l)
           \/ \E l \in Lines, records \in Releases : FeedAudit(l, records)
           \/ \E records \in Releases : Finish(records)
  BY <1>2, ReportedSame DEF Hold, FeedDaemon, OpenAudit, FeedAudit, Finish, NextLine, counted
<1>3. ASSUME NEW r, Corrupted(r) PROVE Reported'
  <2>1. /\ Take(r) /\ r.corrupt /\ UNCHANGED <<seen, execs>> /\ corrupt' > 0
        /\ live'.notes = live.notes \o << >>
    BY <1>0, <1>3 DEF Corrupted, HandBack
  <2>2. r \in Recs /\ done' = Append(done, r) /\ ~Whole(r)
    BY <2>1, TakeRecord DEF IInv, Whole
  <2>3. PICK s : s = Decide(r, Stale(r))
    OBVIOUS
  <2>. QED BY <1>0, <2>1, <2>2, <2>3, ReportedMore
<1>4. ASSUME NEW r, PassedOver(r) PROVE Reported'
  <2>1. /\ Take(r) /\ ~r.corrupt /\ ~r.denial /\ UNCHANGED <<seen, execs, corrupt, live>>
    BY <1>4 DEF PassedOver, counted
  <2>2. r \in Recs /\ done' = Append(done, r) /\ ~Whole(r) /\ live'.notes = live.notes \o << >>
    BY <1>0, <2>1, TakeRecord DEF IInv, Whole
  <2>3. PICK s : s = Decide(r, Stale(r))
    OBVIOUS
  <2>. QED BY <1>0, <2>1, <2>2, <2>3, ReportedMore
<1>5. ASSUME NEW r, Truncated(r) PROVE Reported'
  <2>. DEFINE ns == <<Note("cut", r)>>
  <2>1. /\ Take(r) /\ ~r.corrupt /\ r.denial /\ r.cut /\ UNCHANGED <<seen, execs, corrupt>>
        /\ live'.notes = live.notes \o ns
    BY <1>5 DEF Truncated, HandBack, counted
  <2>2. r \in Recs /\ done' = Append(done, r) /\ ~Whole(r)
    BY <2>1, TakeRecord DEF IInv, Whole
  <2>3. Note("cut", r) \in Notes
    BY <1>0, <2>2 DEF Note, Notes, Numbers
  <2>4. /\ ns \in Seq(Notes)
        /\ \E k \in DOMAIN ns : ns[k].record = Len(done) + 1 /\ ns[k].kind = "cut"
    BY <2>3 DEF Note
  <2>5. PICK s : s = Decide(r, Stale(r))
    OBVIOUS
  <2>. HIDE DEF ns
  <2>. QED BY <1>0, <2>1, <2>2, <2>4, <2>5, ReportedMore
<1>6. ASSUME NEW r, Refuse(r) PROVE Reported'
  <2>. DEFINE ns == IF Proposal = None THEN <<Note("refused", r)>> ELSE << >>
  <2>1. /\ Take(r) /\ Whole(r) /\ RefusedBy(r) /\ UNCHANGED <<seen, corrupt>>
        /\ execs' = ExecsAfter(r) /\ live'.notes = live.notes \o ns
    BY <1>6 DEF Refuse, HandBack
  <2>2. r \in Recs /\ done' = Append(done, r) /\ ~r.corrupt /\ ~r.cut
    BY <2>1, TakeRecord DEF IInv, Whole
  <2>3. Note("refused", r) \in Notes
    BY <1>0, <2>2 DEF Note, Notes, Numbers
  <2>4. /\ ns \in Seq(Notes)
        /\ Proposal = None =>
              \E k \in DOMAIN ns : ns[k].record = Len(done) + 1 /\ ns[k].kind = "refused"
    BY <2>3 DEF Note
  <2>5. PICK s : s = Decide(r, Stale(r))
    OBVIOUS
  <2>. HIDE DEF ns
  <2>. QED BY <1>0, <2>1, <2>2, <2>4, <2>5, ReportedMore
<1>7. ASSUME NEW r, Resolve(r) PROVE Reported'
  <2>1. PICK s : s = Decide(r, Stale(r))
    OBVIOUS
  <2>2. /\ Take(r) /\ Whole(r) /\ ~RefusedBy(r) /\ UNCHANGED corrupt
        /\ execs' = ExecsAfter(r) /\ live'.notes = live.notes \o NotesOf(r, s)
        /\ seen' = seen \o IF New(s) THEN <<s>> ELSE << >>
    BY <1>7, <2>1 DEF Resolve, HandBack
  <2>3. r \in Recs /\ done' = Append(done, r) /\ ~r.corrupt /\ ~r.cut
    BY <2>2, TakeRecord DEF IInv, Whole
  <2>4. s \in Answers
    BY <2>1, <2>3, StaleImage DEF IInv, Answers
  <2>5. /\ NotesOf(r, s) \in Seq(Notes)
        /\ s.kind = "explain" =>
              \E k \in DOMAIN NotesOf(r, s) : /\ NotesOf(r, s)[k].record = Len(done) + 1
                                              /\ NotesOf(r, s)[k].kind = "explain"
    <3>1. NotesOf(r, s) \in Seq(DecisionNotes) /\ DecisionNotes \subseteq Notes
      BY <1>0, <2>3, NotesOfFacts DEF DecisionNotes
    <3>2. NotesOf(r, s) \in Seq(Notes)
      BY <3>1
    <3>. QED BY <1>0, <2>3, <3>2, NotesOfFacts
  <2>6. CASE New(s)
    <3>1. seen' = Append(seen, s) /\ s.kind # "explain"
      BY <1>0, <2>2, <2>4, <2>6 DEF New
    <3>2. s \in ToSet(seen')
      BY <1>0, <2>4, <3>1, Appended DEF ToSet
    <3>. QED BY <1>0, <2>1, <2>2, <2>3, <2>4, <2>5, <3>1, <3>2, ReportedMore
  <2>7. CASE ~New(s)
    <3>1. seen' = seen /\ (s.kind # "explain" => s \in ToSet(seen'))
      <4>1. seen' = seen \o << >> /\ seen \o << >> = seen
        BY <1>0, <2>2, <2>7
      <4>. QED BY <2>7, <4>1 DEF New
    <3>. QED BY <1>0, <2>1, <2>2, <2>3, <2>4, <2>5, <3>1, ReportedMore
  <2>. QED BY <2>6, <2>7
<1>. QED BY <1>1, <1>2, <1>3, <1>4, <1>5, <1>6, <1>7 DEF Next, Judge

LEMMA ReportIs == Spec => [](IInv /\ Reported)
BY ReportedInit, ReportedStep, Invariant, PTL DEF Spec

\* A denial's answer is one the log warrants: the image it is scoped to is the
\* one its process will run, and a value that cannot be written is left out.
LEMMA AnswerWarranted ==
    ASSUME done \in Seq(Recs), NEW i \in Judged, ~RefusedBy(done[i]), AnswerAt(i).kind # "explain"
    PROVE  Warrants(i, AnswerAt(i))
<1>. DEFINE r == done[i]
            s == AnswerAt(i)
            image == StaleImageAt(i)
<1>1. s = Decide(r, image)
  BY DEF AnswerAt
<1>2. /\ StaleAt(i) => image # None /\ image = ImageOf(i)
      /\ ~StaleAt(i) => image = None /\ r.exe = ImageOf(i)
  <2>1. ASSUME StaleAt(i) PROVE LastExec(i).path # None
    <3>1. ExecsOf(i) # {}
      BY <2>1 DEF StaleAt
    <3>. QED BY <3>1, LastExecIs DEF ExecsOf
  <2>. QED BY <2>1 DEF StaleImageAt, ImageOf
<1>3. Scope(r, image) = IF Writable(ImageOf(i)) THEN ImageOf(i) ELSE None
  BY <1>2 DEF Scope, Writable
<1>. HIDE DEF image, r
<1>4. /\ s.path = r.path /\ s.path \notin Control \cup {None, Unencoded}
      /\ IF s.kind = "trust" THEN r.trust = "0" \/ (r.trust = None /\ s.path \in Split)
         ELSE /\ r.trust \in {"1", None} /\ s.path \notin Split
              /\ s.perm = r.perm /\ s.perm \in {"open", "execute"}
              /\ s.exe = Scope(r, image)
  <2>1. Explain.kind = "explain"
    BY DEF Explain
  <2>. HIDE DEF s
  <2>2. s # Explain
    BY <2>1 DEF s
  <2>3. CASE r.trust = "0"
    <3>1. s = TrustFile(r.path) /\ r.path \notin Control \cup {None, Unencoded}
      BY <1>1, <2>2, <2>3 DEF Decide
    <3>. QED BY <2>3, <3>1 DEF TrustFile
  <2>4. CASE r.trust # "0"
    <3>1. /\ r.path \notin Control \cup {None, Unencoded} /\ r.trust \in {"1", None}
          /\ \/ s = TrustFile(r.path) /\ r.path \in Split /\ (r.trust = None \/ "1" = None)
             \/ /\ s = RuleFor(r.perm, Scope(r, image), r.path)
                /\ r.path \notin Split /\ r.perm \in {"open", "execute"}
      BY <1>1, <2>2, <2>4 DEF Decide, RuleArm
    <3>. QED BY <2>4, <3>1 DEF TrustFile, RuleFor
  <2>. QED BY <2>3, <2>4
<1>. QED BY <1>3, <1>4 DEF Warrants, r, Writable

\* Nothing is suggested that no denial of the log warrants: no trust for a
\* file the daemon trusts, no rule wider than the denial, and none scoped to
\* an image its process will not run, for every log, ruleset and proposal.
THEOREM SuggestionsWarranted == Spec => []Justified
<1>1. IInv /\ Reported => Justified
  <2>. SUFFICES ASSUME IInv, Reported, NEW j \in DOMAIN seen
                PROVE  \E i \in DOMAIN done : Warrants(i, seen[j])
    BY DEF Justified
  <2>1. PICK i \in Judged : seen[j].kind # "explain" /\ ~RefusedBy(done[i]) /\ seen[j] = AnswerAt(i)
    BY DEF Reported, SeenInv
  <2>2. done \in Seq(Recs)
    BY DEF IInv, Shapes
  <2>3. Warrants(i, seen[j])
    BY <2>1, <2>2, AnswerWarranted
  <2>. QED BY <2>1, <2>3 DEF Judged
<1>. QED BY <1>1, ReportIs, PTL

\* No denial passes in silence: it has its suggestion, or a note saying why it
\* has none, or its row under check; a corrupt line is warned of once.
THEOREM NothingSilent == Spec => []Answered
<1>1. IInv /\ Reported /\ RowsCount => Answered
  <2>. SUFFICES ASSUME IInv, Reported, RowsCount, NEW i \in DOMAIN done
                PROVE  /\ done[i].corrupt => live.warned = 1
                       /\ ~done[i].corrupt /\ done[i].denial /\ done[i].cut => NotedAs(i, {"cut"})
                       /\ i \in Judged => \/ \E j \in DOMAIN seen : Warrants(i, seen[j])
                                          \/ NotedAs(i, {"refused", "explain"})
                                          \/ RefusedBy(done[i]) /\ \E j \in DOMAIN checked :
                                                      checked[j].key = Key(done[i])
    BY DEF Answered
  <2>. done \in Seq(Recs)
    BY DEF IInv, Shapes
  <2>1. done[i].corrupt => live.warned = 1
    BY DEF Reported, AnsweredInv, IInv, LiveIsReport
  <2>2. ~done[i].corrupt /\ done[i].denial /\ done[i].cut => NotedAs(i, {"cut"})
    BY DEF Reported, AnsweredInv
  <2>3. ASSUME i \in Judged, RefusedBy(done[i])
        PROVE  \/ NotedAs(i, {"refused", "explain"})
               \/ \E j \in DOMAIN checked : checked[j].key = Key(done[i])
    <3>1. CASE Proposal = None
      <4>1. NotedAs(i, {"refused"})
        BY <2>3, <3>1 DEF Reported, AnsweredInv, Judged
      <4>. QED BY <4>1 DEF NotedAs
    <3>2. CASE Proposal # None
      BY <2>3, <3>2 DEF RowsCount
    <3>. QED BY <3>1, <3>2
  <2>4. ASSUME i \in Judged, ~RefusedBy(done[i])
        PROVE  \/ \E j \in DOMAIN seen : Warrants(i, seen[j])
               \/ NotedAs(i, {"refused", "explain"})
    <3>1. CASE AnswerAt(i).kind = "explain"
      <4>1. NotedAs(i, {"explain"})
        BY <2>4, <3>1 DEF Reported, AnsweredInv, Judged
      <4>. QED BY <4>1 DEF NotedAs
    <3>2. CASE AnswerAt(i).kind # "explain"
      <4>1. AnswerAt(i) \in ToSet(seen)
        BY <2>4, <3>2 DEF Reported, AnsweredInv, Judged
      <4>2. PICK j \in DOMAIN seen : seen[j] = AnswerAt(i)
        BY <4>1 DEF ToSet
      <4>. QED BY <2>4, <3>2, <4>2, AnswerWarranted
    <3>. QED BY <3>1, <3>2
  <2>. QED BY <2>1, <2>2, <2>3, <2>4
<1>. QED BY <1>1, ReportIs, RowsExact, PTL

--------------------------------------------------------------------------------
(* The counts                                                              *)

DeniedBy(n) == {r \in Recs : Whole(r) /\ r.rule = n}
CorruptRecs == {r \in Recs : r.corrupt}
MismatchedRecs == {r \in Recs : Whole(r) /\ Mismatched(r)}
AnswersOf(kind) == {s \in Answers : s.kind = kind}
RefusalNotes(n) == {note \in Notes : note.kind = "refused" /\ note.rule = n}

\* Each count is that of the positions of a history that hold what it counts.
LogCounts ==
    /\ \A n : n # 0 => TallyOf(n).denials = NumberOf(done, DeniedBy(n))
    /\ \A i \in DOMAIN done : Whole(done[i]) /\ done[i].rule # 0 => done[i].rule \in DOMAIN tally
    /\ corrupt = NumberOf(done, CorruptRecs)
    /\ unmatched = NumberOf(done, MismatchedRecs)

SeenCounts ==
    /\ rulesEmitted = NumberOf(seen, AnswersOf("rule"))
    /\ trustEmitted = NumberOf(seen, AnswersOf("trust"))

RefusalCounts ==
    Proposal = None /\ Rules # None =>
       \A n \in DOMAIN Rules \ {0} : Refuses(Rules[n]) =>
          TallyOf(n).denials = NumberOf(live.notes, RefusalNotes(n))

CountsInv == LogCounts /\ SeenCounts /\ RefusalCounts

\* A note is of the record judged and of its rule.
LEMMA NoteShape ==
    ASSUME done \in Seq(Recs), NEW r \in Recs
    PROVE  Note("cut", r) \in Notes /\ Note("refused", r) \in Notes
BY DEF Note, Notes, Numbers

\* A denial is one more of its rule's, and of no other's.
LEMMA TallyMore ==
    ASSUME Shapes, NEW n, NEW kind, tally' = Credited(n, kind)
    PROVE  /\ DOMAIN tally' = DOMAIN tally \cup (IF n = 0 THEN {} ELSE {n})
           /\ \A m : m # 0 => TallyOf(m)'.denials = TallyOf(m).denials + IF m = n THEN 1 ELSE 0
<1>1. \A m : TallyOf(m).denials \in Nat
  BY DEF TallyOf, NoTally, Shapes, Tallies
<1>2. CASE n = 0
  BY <1>1, <1>2 DEF Credited, TallyOf
<1>3. CASE n # 0
  <2>. DEFINE new == [denials |-> TallyOf(n).denials + 1,
                      rules |-> TallyOf(n).rules + IF kind = "rule" THEN 1 ELSE 0,
                      trust |-> TallyOf(n).trust + IF kind = "trust" THEN 1 ELSE 0]
  <2>1. new.denials = TallyOf(n).denials + 1
    OBVIOUS
  <2>2. tally' = [m \in DOMAIN tally \cup {n} |-> IF m = n THEN new ELSE tally[m]]
    BY <1>3 DEF Credited
  <2>. HIDE DEF new
  <2>3. ASSUME NEW m, m # 0
        PROVE  TallyOf(m)'.denials = TallyOf(m).denials + IF m = n THEN 1 ELSE 0
    <3>1. CASE m = n
      BY <2>1, <2>2, <3>1 DEF TallyOf
    <3>2. CASE m # n
      <4>1. TallyOf(m)' = TallyOf(m)
        BY <2>2, <3>2 DEF TallyOf
      <4>. QED BY <1>1, <3>2, <4>1
    <3>. QED BY <3>1, <3>2
  <2>. QED BY <1>3, <2>2, <2>3
<1>. QED BY <1>2, <1>3

\* One more record judged: each count moves with the log.
LEMMA LogCountsMore ==
    ASSUME Shapes, LogCounts, NEW r \in Recs, done' = Append(done, r),
           IF Whole(r) THEN \E kind : tally' = Credited(r.rule, kind) ELSE tally' = tally,
           corrupt' = corrupt + IF r.corrupt THEN 1 ELSE 0,
           unmatched' = unmatched + IF Whole(r) /\ Mismatched(r) THEN 1 ELSE 0
    PROVE  /\ LogCounts'
           /\ \A n : n # 0 => TallyOf(n)'.denials
                                 = TallyOf(n).denials + IF Whole(r) /\ r.rule = n THEN 1 ELSE 0
<1>. done \in Seq(Recs)
  BY DEF Shapes
<1>1. /\ DOMAIN tally' = DOMAIN tally \cup (IF Whole(r) /\ r.rule # 0 THEN {r.rule} ELSE {})
      /\ \A n : n # 0 => TallyOf(n)'.denials
                            = TallyOf(n).denials + IF Whole(r) /\ r.rule = n THEN 1 ELSE 0
  <2>1. CASE Whole(r)
    BY <2>1, TallyMore
  <2>2. CASE ~Whole(r)
    <3>1. \A n : TallyOf(n)' = TallyOf(n) /\ TallyOf(n).denials \in Nat
      BY <2>2 DEF TallyOf, NoTally, Shapes, Tallies
    <3>. QED BY <2>2, <3>1
  <2>. QED BY <2>1, <2>2
<1>2. ASSUME NEW n, n # 0
      PROVE  TallyOf(n)'.denials = NumberOf(done', DeniedBy(n))
  <2>1. r \in DeniedBy(n) <=> Whole(r) /\ r.rule = n
    BY DEF DeniedBy
  <2>2. NumberOf(done', DeniedBy(n)) = NumberOf(done, DeniedBy(n)) + IF r \in DeniedBy(n) THEN 1 ELSE 0
    BY NumberAppend
  <2>3. TallyOf(n).denials = NumberOf(done, DeniedBy(n))
    BY <1>2 DEF LogCounts
  <2>. QED BY <1>1, <1>2, <2>1, <2>2, <2>3
<1>3. \A i \in DOMAIN done' : Whole(done'[i]) /\ done'[i].rule # 0 => done'[i].rule \in DOMAIN tally'
  <2>1. \A i \in DOMAIN done' : \/ i \in DOMAIN done /\ done'[i] = done[i]
                                \/ done'[i] = r
    BY LogAppend
  <2>. QED BY <1>1, <2>1 DEF LogCounts
<1>4. corrupt' = NumberOf(done', CorruptRecs)
  <2>1. r \in CorruptRecs <=> r.corrupt
    BY DEF CorruptRecs
  <2>. QED BY <2>1, NumberAppend DEF LogCounts
<1>5. unmatched' = NumberOf(done', MismatchedRecs)
  <2>1. r \in MismatchedRecs <=> Whole(r) /\ Mismatched(r)
    BY DEF MismatchedRecs
  <2>. QED BY <2>1, NumberAppend DEF LogCounts
<1>6. LogCounts'
  BY <1>2, <1>3, <1>4, <1>5 DEF LogCounts, DeniedBy, CorruptRecs, MismatchedRecs, NumberOf, Positions, Whole, Mismatched
<1>. QED BY <1>1, <1>6

\* A step that judges nothing moves no count.
LEMMA CountsSame ==
    ASSUME CountsInv, UNCHANGED <<counted, done, live>>
    PROVE  CountsInv'
<1>1. \A n : TallyOf(n)' = TallyOf(n)
  BY DEF counted, TallyOf
<1>2. LogCounts'
  BY <1>1 DEF CountsInv, LogCounts, counted
<1>3. SeenCounts'
  BY DEF CountsInv, SeenCounts, counted
<1>4. RefusalCounts'
  BY <1>1 DEF CountsInv, RefusalCounts
<1>. QED BY <1>2, <1>3, <1>4 DEF CountsInv

\* A denial of a rule that cannot be answered is one more refusal of it, and
\* of no other; any other record is none.
LEMMA RefusalsMore ==
    ASSUME RefusalCounts, NEW r \in Recs, live.notes \in Seq(Notes),
           NEW ns \in Seq(Notes), live'.notes = live.notes \o ns,
           \A n : n # 0 => TallyOf(n)'.denials
                             = TallyOf(n).denials + IF Whole(r) /\ r.rule = n THEN 1 ELSE 0,
           \A n : n # 0 => TallyOf(n).denials \in Nat,
           IF Whole(r) /\ RefusedBy(r) /\ Proposal = None
           THEN \E note \in Notes : /\ ns = <<note>> /\ note.kind = "refused"
                                    /\ note.rule = r.rule
           ELSE \A k \in DOMAIN ns : ns[k].kind # "refused"
    PROVE  RefusalCounts'
<1>. SUFFICES ASSUME Proposal = None, Rules # None,
                     NEW n \in DOMAIN Rules \ {0}, Refuses(Rules[n])
              PROVE  TallyOf(n)'.denials = NumberOf(live'.notes, RefusalNotes(n))
  BY DEF RefusalCounts, NumberOf, Positions, RefusalNotes
<1>1. TallyOf(n).denials = NumberOf(live.notes, RefusalNotes(n))
  BY DEF RefusalCounts
<1>2. r.rule = n => RefusedBy(r)
  BY DEF RefusedBy
<1>3. CASE Whole(r) /\ RefusedBy(r)
  <2>1. PICK note \in Notes : /\ ns = <<note>> /\ note.kind = "refused" /\ note.rule = r.rule
    BY <1>3
  <2>2. live'.notes = Append(live.notes, note)
    BY <2>1
  <2>3. note \in RefusalNotes(n) <=> r.rule = n
    BY <2>1 DEF RefusalNotes
  <2>. QED BY <1>1, <1>3, <2>2, <2>3, NumberAppend
<1>4. CASE ~(Whole(r) /\ RefusedBy(r))
  <2>1. \A k \in DOMAIN ns : ns[k] \notin RefusalNotes(n)
    BY <1>4 DEF RefusalNotes
  <2>2. NumberOf(live'.notes, RefusalNotes(n)) = NumberOf(live.notes, RefusalNotes(n))
    BY <2>1, PositionsConcat DEF NumberOf
  <2>3. ~(Whole(r) /\ r.rule = n)
    BY <1>2, <1>4
  <2>. QED BY <1>1, <2>2, <2>3
<1>. QED BY <1>3, <1>4

\* Each suggestion accepted is counted under its own artifact.
LEMMA SeenCountsMore ==
    ASSUME SeenCounts, seen \in Seq(Answers), NEW s \in Answers, seen' = Append(seen, s),
           rulesEmitted' = rulesEmitted + IF s.kind = "rule" THEN 1 ELSE 0,
           trustEmitted' = trustEmitted + IF s.kind = "trust" THEN 1 ELSE 0
    PROVE  SeenCounts'
<1>1. \A kind : s \in AnswersOf(kind) <=> s.kind = kind
  BY DEF AnswersOf
<1>2. rulesEmitted' = NumberOf(seen', AnswersOf("rule"))
  BY <1>1, NumberAppend DEF SeenCounts
<1>3. trustEmitted' = NumberOf(seen', AnswersOf("trust"))
  BY <1>1, NumberAppend DEF SeenCounts
<1>. QED BY <1>2, <1>3 DEF SeenCounts, NumberOf, Positions, AnswersOf

LEMMA CountsInit == Init => CountsInv
<1>. SUFFICES ASSUME Init PROVE CountsInv
  OBVIOUS
<1>1. /\ done = << >> /\ seen = << >> /\ live.notes = << >> /\ tally = << >>
      /\ corrupt = 0 /\ unmatched = 0 /\ rulesEmitted = 0 /\ trustEmitted = 0
      /\ DOMAIN << >> = {}
  BY DEF Init
<1>2. \A U : NumberOf(<< >>, U) = 0
  <2>1. \A U : Positions(<< >>, U) = {}
    BY DEF Positions
  <2>. QED BY <2>1, FS_EmptySet DEF NumberOf
<1>3. \A n : TallyOf(n).denials = 0
  BY <1>1 DEF TallyOf, NoTally
<1>. QED BY <1>1, <1>2, <1>3 DEF CountsInv, LogCounts, SeenCounts, RefusalCounts

LEMMA CountsStep == IInv /\ Reported /\ CountsInv /\ [Next]_vars => CountsInv'
<1>. SUFFICES ASSUME IInv, Reported, CountsInv, [Next]_vars PROVE CountsInv'
  OBVIOUS
<1>0. /\ Shapes /\ LogCounts /\ SeenCounts /\ RefusalCounts
      /\ done \in Seq(Recs) /\ seen \in Seq(Answers) /\ live.notes \in Seq(Notes)
      /\ corrupt \in Nat /\ unmatched \in Nat /\ rulesEmitted \in Nat /\ trustEmitted \in Nat
      /\ live.notes \o << >> = live.notes /\ << >> \in Seq(Notes) /\ seen \o << >> = seen
      /\ \A n : TallyOf(n).denials \in Nat
  <2>1. done \in Seq(Recs) /\ seen \in Seq(Answers)
    BY DEF IInv, Shapes
  <2>2. \A U : NumberOf(done, U) \in Nat /\ NumberOf(seen, U) \in Nat
    BY <2>1, PositionsCount DEF NumberOf
  <2>3. \A n : TallyOf(n).denials \in Nat
    BY DEF IInv, Shapes, TallyOf, NoTally, Tallies
  <2>. QED BY <2>1, <2>2, <2>3
       DEF IInv, Shapes, Reported, AnsweredInv, CountsInv, LogCounts, SeenCounts
<1>1. CASE UNCHANGED vars \/ Consumed
  BY <1>1, CountsSame DEF Consumed, vars, counted
<1>2. CASE \/ \E l \in Lines : Hold(l) \/ FeedDaemon(l) \/ OpenAudit(l)
           \/ \E l \in Lines, records \in Releases : FeedAudit(l, records)
           \/ \E records \in Releases : Finish(records)
  BY <1>2, CountsSame DEF Hold, FeedDaemon, OpenAudit, FeedAudit, Finish, NextLine
<1>3. ASSUME NEW r, Corrupted(r) \/ PassedOver(r) \/ Truncated(r) PROVE CountsInv'
  <2>1. /\ Take(r) /\ ~Whole(r) /\ UNCHANGED <<seen, rulesEmitted, trustEmitted, tally, unmatched>>
        /\ corrupt' = corrupt + IF r.corrupt THEN 1 ELSE 0
    BY <1>0, <1>3 DEF Corrupted, PassedOver, Truncated, Whole, counted
  <2>2. r \in Recs /\ done' = Append(done, r)
    BY <2>1, TakeRecord DEF IInv
  <2>3. /\ LogCounts'
        /\ \A n : n # 0 => TallyOf(n)'.denials
                             = TallyOf(n).denials + IF Whole(r) /\ r.rule = n THEN 1 ELSE 0
    BY <1>0, <2>1, <2>2, LogCountsMore
  <2>4. SeenCounts'
    BY <1>0, <2>1 DEF SeenCounts
  <2>5. \E ns \in Seq(Notes) : live'.notes = live.notes \o ns /\ \A k \in DOMAIN ns : ns[k].kind # "refused"
    <3>1. CASE Truncated(r)
      <4>1. PICK note \in Notes : note = Note("cut", r)
        BY <1>0, <2>2, NoteShape, Zenon
      <4>2. live'.notes = live.notes \o <<note>> /\ note.kind # "refused"
        BY <3>1, <4>1 DEF Truncated, HandBack, Note
      <4>3. <<note>> \in Seq(Notes) /\ \A k \in DOMAIN <<note>> : <<note>>[k].kind # "refused"
        BY <4>2
      <4>. QED BY <4>2, <4>3
    <3>2. CASE Corrupted(r) \/ PassedOver(r)
      <4>1. live'.notes = live.notes \o << >>
        BY <1>0, <3>2 DEF Corrupted, PassedOver, HandBack
      <4>2. PICK ns \in Seq(Notes) : ns = << >>
        BY <1>0
      <4>3. \A k \in DOMAIN ns : ns[k].kind # "refused"
        BY <4>2
      <4>. QED BY <4>1, <4>2, <4>3
    <3>. QED BY <1>3, <3>1, <3>2
  <2>6. RefusalCounts'
    BY <1>0, <2>1, <2>2, <2>3, <2>5, RefusalsMore
  <2>. QED BY <2>3, <2>4, <2>6 DEF CountsInv
<1>4. ASSUME NEW r, Refuse(r) PROVE CountsInv'
  <2>. DEFINE ns == IF Proposal = None THEN <<Note("refused", r)>> ELSE << >>
  <2>1. /\ Take(r) /\ Whole(r) /\ RefusedBy(r)
        /\ UNCHANGED <<seen, rulesEmitted, trustEmitted, unmatched, corrupt>>
        /\ tally' = Credited(r.rule, "none") /\ live'.notes = live.notes \o ns
    BY <1>4 DEF Refuse, HandBack
  <2>2. r \in Recs /\ done' = Append(done, r) /\ ~r.corrupt
    BY <2>1, TakeRecord DEF IInv, Whole
  <2>3. ~Mismatched(r)
    BY <2>1 DEF Mismatched, RefusedBy, Refuses
  <2>4. /\ LogCounts'
        /\ \A n : n # 0 => TallyOf(n)'.denials
                             = TallyOf(n).denials + IF Whole(r) /\ r.rule = n THEN 1 ELSE 0
    BY <1>0, <2>1, <2>2, <2>3, LogCountsMore
  <2>5. SeenCounts'
    BY <1>0, <2>1 DEF SeenCounts
  <2>6. PICK note \in Notes : note = Note("refused", r)
    BY <1>0, <2>2, NoteShape, Zenon
  <2>7. note.kind = "refused" /\ note.rule = r.rule
    BY <2>6 DEF Note
  <2>8. /\ ns \in Seq(Notes)
        /\ IF Proposal = None THEN ns = <<note>> ELSE \A k \in DOMAIN ns : ns[k].kind # "refused"
    BY <2>6
  <2>. HIDE DEF ns
  <2>9. RefusalCounts'
    BY <1>0, <2>1, <2>2, <2>4, <2>7, <2>8, RefusalsMore
  <2>. QED BY <2>4, <2>5, <2>9 DEF CountsInv
<1>5. ASSUME NEW r, Resolve(r) PROVE CountsInv'
  <2>1. PICK s : s = Decide(r, Stale(r))
    OBVIOUS
  <2>2. /\ Take(r) /\ Whole(r) /\ ~RefusedBy(r) /\ UNCHANGED corrupt
        /\ live'.notes = live.notes \o NotesOf(r, s)
        /\ seen' = seen \o IF New(s) THEN <<s>> ELSE << >>
        /\ tally' = Credited(r.rule, IF New(s) THEN s.kind ELSE "none")
        /\ unmatched' = unmatched + IF Mismatched(r) THEN 1 ELSE 0
        /\ rulesEmitted' = rulesEmitted + IF New(s) /\ s.kind = "rule" THEN 1 ELSE 0
        /\ trustEmitted' = trustEmitted + IF New(s) /\ s.kind = "trust" THEN 1 ELSE 0
    BY <1>5, <2>1 DEF Resolve, HandBack
  <2>3. r \in Recs /\ done' = Append(done, r) /\ ~r.corrupt
    BY <2>2, TakeRecord DEF IInv, Whole
  <2>4. s \in Answers
    BY <2>1, <2>3, StaleImage DEF IInv, Answers
  <2>5. /\ LogCounts'
        /\ \A n : n # 0 => TallyOf(n)'.denials
                             = TallyOf(n).denials + IF Whole(r) /\ r.rule = n THEN 1 ELSE 0
    BY <1>0, <2>2, <2>3, LogCountsMore
  <2>6. SeenCounts'
    <3>1. CASE New(s)
      <4>1. seen' = Append(seen, s)
        BY <1>0, <2>2, <2>4, <3>1
      <4>. QED BY <1>0, <2>2, <2>4, <3>1, <4>1, SeenCountsMore
    <3>2. CASE ~New(s)
      <4>1. UNCHANGED <<seen, rulesEmitted, trustEmitted>>
        BY <1>0, <2>2, <3>2
      <4>. QED BY <1>0, <4>1 DEF SeenCounts
    <3>. QED BY <3>1, <3>2
  <2>7. PICK ns : ns = NotesOf(r, s)
    OBVIOUS
  <2>8. ns \in Seq(Notes) /\ \A k \in DOMAIN ns : ns[k].kind # "refused"
    <3>1. ns \in Seq(DecisionNotes) /\ DecisionNotes \subseteq Notes
      BY <1>0, <2>3, <2>7, NotesOfFacts DEF DecisionNotes
    <3>2. \A k \in DOMAIN ns : ns[k] \in DecisionNotes
      BY <3>1
    <3>. QED BY <3>1, <3>2 DEF DecisionNotes
  <2>9. RefusalCounts'
    BY <1>0, <2>2, <2>3, <2>5, <2>7, <2>8, RefusalsMore
  <2>. QED BY <2>5, <2>6, <2>9 DEF CountsInv
<1>. QED BY <1>1, <1>2, <1>3, <1>4, <1>5 DEF Next, Judge

\* The counts the report states are those of the log: denials per rule, the
\* suggestions of each artifact, the corrupt lines, the records of another
\* rules file; and a rule that cannot be answered has as many denials as it
\* has refusal notes.
THEOREM CountsRight == Spec => []Counts
<1>1. IInv /\ Reported /\ CountsInv => Counts
  <2>. SUFFICES ASSUME IInv, Reported, CountsInv PROVE Counts
    OBVIOUS
  <2>0. /\ done \in Seq(Recs) /\ seen \in Seq(Answers) /\ live.notes \in Seq(Notes)
        /\ \A n \in DOMAIN tally : n # 0 /\ TallyOf(n) = tally[n]
        /\ \A i \in DOMAIN done : done[i] \in Recs
        /\ \A i \in DOMAIN seen : seen[i] \in Answers
        /\ \A i \in DOMAIN live.notes : live.notes[i] \in Notes
    BY SMTT(30) DEF IInv, TypeOK, Shapes, TallyOf, Reported, AnsweredInv
  <2>1. \A n : Positions(done, DeniedBy(n)) = {i \in Judged : done[i].rule = n}
    BY <2>0 DEF Positions, DeniedBy, Judged
  <2>2. Positions(done, CorruptRecs) = {i \in DOMAIN done : done[i].corrupt}
    BY <2>0 DEF Positions, CorruptRecs
  <2>3. Positions(done, MismatchedRecs) = {i \in Judged : Mismatched(done[i])}
    BY <2>0 DEF Positions, MismatchedRecs, Judged
  <2>4. \A kind : Positions(seen, AnswersOf(kind)) = Kinds(kind)
    BY <2>0 DEF Positions, AnswersOf, Kinds
  <2>5. \A n : Positions(live.notes, RefusalNotes(n))
                 = {j \in DOMAIN live.notes :
                       live.notes[j].kind = "refused" /\ live.notes[j].rule = n}
    BY <2>0 DEF Positions, RefusalNotes
  <2>6. \A n \in DOMAIN tally : tally[n].denials = Count({i \in Judged : done[i].rule = n})
    BY <2>0, <2>1 DEF CountsInv, LogCounts, NumberOf, Count
  <2>7. \A i \in Judged : done[i].rule # 0 => done[i].rule \in DOMAIN tally
    BY DEF CountsInv, LogCounts, Judged
  <2>8. /\ corrupt = Count({i \in DOMAIN done : done[i].corrupt})
        /\ unmatched = Count({i \in Judged : Mismatched(done[i])})
        /\ rulesEmitted = Count(Kinds("rule")) /\ trustEmitted = Count(Kinds("trust"))
    BY <2>2, <2>3, <2>4 DEF CountsInv, LogCounts, SeenCounts, NumberOf, Count
  <2>9. ASSUME Proposal = None, Rules # None,
               NEW n \in DOMAIN tally \cap DOMAIN Rules, Refuses(Rules[n])
        PROVE  tally[n].denials = Count({j \in DOMAIN live.notes :
                                            live.notes[j].kind = "refused" /\ live.notes[j].rule = n})
    BY <2>0, <2>5, <2>9 DEF CountsInv, RefusalCounts, NumberOf, Count
  <2>. QED BY <2>6, <2>7, <2>8, <2>9 DEF Counts
<1>. QED BY <1>1, CountsInit, CountsStep, ReportIs, PTL DEF Spec
================================================================================
