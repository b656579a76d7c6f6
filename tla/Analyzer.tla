-------------------------------- MODULE Analyzer --------------------------------
(***************************************************************************)
(* src/fapolicyd/analyze.rs: the pass over the log that batch and --follow *)
(* share.  A line is fed, routed to the daemon's reader or the audit       *)
(* assembler's, and each record it yields is judged: corrupt, not a        *)
(* denial, cut short, or decided (policy.rs), tallied under its rule and   *)
(* checked against a proposal (module Verdict).  What a step hands back is *)
(* written at once under --follow, so the history of it is part of the     *)
(* state; what `finish` reports is the state itself.                       *)
(*                                                                         *)
(* A line is [kind, rec]; a record is the fields the pass reads of it.     *)
(***************************************************************************)
EXTENDS Policy

CONSTANTS
    Lines,     \* the lines a log may hold
    Releases,  \* what the audit assembler may hand over for one line
    MaxLines,  \* bound: lines fed
    Rules,     \* the loaded rules, None when they were not read
    RulesD,    \* the listing they came from, << >> when it was not read
    Proposal   \* [merged, files, changed] under `check`, otherwise None

ASSUME LinesAssumption ==
    \A l \in Lines : l.kind \in {"blank", "framing", "noise", "prose", "record", "audit"}

ASSUME ReleasesAssumption == \A rs \in Releases : rs \in Seq(ToSet(rs))

VARIABLES
    route,          \* "undecided", "daemon" or "audit"
    held,           \* framing lines kept until the route is known
    pending,        \* records of the line being fed, not yet judged
    content, parsed, \* lines that looked like input, lines that yielded a field
    seen,           \* the suggestions accepted, in first-seen order
    rulesEmitted, trustEmitted,
    tally,          \* rule number to [denials, rules, trust]
    unmatched, corrupt,
    execs,          \* pid to the image and path of its last denied exec
    checked,        \* [key, count, verdict], in first-seen order
    ended,          \* finish was called
    live,           \* history: what the steps handed back, [suggestions, why, warned, notes]
    fed, done       \* history: the lines fed and the records judged

vars == <<route, held, pending, content, parsed, seen, rulesEmitted, trustEmitted, tally,
          unmatched, corrupt, execs, checked, ended, live, fed, done>>

counted == <<seen, rulesEmitted, trustEmitted, tally, unmatched, corrupt, execs, checked>>

--------------------------------------------------------------------------------
(* The pid map                                                             *)

HasPid(r) == r.pid \notin {None, "0"} /\ r.exe # None

\* The last exec denial of a pid wins.
ExecsAfter(r) ==
    IF ~HasPid(r) \/ r.perm # "execute" \/ r.path = None THEN execs
    ELSE [p \in DOMAIN execs \cup {r.pid} |->
            IF p = r.pid THEN [exe |-> r.exe, path |-> r.path] ELSE execs[p]]

\* stale_exe: the image to scope this record's rule to, or None.
Stale(r) ==
    IF /\ HasPid(r) /\ r.perm # "execute" /\ r.pid \in DOMAIN execs
       /\ execs[r.pid].exe = r.exe /\ execs[r.pid].path # r.path
    THEN execs[r.pid].path ELSE None

--------------------------------------------------------------------------------
(* One record                                                              *)

\* What the matcher compares: a value that was not encoded names nothing.
Shown(r) == [f \in Logged |-> IF r[f] = Unencoded THEN None ELSE r[f]]

VerdictOn(r, stale) ==
    CheckVerdict(Shown(r), r.rule, stale, Rules,
                 IF Proposal.merged THEN RulesD ELSE None,
                 Proposal.changed, Proposal.files)

VerdictOf(r) == VerdictOn(r, Stale(r))

Key(r) == [f \in Logged \cup {"rule"} |-> r[f]]

\* MUTANT: the latest record of a key decides for it.
CheckedLatest(r) ==
    IF Proposal = None THEN checked
    ELSE IF \E i \in DOMAIN checked : checked[i].key = Key(r)
    THEN [i \in DOMAIN checked |->
            IF checked[i].key = Key(r)
            THEN [checked[i] EXCEPT !.count = @ + 1, !.verdict = VerdictOf(r)] ELSE checked[i]]
    ELSE Append(checked, [key |-> Key(r), count |-> 1, verdict |-> VerdictOf(r)])

\* MUTANT: only the row written last is looked at.
CheckedAdjacent(r) ==
    IF Proposal = None THEN checked
    ELSE IF checked # << >> /\ checked[Len(checked)].key = Key(r)
    THEN [checked EXCEPT ![Len(checked)].count = @ + 1]
    ELSE Append(checked, [key |-> Key(r), count |-> 1, verdict |-> VerdictOf(r)])

\* The check rows: the first record of a key decides for it.
CheckedAfter(r) ==
    IF Proposal = None THEN checked
    ELSE IF \E i \in DOMAIN checked : checked[i].key = Key(r)
    THEN [i \in DOMAIN checked |->
            IF checked[i].key = Key(r) THEN [checked[i] EXCEPT !.count = @ + 1] ELSE checked[i]]
    ELSE Append(checked, [key |-> Key(r), count |-> 1, verdict |-> VerdictOf(r)])

RefusedBy(r) == Rules # None /\ r.rule \in DOMAIN Rules /\ Refuses(Rules[r.rule])

\* A rule the file does not have, or one that is not a deny.
Mismatched(r) ==
    Rules # None /\ r.rule # 0 /\ (r.rule \notin DOMAIN Rules \/ Rules[r.rule].dec \notin Denying)

NoTally == [denials |-> 0, rules |-> 0, trust |-> 0]
TallyOf(n) == IF n \in DOMAIN tally THEN tally[n] ELSE NoTally

\* MUTANT: a denial is counted only where a suggestion is accepted.
CreditedAccepted(n, kind) ==
    IF n = 0 \/ kind = "none" THEN tally
    ELSE [m \in DOMAIN tally \cup {n} |->
            IF m = n THEN [denials |-> TallyOf(n).denials + 1,
                           rules |-> TallyOf(n).rules + IF kind = "rule" THEN 1 ELSE 0,
                           trust |-> TallyOf(n).trust + IF kind = "trust" THEN 1 ELSE 0]
                     ELSE tally[m]]

\* Rule n is credited with one more denial, and with a suggestion of a kind.
Credited(n, kind) ==
    IF n = 0 THEN tally
    ELSE [m \in DOMAIN tally \cup {n} |->
            IF m = n THEN [denials |-> TallyOf(n).denials + 1,
                           rules |-> TallyOf(n).rules + IF kind = "rule" THEN 1 ELSE 0,
                           trust |-> TallyOf(n).trust + IF kind = "trust" THEN 1 ELSE 0]
                     ELSE tally[m]]

Note(kind, r) == [record |-> Len(done) + 1, kind |-> kind, rule |-> r.rule]

\* MUTANT: a row is written for every denial.
WhyRowAlways(n) == IF n = 0 THEN << >> ELSE <<n>>

\* The rule number is new to `why`, whose row is written once.
WhyRow(n) == IF n = 0 \/ n \in DOMAIN tally THEN << >> ELSE <<n>>

\* The step hands these back.
HandBack(suggestions, why, warned, notes) ==
    live' = [suggestions |-> live.suggestions \o suggestions, why |-> live.why \o why,
             warned |-> live.warned + warned, notes |-> live.notes \o notes]

\* The next record of the line is taken up.
Take(r) ==
    /\ pending # << >> /\ r = Head(pending)
    /\ pending' = Tail(pending)
    /\ done' = Append(done, r)
    /\ UNCHANGED <<route, held, content, parsed, ended, fed>>

\* Its field names are freed memory: warned of once, counted, and nothing else.
Corrupted(r) ==
    /\ Take(r) /\ r.corrupt
    /\ corrupt' = corrupt + 1
    /\ HandBack(<< >>, << >>, IF corrupt = 0 THEN 1 ELSE 0, << >>)
    /\ UNCHANGED <<seen, rulesEmitted, trustEmitted, tally, unmatched, execs, checked>>

\* Not a denial.
PassedOver(r) ==
    /\ Take(r) /\ ~r.corrupt /\ ~r.denial
    /\ UNCHANGED <<live, counted>>

\* Cut short: its path may be a prefix, so nothing is made of it.
Truncated(r) ==
    /\ Take(r) /\ ~r.corrupt /\ r.denial /\ r.cut
    /\ HandBack(<< >>, << >>, 0, <<Note("cut", r)>>)
    /\ UNCHANGED counted

Whole(r) == ~r.corrupt /\ r.denial /\ ~r.cut

\* A rule that constrains the process only: no path rule and no trust entry
\* resolves it, which `check` has answered in its own row.
Refuse(r) ==
    /\ Take(r) /\ Whole(r) /\ RefusedBy(r)
    /\ execs' = ExecsAfter(r)
    /\ tally' = Credited(r.rule, "none")
    /\ checked' = CheckedAfter(r)
    /\ HandBack(<< >>, WhyRow(r.rule), 0, IF Proposal = None THEN <<Note("refused", r)>> ELSE << >>)
    /\ UNCHANGED <<seen, rulesEmitted, trustEmitted, unmatched, corrupt>>

\* MUTANT: every suggestion is accepted, the ones seen before as well.
NewAlways(s) == s.kind # "explain"

\* MUTANT: one suggestion per path, whatever it says of it.
NewByPath(s) == s.kind # "explain" /\ \A i \in DOMAIN seen : seen[i].path # s.path

\* Whether suggestion s is accepted: once each.
New(s) == s.kind # "explain" /\ s \notin ToSet(seen)

\* The notes that follow a decision: why nothing came of it, what was assumed
\* about the trust, and what the rule was scoped to.
NotesOf(r, s) ==
    LET notes == { <<s.kind = "explain", "explain">>,
                   <<s.kind # "explain" /\ r.trust = None, "absent">>,
                   <<s.kind = "rule" /\ Stale(r) # None, "stale">> }
        Said(kind) == IF <<TRUE, kind>> \in notes THEN <<Note(kind, r)>> ELSE << >>
    IN  Said("explain") \o Said("absent") \o Said("stale")

\* Any other denial is decided, and its suggestion accepted unless it was
\* seen before.
Resolve(r) ==
    /\ Take(r) /\ Whole(r) /\ ~RefusedBy(r)
    /\ execs' = ExecsAfter(r)
    /\ checked' = CheckedAfter(r)
    /\ unmatched' = unmatched + IF Mismatched(r) THEN 1 ELSE 0
    /\ LET s == Decide(r, Stale(r))
           n == IF New(s) THEN <<s>> ELSE << >>
       IN  /\ seen' = seen \o n
           /\ rulesEmitted' = rulesEmitted + IF New(s) /\ s.kind = "rule" THEN 1 ELSE 0
           /\ trustEmitted' = trustEmitted + IF New(s) /\ s.kind = "trust" THEN 1 ELSE 0
           /\ tally' = Credited(r.rule, IF New(s) THEN s.kind ELSE "none")
           /\ HandBack(n, WhyRow(r.rule), 0, NotesOf(r, s))
    /\ UNCHANGED corrupt

--------------------------------------------------------------------------------
(* Lines                                                                   *)

Init ==
    /\ route = "undecided" /\ held = 0 /\ pending = << >>
    /\ content = 0 /\ parsed = 0 /\ seen = << >>
    /\ rulesEmitted = 0 /\ trustEmitted = 0 /\ tally = << >>
    /\ unmatched = 0 /\ corrupt = 0 /\ execs = << >> /\ checked = << >>
    /\ ended = FALSE
    /\ live = [suggestions |-> << >>, why |-> << >>, warned |-> 0, notes |-> << >>]
    /\ fed = << >> /\ done = << >>

Framing == {"blank", "framing"}

NextLine(l) ==
    /\ ~ended /\ pending = << >> /\ Len(fed) < MaxLines
    /\ fed' = Append(fed, l)
    /\ UNCHANGED <<ended, live, done, counted>>

\* Framing ahead of the first real line decides nothing and is kept: the
\* daemon's reader will count it and the audit reader skip it.
Hold(l) ==
    /\ NextLine(l) /\ route = "undecided" /\ l.kind \in Framing
    /\ held' = held + IF l.kind = "framing" THEN 1 ELSE 0
    /\ UNCHANGED <<route, pending, content, parsed>>

\* MUTANT: the lines held are dropped on both routes.
CarriedNone(l) == 0

Carried(l) == held

\* A line of the daemon's: prose is content, a record is parsed as well.
FeedDaemon(l) ==
    /\ NextLine(l)
    /\ route = "daemon" \/ (route = "undecided" /\ l.kind \notin Framing \cup {"audit"})
    /\ route' = "daemon" /\ held' = 0
    /\ content' = content + Carried(l) + IF l.kind \in {"blank", "noise"} THEN 0 ELSE 1
    /\ parsed' = parsed + IF l.kind \in {"record", "audit"} THEN 1 ELSE 0
    /\ pending' = IF l.kind \in {"record", "audit"} THEN <<l.rec>> ELSE << >>

\* The first audit record opens the other route; what was held is dropped.
OpenAudit(l) ==
    /\ NextLine(l) /\ route = "undecided" /\ l.kind = "audit"
    /\ route' = "audit" /\ held' = 0
    /\ UNCHANGED <<pending, content, parsed>>

\* Any line moves the assembler, which may close an event or several.
FeedAudit(l, records) ==
    /\ NextLine(l) /\ route = "audit"
    /\ pending' = records
    /\ UNCHANGED <<route, held, content, parsed>>

\* The end of the input: an input of nothing but framing is the daemon's, and
\* the assembler hands over the events still open.
Finish(records) ==
    /\ ~ended /\ pending = << >>
    /\ ended' = TRUE
    /\ content' = content + IF route = "undecided" THEN held ELSE 0
    /\ pending' = IF route = "audit" THEN records ELSE << >>
    /\ route' = "daemon" /\ held' = 0
    /\ UNCHANGED <<parsed, counted, live, fed, done>>

\* The analyzer is consumed by finish.
Consumed == ended /\ pending = << >> /\ UNCHANGED vars

Judge == \E r \in ToSet(pending) :
            Corrupted(r) \/ PassedOver(r) \/ Truncated(r) \/ Refuse(r) \/ Resolve(r)

Next ==
    \/ \E l \in Lines : Hold(l) \/ FeedDaemon(l) \/ OpenAudit(l)
    \/ \E l \in Lines, records \in Releases : FeedAudit(l, records)
    \/ \E records \in Releases : Finish(records)
    \/ Judge \/ Consumed

Spec == Init /\ [][Next]_vars

--------------------------------------------------------------------------------
(* What the report says at the end                                         *)

\* §9's exit 2: input was consumed and none of it parsed.
ConsumedButUnparseable == content > 0 /\ parsed = 0

\* The rule numbers the placement note has to sort a new file ahead of.
Denied == {n \in DOMAIN tally : tally[n].rules # 0}

\* placement_note: the file it names, 0 for none.
PlacedBefore ==
    IF RulesD = << >> \/ Rules = None \/ Denied = {} THEN 0
    ELSE IF \E n \in Denied : Locate(RulesD, Rules, n) = 0 THEN 0
    ELSE Smallest({Locate(RulesD, Rules, n) : n \in Denied})

--------------------------------------------------------------------------------
(* Properties                                                              *)

Judged == {i \in DOMAIN done : Whole(done[i])}

TypeOK ==
    /\ route \in {"undecided", "daemon", "audit"}
    /\ route # "undecided" => held = 0
    /\ route = "undecided" => content = 0 /\ done = << >>
    /\ parsed <= content
    /\ \A p \in DOMAIN execs : p \notin {None, "0"} /\ execs[p].path # None
    /\ IsInjective(seen)
    /\ \A n \in DOMAIN tally : n # 0 /\ tally[n].denials > 0
                               /\ tally[n].rules + tally[n].trust <= tally[n].denials

\* The latest whole exec denial of the process of record i, before it: what
\* the pid map stands for, read off the whole log.
ExecsOf(i) ==
    {j \in Judged : /\ j < i /\ HasPid(done[i]) /\ done[j].pid = done[i].pid
                    /\ done[j].perm = "execute" /\ done[j].exe # None /\ done[j].path # None}
LastExec(i) == done[CHOOSE j \in ExecsOf(i) : \A k \in ExecsOf(i) : k <= j]
StaleAt(i) ==
    /\ done[i].perm # "execute" /\ ExecsOf(i) # {}
    /\ LastExec(i).exe = done[i].exe /\ LastExec(i).path # done[i].path
ImageOf(i) == IF StaleAt(i) THEN LastExec(i).path ELSE done[i].exe

Writable(value) == value \notin Control \cup Split \cup {None, Unencoded}

\* What record i may be answered with.  A trust entry only for a file the
\* daemon calls untrusted, or of no known trust when no rule can be written;
\* a rule only for one it does not, scoped to the perm, the path and the image
\* the process will run, with no image rather than a wrong one.
Warrants(i, s) ==
    /\ i \in Judged /\ ~RefusedBy(done[i]) /\ s.path = done[i].path
    /\ s.path \notin Control \cup {None, Unencoded}
    /\ IF s.kind = "trust"
       THEN done[i].trust = "0" \/ (done[i].trust = None /\ s.path \in Split)
       ELSE /\ done[i].trust \in {"1", None} /\ Writable(s.path)
            /\ s.perm = done[i].perm /\ s.perm \in {"open", "execute"}
            /\ s.exe = IF Writable(ImageOf(i)) THEN ImageOf(i) ELSE None

\* Nothing is suggested that no denial of the log warrants, in either artifact.
Justified == \A j \in DOMAIN seen : \E i \in DOMAIN done : Warrants(i, seen[j])

NotedAs(i, kinds) == \E j \in DOMAIN live.notes :
                        live.notes[j].record = i /\ live.notes[j].kind \in kinds

\* No denial passes in silence: it has its suggestion, or a note saying why it
\* has none, or, under check, its row.
Answered ==
    \A i \in DOMAIN done :
       /\ done[i].corrupt => live.warned = 1
       /\ ~done[i].corrupt /\ done[i].denial /\ done[i].cut => NotedAs(i, {"cut"})
       /\ i \in Judged => \/ \E j \in DOMAIN seen : Warrants(i, seen[j])
                          \/ NotedAs(i, {"refused", "explain"})
                          \/ RefusedBy(done[i]) /\ \E j \in DOMAIN checked :
                                                      checked[j].key = Key(done[i])

Count(ns) == Cardinality(ns)
Kinds(kind) == {j \in DOMAIN seen : seen[j].kind = kind}

\* The counts the report states are those of the log: denials per rule, the
\* suggestions of each artifact, the records of another rules file; and a rule
\* that cannot be answered has as many denials as it has refusal notes.
Counts ==
    /\ \A n \in DOMAIN tally : tally[n].denials = Count({i \in Judged : done[i].rule = n})
    /\ \A i \in Judged : done[i].rule # 0 => done[i].rule \in DOMAIN tally
    /\ corrupt = Count({i \in DOMAIN done : done[i].corrupt})
    /\ rulesEmitted = Count(Kinds("rule")) /\ trustEmitted = Count(Kinds("trust"))
    /\ unmatched = Count({i \in Judged : Mismatched(done[i])})
    /\ Proposal = None /\ Rules # None =>
          \A n \in DOMAIN tally \cap DOMAIN Rules : Refuses(Rules[n]) =>
             tally[n].denials = Count({j \in DOMAIN live.notes :
                                          live.notes[j].kind = "refused" /\ live.notes[j].rule = n})

\* Every whole denial is counted in one row, its own key's, and no row is
\* there without one.
RowsCount ==
    Proposal # None =>
       /\ \A i, j \in DOMAIN checked : checked[i].key = checked[j].key => i = j
       /\ \A j \in DOMAIN checked : checked[j].count = Count({i \in Judged : Key(done[i]) = checked[j].key})
       /\ \A i \in Judged : \E j \in DOMAIN checked : checked[j].key = Key(done[i])

\* What --follow wrote a line at a time is the report of the end: the same
\* suggestions in the same order, and each rule number's row once.
LiveIsReport ==
    /\ live.suggestions = seen
    /\ IsInjective(live.why) /\ ToSet(live.why) = DOMAIN tally
    /\ live.warned = IF corrupt > 0 THEN 1 ELSE 0

\* What was handed back is never taken back: a suggestion stays, and a row
\* already written keeps its verdict.
NothingRetracted ==
    [][ /\ IsPrefix(seen, seen')
        /\ \A i \in DOMAIN checked : /\ i \in DOMAIN checked'
                                     /\ checked'[i].key = checked[i].key
                                     /\ checked'[i].verdict = checked[i].verdict ]_vars

\* Exit 2 says the input was not the daemon's: there was something in it, the
\* framing held back included, it did not open an audit log, and no line of it
\* yielded a field.
FirstReal == {n \in DOMAIN fed : fed[n].kind \notin Framing}
ExitTwo ==
    ended =>
       LET audit == FirstReal # {} /\ fed[Smallest(FirstReal)].kind = "audit"
       IN  ConsumedButUnparseable <=>
              /\ ~audit
              /\ \E n \in DOMAIN fed : fed[n].kind \in {"framing", "prose"}
              /\ \A n \in DOMAIN fed : fed[n].kind \notin {"record", "audit"}

\* analyze.rs on the check rows: a stale exe= "already gives unknown", so no
\* record with one is counted under a verdict.
StaleIsUnknown ==
    Proposal # None =>
       \A i \in Judged : StaleAt(i) =>
          \A j \in DOMAIN checked : checked[j].key = Key(done[i]) => checked[j].verdict = "unknown"

\* DESIGN.md on the placement note: the file sorts before the one holding the
\* rule that denied, for every denial an emitted rule answers.
PlacedAhead ==
    ended /\ pending = << >> /\ PlacedBefore # 0 =>
       \A i \in Judged : \A j \in Kinds("rule") :
          Warrants(i, seen[j]) /\ done[i].rule # 0 =>
             PlacedBefore <= Locate(RulesD, Rules, done[i].rule)
================================================================================
