-------------------------------- MODULE RulesRun --------------------------------
(***************************************************************************)
(* The `rules` verb from the log to the reload: the daemon denies under    *)
(* the rules it loaded, src/main.rs reads the log, fapolicyd.rules or      *)
(* compiled.rules and rules.d/ one after the other while the operator      *)
(* edits them, the pass writes a fragment and the name to give it, and the *)
(* operator puts the one under the other and reloads.  Does that resolve   *)
(* the denials, and nothing else?                                          *)
(*                                                                         *)
(* The decision on a record is module Policy's, the grouping DirGroups',   *)
(* the text of a rule RuleText's, the order and the name FileOrder's.  The *)
(* daemon (module Daemon), fagenrules and the operator are external.       *)
(***************************************************************************)
EXTENDS Daemon, DirGroups, FileOrder

CONSTANTS
    Hosts,     \* rules.d/ at first, file name to lines, and the edits to come: [dir, edits]
    Legacies,  \* what the operator may write into fapolicyd.rules
    Contents,  \* what the operator may write into a file of rules.d/
    Names,     \* and under which names
    Accesses,  \* the accesses of the host, with all their fields
    Tried,     \* those of them that are made before the log is taken
    Unreadable,  \* the files of rules.d/ a read may fail on
    Flags,     \* the command lines: [action, format, conf, noConf, follow, dirMin, dirSystem]
    MaxLog     \* bound: denials in the log

ASSUME TriedAssumption == Tried \subseteq Accesses

\* A directory holds finitely many files, a name is a sequence of bytes, which
\* None is not, and what is in a file one of lines.
ASSUME NamesAssumption ==
    /\ None \notin Seq(Nat) /\ Names \subseteq Seq(Nat)
    /\ \A h \in Hosts : IsFiniteSet(DOMAIN h.dir) /\ DOMAIN h.dir \subseteq Seq(Nat)

ASSUME ContentsAssumption ==
    \A lines \in Contents \cup Legacies \cup UNION {{h.dir[f] : f \in DOMAIN h.dir} : h \in Hosts} :
       lines \in Seq(ToSet(lines))

ASSUME FlagsAssumption == \A flags \in Flags : flags.dirMin = None \/ flags.dirMin \in Nat

\* The directory a path is in, up to its slash.
Parent(path) == SubSeq(BytesOf(path), 1, Max(At(BytesOf(path), {Slash}) \cup {0}))

\* An access has a perm, and a program and a file with an absolute name; the
\* directory the file is in is a value a rule can hold.
ASSUME AccessAssumption ==
    \A ev \in Accesses :
       /\ None \notin {ev.perm, ev.exe, ev.path}
       /\ \A v \in {ev.exe, ev.path} : v \in DOMAIN Spelling /\ IsPrefix(<<Slash>>, Spelling[v])
       /\ Len(Parent(ev.path)) > 1 =>
             \E d \in (DOMAIN Spelling \cap DOMAIN Under) \ Keywords : Spelling[d] = Parent(ev.path)

VARIABLES
    legacy,    \* the lines of fapolicyd.rules, None without one
    rulesd,    \* rules.d/ now
    compiled,  \* rules.d/ when fagenrules last ran, [dir, files]: compiled.rules
    loaded,    \* the files the daemon enforces
    log,       \* the denials since, [event, n]
    edits,     \* bound: the edits still to come
    tool       \* the run of the tool

vars == <<legacy, rulesd, compiled, loaded, log, edits, tool>>
host == <<legacy, rulesd, compiled, loaded, log, edits>>

\* rules_d::files
Listing(dir) ==
    LET names == InOrder(DOMAIN dir)
    IN  [i \in DOMAIN names |-> FileOf(names[i], dir[names[i]])]

\* The daemon's open_file: fapolicyd.rules is tried first.
InForce == IF legacy # None THEN <<FileOf(None, legacy)>> ELSE compiled.files

--------------------------------------------------------------------------------
(* The host                                                                *)

With(dir, name, lines) ==
    [f \in DOMAIN dir \cup {name} |-> IF f = name THEN lines ELSE dir[f]]

Reading == {"idle", "legacy", "compiled", "listing"}

\* The operator edits the host's files, before the run or during its reads.
Editing ==
    /\ edits > 0 /\ tool.pc \in Reading
    /\ edits' = edits - 1
    /\ UNCHANGED <<compiled, loaded, log, tool>>

Edit(name, lines) ==
    /\ Editing
    /\ rulesd' = With(rulesd, name, lines)
    /\ UNCHANGED legacy

Delete(name) ==
    /\ Editing /\ name \in DOMAIN rulesd
    /\ rulesd' = [f \in DOMAIN rulesd \ {name} |-> rulesd[f]]
    /\ UNCHANGED legacy

WriteLegacy(lines) ==
    /\ Editing /\ legacy # lines
    /\ legacy' = lines
    /\ UNCHANGED rulesd

\* The run is over and there is nothing to apply: nothing more is of interest.
Over == tool.pc = "done" /\ tool.name = None

\* fagenrules writes compiled.rules.
Fagenrules ==
    /\ ~Over /\ compiled.dir # rulesd
    /\ compiled' = [dir |-> rulesd, files |-> Listing(rulesd)]
    /\ UNCHANGED <<legacy, rulesd, loaded, log, edits, tool>>

\* A reload that works; the denials from here on are another log.
Reload ==
    /\ ~Over /\ loaded # InForce /\ Loads(InForce)
    /\ loaded' = InForce /\ log' = << >>
    /\ UNCHANGED <<legacy, rulesd, compiled, edits, tool>>

\* A denial.  One that comes after a batch run took the log is left out: it
\* changes nothing.
Deny(ev) ==
    /\ Len(log) < MaxLog
    /\ tool.pc # "done" /\ (tool.pc # "idle" => tool.flags.follow)
    /\ FirstMatch(loaded, ev) # 0 /\ Flat(loaded)[FirstMatch(loaded, ev)].dec \in Denying
    /\ log' = Append(log, [event |-> ev, n |-> FirstMatch(loaded, ev)])
    /\ UNCHANGED <<legacy, rulesd, compiled, loaded, edits, tool>>

--------------------------------------------------------------------------------
(* The run: what it reads                                                  *)

\* settled: every read found the rules the log was made under.
NotStarted ==
    [pc |-> "idle", flags |-> None, log |-> << >>, under |-> None, settled |-> TRUE,
     rules |-> None, listing |-> << >>, base |-> None, fragment |-> << >>, name |-> None, exit |-> None]

Init ==
    /\ \E h \in Hosts : rulesd = h.dir /\ edits = h.edits
    /\ compiled = [dir |-> rulesd, files |-> Listing(rulesd)]
    /\ legacy = None
    /\ loaded = InForce /\ Loads(loaded)
    /\ log = << >> /\ tool = NotStarted

\* What clap refuses: a group of one, and --dir-system alone.
Rejected(flags) ==
    \/ flags.dirSystem /\ flags.dirMin = None
    \/ flags.dirMin # None /\ flags.dirMin < 2

\* The conflicts clap does not see, the flags being on two levels.
UsageError(flags) ==
    \/ Rejected(flags)
    \/ flags.noConf /\ (flags.conf \/ flags.action = "check")
    \/ flags.follow /\ (flags.format # "text" \/ flags.dirMin # None)

\* The process is gone with what it had read.
Exits(code) == tool' = [NotStarted EXCEPT !.pc = "done", !.exit = code]

Usage(flags) ==
    /\ tool.pc = "idle" /\ UsageError(flags)
    /\ Exits(1)
    /\ UNCHANGED host

\* Batch reads the log here, ahead of the host's files; --follow at the end.
Start(flags) ==
    /\ tool.pc = "idle" /\ ~UsageError(flags) /\ flags.action = "rules"
    /\ tool' = [tool EXCEPT !.pc = IF flags.noConf THEN "write" ELSE "legacy",
                            !.flags = flags, !.under = loaded, !.log = log]
    /\ UNCHANGED host

StdinFails ==
    /\ tool.pc = "idle"
    /\ Exits(1)
    /\ UNCHANGED host

\* read_rules tries fapolicyd.rules.  Rules it holds none of are no rules.
ReadLegacy ==
    LET rules == Parse(legacy)
    IN  /\ tool.pc = "legacy" /\ legacy # None
        /\ tool' = [tool EXCEPT !.pc = "write", !.settled = @ /\ InForce = tool.under,
                                !.rules = IF rules = << >> THEN None ELSE rules]
        /\ UNCHANGED host

\* It is not there, or not readable, which only to the daemon is the same.
LegacyFails ==
    /\ tool.pc = "legacy"
    /\ tool' = [tool EXCEPT !.pc = "compiled",
                            !.settled = @ /\ legacy = None /\ InForce = tool.under]
    /\ UNCHANGED host

\* compiled.rules won: only then is rules.d/ what the numbers are about.
ReadCompiled ==
    LET rules == Flat(compiled.files)
    IN  /\ tool.pc = "compiled"
        /\ tool' = [tool EXCEPT !.pc = IF rules = << >> THEN "write" ELSE "listing",
                                !.settled = @ /\ InForce = tool.under,
                                !.rules = IF rules = << >> THEN None ELSE rules]
        /\ UNCHANGED host

CompiledFails ==
    /\ tool.pc = "compiled"
    /\ tool' = [tool EXCEPT !.pc = "write"]
    /\ UNCHANGED host

\* read_rules_d: what it cannot read, `lost`, is passed over in silence.
ReadRulesD(lost) == [f \in DOMAIN rulesd \ lost |-> rulesd[f]]

ReadListing(lost) ==
    /\ tool.pc = "listing"
    /\ tool' = [tool EXCEPT !.pc = "write", !.listing = Listing(ReadRulesD(lost)),
                            !.base = compiled.dir,
                            !.settled = @ /\ InForce = tool.under]
    /\ UNCHANGED host

--------------------------------------------------------------------------------
(* The run: what it writes                                                 *)

\* The suggestion for a denial, as Analyzer!Resolve decides it.  Pids are left
\* out, so no exe is substituted.
Suggestion(d) ==
    IF tool.rules # None /\ d.n \in DOMAIN tool.rules /\ Refuses(tool.rules[d.n])
    THEN Explain ELSE Decide(RecordOf(d.event), None)

\* The denials whose suggestion is a rule and the first of its kind: each is
\* written, and credited to the rule that denied.
Credited(read) ==
    {i \in DOMAIN read : /\ Suggestion(read[i]).kind = "rule"
                         /\ \A j \in 1..i - 1 : Suggestion(read[j]) # Suggestion(read[i])}

Accepted(read) ==
    FlattenSeq([i \in DOMAIN read |->
        IF i \in Credited(read) THEN <<Suggestion(read[i])>> ELSE << >>])

\* The fragment, directories grouped at the end of the run.
Fragment(read) ==
    LET flags == tool.flags
        rules == IF flags.dirMin = None THEN Accepted(read)
                 ELSE GroupDirs(Accepted(read), flags.dirMin, flags.dirSystem)
    IN  [i \in DOMAIN rules |-> Render(rules[i])]

\* placement_note: the name of the new file, None when none is recommended.
Placement(read) ==
    LET names == [i \in DOMAIN tool.listing |-> tool.listing[i].name]
        at    == {Locate(tool.listing, tool.rules, read[i].n) : i \in Credited(read)}
    IN  IF tool.listing = << >> \/ tool.rules = None \/ at = {} \/ 0 \in at THEN None
        ELSE Recommend(names, Smallest(at))

Write ==
    LET read == IF tool.flags.follow THEN log ELSE tool.log
    IN  /\ tool.pc = "write"
        /\ tool' = [tool EXCEPT !.pc = "done", !.exit = 0, !.log = read,
                                !.settled = @ /\ (tool.flags.follow => loaded = tool.under),
                                !.fragment = Fragment(read), !.name = Placement(read)]
        /\ UNCHANGED host

WriteFails ==
    /\ tool.pc = "write"
    /\ Exits(1)
    /\ UNCHANGED host

\* The operator saves the fragment under the name.
Apply ==
    /\ tool.pc = "done" /\ tool.name # None /\ tool.name \notin DOMAIN rulesd
    /\ rulesd' = With(rulesd, tool.name, tool.fragment)
    /\ UNCHANGED <<legacy, compiled, loaded, log, edits, tool>>

Next ==
    \/ \E name \in Names, lines \in Contents : Edit(name, lines)
    \/ \E name \in DOMAIN rulesd : Delete(name)
    \/ \E lines \in Legacies \cup {None} : WriteLegacy(lines)
    \/ Fagenrules \/ Reload
    \/ \E ev \in Tried : Deny(ev)
    \/ \E flags \in Flags : Usage(flags) \/ Start(flags)
    \/ StdinFails \/ ReadLegacy \/ LegacyFails \/ ReadCompiled \/ CompiledFails
    \/ \E lost \in SUBSET (Unreadable \cap DOMAIN rulesd) \cup {DOMAIN rulesd} : ReadListing(lost)
    \/ Write \/ WriteFails \/ Apply

Spec == Init /\ [][Next]_vars

--------------------------------------------------------------------------------
(* Properties                                                              *)

\* The operator did as told: the daemon enforces rules.d/ with the fragment.
Applied ==
    /\ tool.name # None /\ tool.name \in DOMAIN rulesd /\ rulesd[tool.name] = tool.fragment
    /\ legacy = None /\ compiled.dir = rulesd /\ loaded = InForce

\* The file the daemon's rule n is in.
FileAt(n) == loaded[CHOOSE i \in DOMAIN loaded : n \in Ahead(loaded, i) + 1 .. Ahead(loaded, i + 1)].name

\* A file that is not what fagenrules had merged when the run read the host.
Changed(name) ==
    \/ name \notin DOMAIN tool.base \cap DOMAIN compiled.dir
    \/ tool.base[name] # compiled.dir[name]

\* The advice works.  Put where the note says, the fragment is reached before
\* the rule that denied, for every denial a rule was written for, whatever the
\* names of the files: the access is not denied again, unless by a file that
\* was edited since.
Resolves ==
    Applied /\ tool.settled =>
       \A i \in Credited(tool.log) :
          LET now == FirstMatch(loaded, tool.log[i].event)
          IN  now = 0 \/ FileAt(now) = tool.name \/ Changed(FileAt(now))

\* Nothing but what was denied becomes allowed: an access the fragment answers
\* has the perm, path and exe of a denial in the log, any exe where the log's
\* cannot be written; or, under --dir-min, it is below the directory of at
\* least that many denied paths, not one the system shares nor one below what
\* every user can write unless so asked.
Denies(d, ev) ==
    /\ d.event.perm = ev.perm /\ d.event.path = ev.path
    /\ d.event.exe = ev.exe \/ d.event.exe \in Control \cup Split \cup {None, Unencoded}

Within(path, dir) ==
    /\ IsPrefix(dir, BytesOf(path)) /\ dir[Len(dir)] = Slash
    /\ \/ tool.flags.dirSystem
       \/ /\ SubSeq(dir, 1, Len(dir) - 1) \notin Shared
          /\ \A w \in WorldWritable : ~IsPrefix(w, dir)

NothingWider ==
    Applied =>
       \A ev \in Accesses :
          FirstMatch(loaded, ev) # 0 /\ FileAt(FirstMatch(loaded, ev)) = tool.name =>
             \/ \E i \in DOMAIN tool.log : Denies(tool.log[i], ev)
             \/ /\ tool.flags.dirMin # None
                /\ \E i \in DOMAIN tool.log :
                      LET dir   == Parent(tool.log[i].event.path)
                          alike == {j \in DOMAIN tool.log :
                                       /\ tool.log[j].event.perm = ev.perm
                                       /\ tool.log[j].event.exe = ev.exe
                                       /\ Parent(tool.log[j].event.path) = dir}
                      IN  /\ Within(ev.path, dir)
                          /\ Cardinality({tool.log[j].event.path : j \in alike}) >= tool.flags.dirMin

\* The order fagenrules' names are sorted in is one, the recommended name
\* among them: a sort by it has one result, however the directory lists them.
TotalOrder ==
    tool.name # None /\ tool.name \notin DOMAIN rulesd =>
       LET names == {tool.listing[i].name : i \in DOMAIN tool.listing} \cup {tool.name}
           less  == {p \in names \X names : Before(p[1], p[2])}
       IN  /\ \A a, b \in names : IF a = b THEN <<a, a>> \notin less
                                   ELSE <<a, b>> \in less <=> <<b, a>> \notin less
           /\ \A p, q \in less : p[2] = q[1] => <<p[1], q[2]>> \in less
================================================================================
