-------------------------------- MODULE CheckRun --------------------------------
(***************************************************************************)
(* The `check` verb against a host that is being edited: rules.d/ on disk, *)
(* the compiled.rules fagenrules last made of it, a denial the daemon      *)
(* logged under those, and one proposal checked against that denial.       *)
(* src/main.rs reads the listing and the candidates (read_rules_d,         *)
(* read_candidates, merges_to); check.rs (module Verdict) answers.         *)
(*                                                                         *)
(* The daemon (module Daemon), fagenrules and the operator are the         *)
(* environment.                                                            *)
(***************************************************************************)
EXTENDS Daemon

CONSTANTS
    NameOrder,   \* the file names, in fagenrules' order
    Contents,    \* what a file may hold: [rules, sets]
    Edited,      \* those of them the operator writes into rules.d/
    Start,       \* the rules.d/ of the host at first, by file name
    Events,      \* the accesses the daemon may deny, with all their fields
    Unreadable,  \* the files of rules.d/ a read may fail on
    MaxEdits     \* bound: edits of rules.d/

\* "drift" is not the name of a *.rules file: it stands for no file in From.
ASSUME NamesAssumption ==
    /\ NameOrder \in Seq(ToSet(NameOrder)) /\ IsInjective(NameOrder)
    /\ {None, "drift"} \cap ToSet(NameOrder) = {} /\ None # "drift"

\* Everything that is written into a file.
Written == Contents \cup {Start[name] : name \in DOMAIN Start}
WrittenRules == UNION {ToSet(c.rules) : c \in Written}
WrittenSets == UNION {ToSet(c.sets) : c \in Written}

ASSUME ContentsAssumption ==
    /\ Edited \subseteq Contents /\ MaxEdits \in Nat
    /\ \A c \in Written : c.rules \in Seq(WrittenRules) /\ c.sets \in Seq(WrittenSets)
    /\ \A s \in WrittenSets : s.before \in Nat
    /\ None \notin Seq(WrittenRules)

\* A value, split at its commas, has a member.
ASSUME TokensAssumption ==
    \A r \in WrittenRules : \A a \in r.attrs : a.how = "never" \/ a.tokens # {}

VARIABLES
    disk,    \* rules.d/ now: file name to content
    loaded,  \* rules.d/ when fagenrules last ran and the daemon loaded it
    denial,  \* [event, n] of the log, or None
    row,     \* the last check, or None: [mode, lost, files, proposed, verdict]
    edits    \* edits made so far

vars == <<disk, loaded, denial, row, edits>>

Names == ToSet(NameOrder)

FileOf(dir, name) == [name |-> name, rules |-> dir[name].rules, sets |-> dir[name].sets]

\* MUTANT: the order of the names is read backwards.
ListingReversed(dir) ==
    LET names == Reverse(NameOrder)
    IN  FlattenSeq([i \in DOMAIN names |->
            IF names[i] \in DOMAIN dir THEN <<FileOf(dir, names[i])>> ELSE << >>])

\* rules_d::files: what is there, in fagenrules' order.
Listing(dir) ==
    FlattenSeq([i \in DOMAIN NameOrder |->
        IF NameOrder[i] \in DOMAIN dir THEN <<FileOf(dir, NameOrder[i])>> ELSE << >>])

\* The daemon is running: it loaded what the host holds at first.
ASSUME StartAssumption == DOMAIN Start \subseteq ToSet(NameOrder) /\ Loads(Listing(Start))

Compiled == Flat(Listing(loaded))
LoadedSets == Defined(Listing(loaded))

--------------------------------------------------------------------------------
Init ==
    /\ disk = Start /\ loaded = Start
    /\ denial = None /\ row = None /\ edits = 0

With(dir, name, content) ==
    [f \in DOMAIN dir \cup {name} |-> IF f = name THEN content ELSE dir[f]]

\* The operator writes a file of rules.d/, or removes one.
Edit(name, content) ==
    /\ row = None /\ edits < MaxEdits
    /\ edits' = edits + 1
    /\ disk' = With(disk, name, content)
    /\ UNCHANGED <<loaded, denial, row>>

Delete(name) ==
    /\ row = None /\ edits < MaxEdits /\ name \in DOMAIN disk
    /\ edits' = edits + 1
    /\ disk' = [f \in DOMAIN disk \ {name} |-> disk[f]]
    /\ UNCHANGED <<loaded, denial, row>>

\* fagenrules and a reload that works; the denials so far are another log.
Fagenrules ==
    /\ row = None /\ disk # loaded /\ Loads(Listing(disk))
    /\ loaded' = disk
    /\ denial' = None
    /\ UNCHANGED <<disk, row, edits>>

\* The daemon denies an access and logs the rule it was denied by.
Deny(ev) ==
    /\ denial = None
    /\ FirstMatch(Listing(loaded), ev) # 0
    /\ Compiled[FirstMatch(Listing(loaded), ev)].dec \in Denying
    /\ denial' = [event |-> ev, n |-> FirstMatch(Listing(loaded), ev)]
    /\ UNCHANGED <<disk, loaded, row, edits>>

\* read_rules_d: what it cannot read, `lost`, is passed over in silence.
ReadRulesD(lost) == [f \in DOMAIN disk \ lost |-> disk[f]]

\* read_candidates with a file: it takes the place of the host's own.
Merged(lost, name, content) == With(ReadRulesD(lost), name, content)

\* One row of the report: the verdict on the files the tool read, beside those
\* that were `proposed`, which are what the daemon would be told to load.
Answered(mode, lost, host, files, proposed) ==
    row' = [mode |-> mode, lost |-> lost, files |-> files, proposed |-> proposed,
            verdict |-> CheckVerdict(RecordOf(denial.event), denial.n, None, Compiled, host,
                                     ChangedSets(files, LoadedSets), files)]

\* check <file>
CheckFile(lost, name, content) ==
    /\ row = None /\ denial # None
    /\ Answered("merged", lost, Listing(ReadRulesD(lost)), Listing(Merged(lost, name, content)),
                Listing(With(disk, name, content)))
    /\ UNCHANGED <<disk, loaded, denial, edits>>

\* check <directory>: a whole rules.d/ of the operator's own.
CheckDir(lost, name, content) ==
    /\ row = None /\ denial # None
    /\ LET proposed == Listing(With(loaded, name, content))
       IN  Answered("merged", lost, Listing(ReadRulesD(lost)), proposed, proposed)
    /\ UNCHANGED <<disk, loaded, denial, edits>>

\* check: rules.d/ as it is on disk.
CheckDisk(lost) ==
    /\ row = None /\ denial # None
    /\ Answered("disk", lost, None, Listing(ReadRulesD(lost)), Listing(disk))
    /\ UNCHANGED <<disk, loaded, denial, edits>>

\* The report is written and the run is over.
Exit ==
    /\ row # None /\ row' = None
    /\ UNCHANGED <<disk, loaded, denial, edits>>

Next ==
    \/ \E name \in Names, content \in Edited : Edit(name, content)
    \/ \E lost \in SUBSET (Unreadable \cap DOMAIN disk), name \in Names, content \in Contents :
          CheckFile(lost, name, content) \/ CheckDir(lost, name, content)
    \/ \E lost \in SUBSET (Unreadable \cap DOMAIN disk) : CheckDisk(lost)
    \/ \E name \in Names : Delete(name)
    \/ \E ev \in Events : Deny(ev)
    \/ Fagenrules \/ Exit

Spec == Init /\ [][Next]_vars

--------------------------------------------------------------------------------
(* Properties                                                              *)

Position(name) == CHOOSE i \in DOMAIN NameOrder : NameOrder[i] = name

\* The host's directories hold known files, a denial names a rule of the
\* loaded set that denies, and a listing is in fagenrules' order.
TypeOK ==
    /\ DOMAIN disk \subseteq Names /\ DOMAIN loaded \subseteq Names
    /\ edits \in 0..MaxEdits
    /\ denial = None \/ (denial.n \in DOMAIN Compiled /\ Compiled[denial.n].dec \in Denying)
    /\ row # None => /\ denial # None /\ row.verdict \in {"allowed", "denied", "unknown"}
                     /\ \A i, j \in DOMAIN row.files :
                           i < j => Position(row.files[i].name) < Position(row.files[j].name)

\* No file of what is proposed was passed over in silence.  read_rules_d
\* does pass over what it cannot read, and then neither property below holds.
ReadWhole == row.files = row.proposed

\* check.rs's one rule: `allowed` is never wrong, so long as all that is
\* proposed was read.  Once told to load the proposal the daemon, which sees
\* more than the record, no longer denies.
AllowedIsTrue ==
    row # None /\ ReadWhole =>
       (row.verdict = "allowed" => ~DeniesAfter(row.proposed, denial.event))

\* `denied` is not a guess either, so long as all that is proposed was read:
\* the daemon denies the access again.
DeniedIsTrue ==
    row # None /\ ReadWhole =>
       (row.verdict = "denied" => DeniesAfter(row.proposed, denial.event))

\* merges_to and no changed set: main.rs then notes that nothing is proposed,
\* without looking at where a set is defined.
ProposesNothing ==
    row.mode = "disk" /\ Flat(row.files) = Compiled /\ ChangedSets(row.files, LoadedSets) = {}

\* A rules.d/ that, as it was read, merges to the loaded rules, set for set,
\* and that would load proposes nothing: every denial is denied again, and so say the rows.
NothingProposed ==
    row # None => (ProposesNothing /\ Loads(row.files) => row.verdict = "denied")

Decided(rule, rec, defs) ==
    \A a \in rule.attrs : AttrMatches(a, rec, defs) # Open

\* `unknown` is not a way out: when the proposal loads, keeps the rule that
\* denied in its file, changes no set and adds only rules the record decides,
\* the answer is allowed or denied.
Decisive ==
    row # None /\ disk = loaded =>
       (/\ row.lost = {} /\ Loads(row.files)
        /\ ChangedSets(row.files, LoadedSets) = {}
        /\ \A r \in ToSet(Flat(row.files)) \ ToSet(Compiled) :
              Decided(r, RecordOf(denial.event), Defined(row.files))
        /\ \E i \in DOMAIN row.files :
              /\ row.files[i].name = Listing(disk)[Locate(Listing(disk), Compiled, denial.n)].name
              /\ Compiled[denial.n] \in ToSet(row.files[i].rules)
        /\ \A at \in DOMAIN Compiled : at >= denial.n =>
              Decided(Compiled[at], RecordOf(denial.event), Defined(row.files))
        => row.verdict # "unknown")
================================================================================
