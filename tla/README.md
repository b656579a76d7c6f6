# RuleSteward: a TLA+ model, its checks and its proofs

RuleSteward reads the decision log of fapolicyd (the Linux application
allow-listing daemon), as the daemon's own debug lines or as `ausearch` output,
and says for each denial what would resolve it: a rule, a trust entry, or an
explanation why neither would. It can do so over a whole file or line by line
while the log is being written (`--follow`), and its `check` verb answers for a
*proposed* `rules.d/` whether it would have allowed what was denied.

This directory holds TLA+ modules translated from `src/src/`, TLC
configurations for them, and TLAPS proofs. `PROJECT.json` maps every definition
to the lines it stands for and lists the runs, the mutants that show each
property can fail, the hazards and the theorems.

## 1. Inventory

| Part | Source | State it keeps | Operations |
|---|---|---|---|
| follow loop | `main.rs` `run_follow`, `write_step` | SIGINT flag, 64-line channel, reader thread, totals of repeated notes, stdout | register the handler, spawn, receive with a timeout, feed, write, finish, exit status |
| audit event assembler | `fapolicyd/audit.rs` | open events by opening line, an index from audit key to event, two totals | `feed`, `close`, `finish` |
| analyzer | `fapolicyd/analyze.rs`, `policy.rs`, `model.rs` | route and held framing, accepted suggestions, tally per rule, pid map, check rows, counters | `feed`, `daemon`, `record`, `finish`, `decide`, `placement_note` |
| check verdict | `fapolicyd/check.rs` | none | `verdict`, `refused`, `changed_sets`, `matches` |
| host reads | `main.rs` | none; reads `rules.d/`, `compiled.rules`, `fapolicyd.rules`, the conf | `read_rules_d`, `read_candidates`, `merges_to`, `read_rules` |
| rules.d listing | `fapolicyd/rules_d.rs` | none | `files`, `locate`, `recommend`, `filevercmp` |
| rule parser | `fapolicyd/rules.rs` | none | words, attributes, `%set` definitions, `Rule::refuses` |
| batch run | `main.rs` | what it has read so far | the usage errors, the reads in their order, `analyze` once over the input, one write |
| directory grouping | `analyze.rs` `group_dirs` | none | rules under one directory become a `dir=` rule |
| log line parser | `fapolicyd/parse.rs`, `conf.rs`, `model.rs`, the text half of `audit.rs` | none | strip the frame, split, unescape, decode, `truncated`, `syslog_format` |
| renderers | `fapolicyd/emit.rs`, `json.rs`, `check.rs` | none | rule text, shell quoting, documents, check rows |
| command line | `cli.rs`, `main.rs` | none | clap declarations, usage errors |
| build, packaging | `build.rs`, `xtask/` | none | not part of the program that runs |

**How they interact.** `main` reads the host's files once, before any line, and
hands them to the analyzer. Each line of the log goes to `Analyzer::feed`, which
routes it to the daemon's reader or to the audit assembler; the latter hands
over records when it closes an event, now or many lines later. Every record is
judged by `Analyzer::record`, which asks `policy::decide` and, under `check`,
`check::verdict`, and hands back a `Step` (suggestions, rows, notes). Batch
collects the steps; `--follow` writes each at once. Under `--follow` the lines
come from a second thread over a bounded channel, and SIGINT sets a flag that
the main loop polls.

**What is hard**, and what makes each part correct:

- *follow loop*: two threads, a bounded queue, a signal, EOF, read errors and
  an output that can break at any write. Correct when no line is lost, repeated
  or overtaken, memory is bounded, every line fed is answered in time and once,
  the exit status is the one the run earned, and SIGINT or EOF ends the run.
- *assembler*: records of several events interleaved in any order, and an event
  closed by the distance of other lines only. Correct when every decision is
  released once and says what the lines of its own event say, and a log that
  never ends needs bounded memory.
- *analyzer*: a dozen counters, maps and lists updated along five early
  returns, written live and again at the end. Correct when nothing is suggested
  that no denial warrants, no denial passes in silence, the counts are those of
  the log, the live output is the final report, and exit 2 is decided by the
  whole input.
- *check verdict*: a walk over a merged listing with a skipping rule, `%set`
  definitions whose order matters, fields the log does not carry, and a host
  that is edited while it is read. Correct when `allowed` and `denied` are what
  the daemon would do, and `unknown` is not given needlessly.
- *rules.d listing*: an ordering that is a port of `filevercmp`, and a file name
  to recommend that must sort ahead of another. Correct when the order is total
  and the recommended name has the one place in it that was meant.
- *host reads and batch run*: the log, one of two rule files and a directory,
  read one after the other from a host that is edited, merged and reloaded in
  between. Correct when the advice, taken literally, has the effect it promises.
- *directory grouping*: the one place where the tool proposes more than was
  denied. Correct when it is no more than was asked for.
- *log line parser and renderers*: five escaping schemes (the daemon's, auditd's,
  the shell's, the report's, JSON's) around paths that may hold any byte, records
  that may have been cut, and frames, prose and comments between them. Correct
  when the reader of the result gets the denied path and program back byte for
  byte, or nothing.

The full list of hazards, each at its line with the properties aimed at it, is
under `hazards` in `PROJECT.json`.

## 2. Modules

`MC*` modules give TLC its values, `*Proofs` modules hold theorems, and
`DataLemmas` holds the facts on sequences and counts that they share. No module
has a RECURSIVE operator. An operator whose comment begins with MUTANT is a
plausible wrong version of the one after it; it is not part of the model and is
there so that each property can be seen to fail.

### FollowRun, refining SequentialFollow

One action per step of the reader thread (`ReadItem`, `ReadEof`, `Send`,
`SendFails`), of the main loop (`Register` ... `Exit`) and of the world
(`Arrive`, `CloseStdin`, `Sigint`, `BreakStdout`). `pipe` is what is written and
unread, `hand` the line the thread holds while `send` blocks, `chan` the
channel. `main` is where the main thread stands; `todo` the writes of the
current step, each of which may fail, so that a step can be cut in its middle.
`Sigint` before the handler is registered kills the process.

The analyzer appears only as what a line makes it return: notes, a text, a
corrupt record, whether it counts as content and parsed, and whether it opens
an event that is answered `CloseAfter` lines later. `stream`, `out` and `late`
are history variables: all that arrived, all that was written, and the lines
fed after SIGINT.

`SequentialFollow` is what `--follow` promises, without threads: one loop takes
the items of stdin in order until the input is over, SIGINT is seen, a read
fails or the output breaks. The refinement maps its `input` to
`chan \o hand \o pipe`, `broken` to a sink that is not open, and `phase` to
where the main thread stands (`Sequential`; with fairness `SequentialLive`).

### Assembler

`events` (a function from the opening line to the event), the index `at`, and
the two totals; `Feed` and `FeedOther` do what `Assembler::feed` does with a
line that has a key and with any other, including the closing of every event
that is now too old. `CloseAfter = Never` is batch. A line is a record of the
fields the code reads. `log` and `out` are history; the properties reconstruct
events from the whole log (`EventOf`) without the incremental bookkeeping, and
compare. `InOrder` is `close`: an event's decisions in order, each made a record
with what the event has learned of its call and its object.

`closeAfter` is the struct's field: a number of lines under `--follow`, `Never`
in batch, fixed for the run by `Init`, and `LogLines` says which lines the log
may hold under each.

### Daemon, Verdict and CheckRun

`Verdict` has no state: the operators of `check.rs` with those of `rules.rs` and
`rules_d.rs` they use. Three-valued matching ("yes", "no", "open"), the refusal
of a listing, the changed sets, and the walk. `CheckRun` puts them beside a host:
`disk` is `rules.d/` now, `loaded` what fagenrules last compiled, `denial` an
access the daemon denied under `loaded`, `row` the answer. The operator edits
and deletes files, fagenrules recompiles or does not, a file may be unreadable
(`lost`), and a proposal is one file, a directory or the disk itself. `row.files`
is the listing the tool walked and `row.proposed` the one the daemon would be told
to load, which holds the unread files too. A decision word counts by what it
starts with, as in the code (`Allowing`, `Denying`); the daemon knows the eight in
`Decisions`. `Daemon`
(`Holds`, `Fires`, `FirstMatch`, `Loads`, `DeniesAfter`) is external: fapolicyd
as the comments and tests under `src/` establish it. It sees every field of an
access and takes the first rule that matches; `RecordOf` is the part of the
access the log carries. The properties compare the two.

### RulesRun over FileOrder, RuleText, DirGroups and Policy

The `rules` verb composed with its surroundings. The host's state is `legacy`
(`fapolicyd.rules`), `rulesd`, `compiled` (what fagenrules last wrote, and from
which directory), `loaded` (what the daemon enforces) and `log` (the denials
since the reload). `tool` is the run: `Start` or one of the ways it ends before
any read (`Usage`, `StdinFails`), then `ReadLegacy` or `LegacyFails`,
`ReadCompiled` or `CompiledFails`, `ReadListing`, and `Write` or `WriteFails`.
Each read is a step, so that the operator's `Edit`, `Delete`, `WriteLegacy`, the
merge (`Fagenrules`) and the `Reload` come between any two of them, and
`ReadListing` may miss a file, or all of them. `Write`
decides every denial (`Policy!Decide`), drops the repeated suggestions, groups
directories and recommends a name. `Apply`, `Fagenrules` and `Reload` are then
the operator taking the advice.

`FileOrder` is `rules_d.rs` over the bytes of a name: `Filevercmp` with its
classes, digit runs and extensions, the filter and the merge, and `Recommend`
with its zero padding. `RuleText` is the rule parser over words and the text of
a suggestion, `DirGroups` is `--dir-min`, `Policy` is `policy.rs`, which the
analyzer uses too. `Bytes` holds slices of byte strings.

### LogLine over LogText and Reports

One denial, end to end, byte for byte. `LogText` is `parse.rs`, `conf.rs`,
`model::get`, the first steps of the pass (`daemon_record`, `names`,
`truncated`) and the text half of `audit.rs`. `Reports` is `emit.rs`, `json.rs`
and the row and the entry of `check.rs`. `LogLine` puts them between a writer and
a reader. The daemon and auditd (`LogRecord`, `LogFreed`, `LogAudit`,
`LogOther`) write a line from the event: escaped, framed, cut by the buffer, or
with names out of freed memory. The tool reads the conf (`ReadConf`,
`ConfFails`), takes the line (`Take`) and writes an artifact, a document, a row
or a row's document. The shell, the daemon's rule parser and a JSON parser
(`ShellLines`, `RuleLines`, `Strings`) read the result. Both ends are external:
the escaping and the unescaping that surround the tool are not the tool's own.

### Analyzer

One action per way a line can be routed (`Hold`, `FeedDaemon`, `OpenAudit`,
`FeedAudit`, `Finish`) and one per exit of `Analyzer::record`: `Corrupted`,
`PassedOver`, `Truncated`, `Refuse`, `Resolve`. A line may yield several
records (`pending`), judged one after the other before the next line is taken,
as in the code. `live` is what the steps handed back; `fed` and `done` are the
lines and records so far, and the properties are stated over them:
`ExecsOf`/`StaleAt`/`ImageOf` read off the log what the pid map should know,
`Warrants` says what a record may be answered with, `Judged` which records
count. On the audit route the records come from the constant `Releases`: what
the assembler does with lines is the business of `Assembler`, and a product of
the two would multiply both state spaces while nothing of the analyzer's state
depends on the assembler's but the records handed over.

## 3. Runs

All `pass` runs are exhaustive. Every property of every one has a mutant in
`PROJECT.json` that breaks it under the same configuration.

| Run | States | Shows |
|---|---|---|
| `follow_daemon` | 174 thousand | every interleaving of producer, reader, main loop, SIGINT and a breaking stdout on daemon lines: `TypeOK`, `Conserved`, `Backpressure`, `Answered`, `ExitStatus`, `PromptStop`, and the refinement `Sequential` |
| `follow_audit` | 33 thousand | the same on audit lines, whose answers are held back, with a report at the end: `Prompt`, `Answered`, and the liveness properties `SigintEnds`, `EofEnds`, `LinesFlow`, `SequentialLive` |
| `assembler` | 577 thousand | two interleaved events under `--follow`'s closing, and every combination of calls, `items=` and PATH records over a whole input: `TypeOK`, `IndexMatches`, `Bounded`, `OnceEach`, `Faithful`, `Totals`, `FirstSeenOrder` |
| `check_rules` | 384 thousand | an edited, drifting, partly unreadable host and every proposal: `TypeOK`, `AllowedIsTrue`, `DeniedIsTrue`, `NothingProposed`, `Decisive` |
| `analyze_log` | 50 thousand | lines of every kind, records of every standing, both routes: `TypeOK`, `ExitTwo`, `Justified`, `Answered`, `Counts`, `LiveIsReport` |
| `analyze_check` | 48 thousand | opens and execs of two processes and two images under a candidate file: `Justified`, `RowsCount`, `NothingRetracted` |
| `rules_host` | 148 thousand | the `rules` verb on an edited, merged, reloaded and partly unreadable host, and its advice taken: `Resolves`, `NothingWider`, `TotalOrder` |
| `log_line` | 156 thousand | a denial from the daemon or auditd to the reader of the result: `ActedIsReal`, `WholeIsActed` |
| `check_misspelt`, `analyze_stale`, `analyze_placement`, `audit_backslash` | | one finding each (section 6) |

What the properties of `check_rules` say:

- `AllowedIsTrue`, `DeniedIsTrue`: an access answered `allowed` is not denied, and
  one answered `denied` is denied, by the daemon told to load what was proposed,
  as long as no file of it was passed over unread (`ReadWhole`). Without that
  neither holds; section 6 has the counterexamples.
- `NothingProposed`: the listing on disk, as it was read, that merges to the loaded
  rules, set for set, and would load is answered `denied` on every row. The program's
  note says it of every such listing, would it load or not (section 6).
- `Decisive`: a proposal that was read whole, would load, changes no set, keeps the
  rule that denied in its file and adds only rules the record decides has an answer.

And those of the last two `pass` runs:

- `Resolves`: once the fragment is saved under the recommended name, merged and
  loaded, the first rule that an access it was written for meets is the
  fragment's, unless that rule is in a file that was edited since. It relates the
  sort, the merge, the rule numbers, `locate` and `recommend`, none of which is
  right or wrong alone. One edit between the merge and the read of the listing is
  in the run. With several, a rule's text can come to stand in another file under
  its old number, which `locate`'s test of the text cannot see.
- `NothingWider`: an access the fragment answers is one of the log's, or under
  `--dir-min` lies below the parent of at least that many denied paths of the
  same permission and program, and that parent is, unless `--dir-system` asks for
  it, neither one the system shares nor below what every user can write. There is
  an access nobody tried below each of those, so a group formed there shows.
- `TotalOrder`: the names of the listing and the recommended one are totally
  ordered, so that a sort has one result however the directory lists them.
- `ActedIsReal`: whatever the reader recovers from the artifact, the document or
  the row is the path and the program of the event that was denied; in
  particular, nothing is recovered from a cut record, a comment or freed names.
- `WholeIsActed`, the other direction: a denial that was written whole is decided
  by its own fields, whatever bytes they hold.

**Bounds, and why they are enough.**

- `FollowRun`: `Cap = 1` and three items fill the channel, put one line in the
  reader's hand and leave one in the pipe, the only three places a line can be;
  64 adds positions of the first kind. `CloseAfter = 1` (12 in the
  code) lets an event be closed by a later line, by the end,
  or stay open across SIGINT. `Cap` and the length of the input are unbounded in
  the proofs.
- `Assembler`: two keys are what interleaving takes; five lines are enough for an
  event to be closed, its key to be opened again and a second event to span
  both; `CloseAfter = 1` allows one line of the other key between two of an
  event, so that both "still open" and "expired" happen with few lines.
- `CheckRun`: three file names (before, at and after the file that denies), two
  paths of which one lies under a `dir=`, one set over two media types, and two
  edits: edit and recompile, or edit, recompile and edit again, reach every
  relation of `disk` to `loaded`. The contents hold one example of every way a
  rule can match, miss or be undecidable and of every way a set can be missing,
  duplicated, late or changed, with decisions that are spelt `allow`, `deny` and
  with a suffix. One file, the one that denies at first and that is edited, may be
  unreadable: what is missing of a listing then is what counts most in it.
- `RulesRun`: the file names are the ones the comparison treats apart (leading
  zeros, a prefix of 0, one past the largest, equal numbers, no number, capitals,
  a hyphen, a name within a name), two files per host and one host of three. Two
  files that are not merged are beside one pair. One host is edited once, which
  with merge and reload at any point gives every relation between what was
  loaded, what was read and what is there. Of the files two may be missed by the
  read, the first or the second of a pair, and any read may miss all. No rule
  stands in two files of these hosts: where one does and the first file is not
  read, `Resolves` is false (section 6).
  `MaxPrefix` is 999 for `u64::MAX`.
  Accesses that are never tried stand for what nobody denied. Pids are left out;
  stale images are the analyzer's.
- `LogLine`: paths and programs are `/` and every pair of ten bytes some step
  treats apart and a letter, and a dozen longer ones: octal forms that are the
  name's own, the separator, the anchor, a field within a path, noise words, a C1
  control, DEL, a two-byte character, one past the cap. Field names and fixed
  words are one letter, `MaxPayload` is 32 for 511 and `MaxFields` 7 for 21, so
  that the cap falls inside a path, between two fields and behind the record, and
  a format may be longer than what counts of it. One line (or one audit event)
  per behaviour: the parser keeps nothing between lines.
- `Analyzer`: three lines of any kind (held framing, the route, a repeated
  denial), and four records where the order of execs and opens matters: exec,
  second exec, open, open again.

`CHECK_DEADLOCK FALSE` is set for `CheckRun`, `RulesRun` and `LogLine`: once the
bound on edits is used and nothing was denied, the host is at rest, and a run
that wrote its result is over. The other modules end in an explicit final state
(`Gone`, `Consumed`).

**Fairness.** `FollowRun!Spec` has weak fairness of `ReaderStep` and of
`MainStep`: the operating system schedules both threads, and `recv_timeout`
returns. Nothing is assumed of the producer, of SIGINT or of EOF. Weak fairness
of `MainStep` includes `Write`, so it assumes that a stdout that is open takes a
write sooner or later; a stdout that blocks for ever blocks the program for
ever, which is so in the code too. The other modules claim no liveness.

## 4. What is proved

Every theorem holds for all values of the constants that satisfy the named
assumptions of the modules: any channel capacity, any log length, any set of
keys, any ruleset, any directory of rules.

| Module | Theorem | Statement |
|---|---|---|
| `FollowRunProofs` | `TypeCorrect`, `NothingLost`, `QueueBounded`, `StopIsPrompt` | `[]TypeOK`, `[]Conserved`, `[]Backpressure`, `[]PromptStop` |
| | `ImplementsSequential` | `Spec => Sequential` |
| | `StatusEarned`, `AnsweredPromptly`, `AllAnswered` | `[]ExitStatus`, `[]Prompt`, `[]Answered` |
| `AssemblerProofs` | `TypeCorrect`, `IndexCorrect`, `MemoryBounded` | `[]TypeOK`, `[]IndexMatches`, `[]Bounded` |
| | `DecisionsOnce`, `RecordsFaithful`, `TotalsRight`, `BatchOrder` | `[]OnceEach`, `[]Faithful`, `[]Totals`, `[]FirstSeenOrder` |
| `AnalyzerProofs` | `TypeCorrect`, `LiveReport`, `RowsExact` | `[]TypeOK`, `[]LiveIsReport`, `[]RowsCount` |
| | `NoRetraction` | the action property `NothingRetracted` |
| | `ExitTwoRight`, `SuggestionsWarranted`, `NothingSilent`, `CountsRight` | `[]ExitTwo`, `[]Justified`, `[]Answered`, `[]Counts` |
| `CheckProofs` | `TypeCorrect`, `DeniedNeverWrong`, `NothingIsProposed`, `AlwaysDecisive` | `[]TypeOK`, `[]DeniedIsTrue`, `[]NothingProposed`, `[]Decisive` |
| | `AllowedNeverWrong` | `[]AllowedIsTrue`, where every rule written has a decision the daemon knows |
| `FileOrderProofs` | `BeforeOrder` | the order of file names is a strict total order, whatever bytes they hold |
| | `RecommendIsAhead` | the recommended name is one that is merged, ahead of the file it is for unless that starts with `~` |
| | `InOrderIs` | the merge has each file of the directory that is merged once, in that order |
| `RulesProofs` | `WrittenFires` | a suggestion that is written and read again fires exactly on the accesses it says |
| | `NamesInOrder` | `[]TotalOrder` |
| | `NothingWiderHolds` | `[]NothingWider`, where no directory holds a comma |
| | `AdviceResolves` | `[](Steady => Resolves)`, where no directory holds a comma and a `dir=` covers the paths that the daemon escapes (`PlainHost`) |
| `LogLineProofs` | `AuditIsWhole` | `[](about.route = "audit" => WholeIsActed)`, where no path and no program holds a backslash (`Unslashed`) |
| | `AuditTextIsReal` | `[](about.route = "audit" /\ tool.out.form = "text" => ActedIsReal)`, under the same hypothesis |

That is every safety property of the first seven `pass` runs, three of them under
the hypotheses named, and of `log_line` the audit route up to the written rule
or commands. How each follows:

**Data (`DataLemmas`).** What `FlattenSeq`, a count or a position is for *every*
sequence takes induction, which no theorem with an operator parameter can give
here. It is stated over sets instead: a set of naturals that holds 0 and with
every n its successor holds them all (`Induction`), and a non-empty one has a
least and, if bounded, a greatest member (`LeastElement`, `GreatestElement`). A
use defines the set of the naturals for which the fact holds. From it come the
place of each part in a flattened sequence (`FlattenPrefix`, `FlattenAt`,
`FlattenFrom`), how often a kind of item occurs in it (`FlattenCount`,
`FlattenLike`, `FlattenNone`, over `NumberOf` and `Positions`), and where its
items come from, in order and once each (`FlattenSources`).

**Follow loop, the threads.** `Conserved` is not inductive alone: a `RecvError`
that acts on an `Err` in the middle of the queue would break it, and nothing in
`Conserved` says there is none; nor that a reader that is done has an empty
hand. `IInv` adds that a read error is the last item there is (`ErrIsLast`), what
the reader's state says of its hand (`Reader`), and the account of the stream
after a read error (`Account`). Three lemmas on sequences (taking the head of a
concatenation, moving an item between its parts, appending to its last part)
carry every step. For the refinement each action is shown to be a step of
`SequentialFollow` or to leave its variables alone; the four reader steps leave
`chan \o hand \o pipe` alone.

**Follow loop, the report.** `StatusInv` says of each place the main thread can
stand at what was fed and which status the run will end with. `ReportInv` counts
pieces of output over `Whole`, which is `out` followed by `todo`, so that a write,
which may fail at any piece, changes no count: every line that is decided has
what it is owed there and every other has nothing (`OwesInv`); corrupt lines
have one note (`CorruptInv`); `totals` has one entry per message, with the number
of times it was written (`TotalsInv`); and a message has its sum at the end if it
was written more than once (`SumsInv`). `Prompt` follows because `todo` is empty
whenever the loop looks for a line.

**Assembler, memory.** `IndexMatches` needs to know that an event a line joins is
the one found under its key and that closing removes from both maps. For the
bound, every open event was last touched within `CloseAfter` lines (`Young`), and
no two of them by the same line (`Distinct`), so `last` injects the open events
into an interval of `CloseAfter + 1` lines.

**Assembler, the records.** `EventOf` defines the events of a log by its lines
alone, as the chains of near lines of one key. One more line joins the event of
the latest line of its key, or starts one (`EventGrows`, `EventStarts`), and no
other event changes. `Placed` says that an event of the log is open until no
later line can join it, and `Grouped` that each open event is kept under its
first line and holds exactly what the lines so far of that event gave it. The
released records tell what their event says (`Told`), no two are of one decision
(`NoneTwice`), none is of an event still open (`Apart`), and every decision is
in one of the two (`Complete`). `close` moves events from the open ones to the
records and keeps that account, which is shown once, for any set of events that
is closed (`CloseKeepsAccounts`); the four properties are read off it.

**Analyzer, live and report.** The invariant is `TypeOK`, the shapes of the
variables over the records the constants allow (`Shapes`), that nothing was
judged while the route is undecided (`Untouched`), and `LiveIsReport` itself: the
row a step writes live (`WhyRow`) has to be new exactly when the tally gains the
number, in each of the two actions that credit a rule. `RowsExact` is an
invariant relative to that one: appending a whole denial adds one to the count of
its own key and to no other's, and the rows follow.

**Analyzer, against the log.** `LinesInv` relates the route, the held framing and
the counters to the lines fed, and gives `ExitTwo`. `Reported` adds that the pid
map is what the log's execs say it should be (`ExecsKnown`), that every record
judged left its trace, a suggestion, a note or a row (`AnsweredInv`), and that
every suggestion is the answer to some denial (`SeenInv`); what one more record
does to these is said once (`ReportedMore`), and each exit of `Analyzer::record`
is shown to be such an addition. `CountsInv` does the same for the counts, which
are cardinalities over the records, the suggestions and the refusal notes.

**Check.** `CheckInv` says that the host's directories hold what was written
(`HostInv`), that the denial is what the loaded rules do (`DenialInv`) and that
the row is the verdict on some listing of this host (`RowInv`); each is nearly
immediate. The substance is in `Verdict` against `Daemon`: three-valued matching
is sound ("yes" is a rule that fires, "no" one that does not, for every access
that has this record, `MatchesSound`), also across a change of sets
(`SameMeaning`); a rule that the walk passes over does not fire
(`PassedOverSound`); and the rule that it stops at is the first match
(`AllowedSound`, `DeniedSound`). For `Decisive`, the rule that denied is found in
its own file (`LocateOwn`) and nothing before it stops the walk open
(`AlwaysDecides`). All of that is about the listing the tool walked; it is about
the daemon told to load the proposal because the two are the same when all was
read (`ReadWhole`, which `AllowedIsTrue` and `DeniedIsTrue` carry in their
statement). That and the hypothesis of `AllowedNeverWrong` are needed: the
partial read of section 6 and `check_misspelt` are the counterexamples without them.

**File order.** `filevercmp` compares two names a part at a time: bytes that are
no digits, then a number. That its result is an order is shown for one pass
(`ByteOrder`, `NumberOrder`) and carried to whole names by induction on what is
left of them, for the sign (`VerrevcmpOpposite`), for what equal names have in
common (`VerrevcmpAgree`) and for three names at once (`VerrevcmpOrder`). Two names
are compared without their extensions first; the extension and at last the bytes
break the tie, and orders one after the other are an order (`BeforeOrder`). For
the recommendation, the digits a name starts with are read as a number whatever
their zeros (`ReadsIs`, `PaddedIs`), so a name with a smaller number is ahead
(`AheadByNumber`); for the number 0 it is the zeros and the stem that decide. The
merge is a fold that inserts names in any order the set offers them
(`InOrderFolds`), so what it yields is said of every such order at once.

**The fragment.** Writing a suggestion and parsing it give back its five words
(`RenderIs`, `RuleOfFive`), and no word is lost to a comma, a set's name or a
blank, since a suggestion that has one is not written (`Writable`). `RunInv` says
that the listing, the log, the fragment and the name have the shapes the reads
give them and that there is no name without a fragment. The lines of the fragment
are those of the denials that earned a rule and of the groups they fall in
(`FragmentIs`, `GroupDirsIs`). A rule answers accesses like its denial
(`RuleAnswers`). A `dir=` answers what is below it, and the rules it replaced,
each of another path, inject into the denied paths below it, which makes those at
least `--dir-min` (`DirAnswers`).

**The advice.** `Resolves` is about two moments, the reads and the reload, and what
joins them is `settled`: every read found what the log was made under. `SettledInv`
says what that gives: each number in the log is that of the first rule of
`tool.under` that denies the access; once `fapolicyd.rules` was tried and not
there, those files are a directory that was merged; and once the listing is read
it is that directory. The middle one is why a host that loses `fapolicyd.rules`
between two reads does no harm: rules of that file have no file name, so they
cannot pass for rules of the listing (`NotLegacy`). From there the recommended
name is ahead of the earliest file that denied (`NameAhead`), the fragment fires
on the access when the daemon comes to it (`LineFires`), and a rule of another
file that is ahead of both and was there unchanged stood ahead of the rule that
denied (`SameFile`), where by the log nothing fired.

`Steady` keeps three things apart that the code leaves to the operator or gets
wrong (section 6): the files the numbers point into are those that were
merged, no name starts with `~`, and no `%set` means something else after the
advice than before. The commonest course of `rules_host`, in which a
denial is read, the advice is taken and nothing else changes, is steady, so the
theorem is about states the run reaches; what `Resolves` says of the others stays
with TLC.

**The log line, read.** `SplitAt` cuts a string by recursion on the position; what it
returns is said once for all cuts, by the bounds between them (`SplitBounds`),
and words joined by blanks come apart at the blanks if none is in a word
(`SplitJoined`). `AuditLineBack` is that for a line of auditd: a quoted string has no
blank, a hex one has digits only, ENRICHED's suffix is behind its separator. Hex
and quotes are undone (`EncodedIs`), the first field of a name is found (`ValueIs`),
so the three lines are assembled into what was denied (`AssembledIs`).
`model::get` leaves a value without a backslash as it is (`UnescapePlain`); the
hypothesis `Unslashed` is needed, `audit_backslash` is the counterexample without it.
`AuditInv` says that the line is an event's and that what was decided was decided
by that line.

**The log line, written.** A reader that takes one byte at a time is followed over a
text put together from parts (`Runs`, `RunsOn`, `RunsAll`): the shell, started between two
words, reads a quoted string as one word, byte for byte, whatever quotes it holds
(`ReadsQuoted`, `TrustReadBack`). A rule is its five words and a newline
(`RenderIsJoined`), which come apart again since the policy writes no rule for a
path with a blank or a control byte (`SuggestedIs`, `RuleReadBack`). `TextInv` says
that the text written is that of what was decided.

**Assumptions.** Those named in the modules, which TLC evaluates in every run:
`CapAssumption`, `BoundAssumption`, `LinesAssumption`, `NotesAssumption`,
`ErrAssumption` (follow loop); `KeysAssumption`, `CloseAssumption`,
`NeverAssumption`, `LogLinesAssumption` (assembler); `LinesAssumption`,
`ReleasesAssumption` (analyzer); `NamesAssumption`, `ContentsAssumption`,
`TokensAssumption`, `StartAssumption` (check) with `UnderAssumption` and
`NoneAssumption` of `Verdict`; `MaxPrefixAssumption` and `WidthAssumption`
(`FileOrder`), `SpellingAssumption`, `PrefixAssumption` and `WordAssumption`
(`RuleText`), `SplitAssumption` (`DirGroups`), and `TriedAssumption`,
`NamesAssumption`, `ContentsAssumption`, `FlagsAssumption` and `AccessAssumption`
(`RulesRun`), `BoundsAssumption` and `AbsentAssumption` (`LogText`) and
`AuditAssumption` (`LogLine`). They say of what kind a constant is, that a
marker such as `None` is not one of the values it stands beside, and, where the
code has it, one fact: a parsed line is content, the name order has no name
twice, a value split at its commas has a member, the daemon runs on rules it
could load, two values are not spelt alike, a `dir=` is a prefix, a path is
absolute, what is not marked as having a blank has none, the audit events are
denials of byte strings and of no path named `(null)`, which is how auditd writes
that there is none, and what ENRICHED adds is set apart by its separator.

## 5. What is only model-checked

- Liveness (`SigintEnds`, `EofEnds`, `LinesFlow`, `SequentialLive`): liveness
  under fairness is out of the prover's reach.
- `Resolves` of `RulesRun` in the states that are not `Steady`: an edit between
  the merge and the read of the listing, or a `%set` that changed its members.
- `WholeIsActed` of `LogLine` on the daemon's lines: there the format, the frames
  and the values of fields nobody reads are free, and the escapes, the anchor, the
  noise words and the cap all have to be kept apart for any of them.
- `ActedIsReal` on the daemon's lines, where other lines and freed names come in as
  well, and, on either route, of the documents and rows: each of those is a
  round trip through UTF-8 and JSON.

## 6. Findings

Four runs end in a counterexample, each against a sentence of the repository.

- `check_misspelt`: a candidate with a rule whose decision word is neither
  allow nor deny, on another path, ahead of an allow. The walk looks at the word
  only of a rule that matches, so the answer is `allowed`; the daemon refuses the
  file (`check.rs:336` says so of such a rule) and goes on denying.
- `analyze_stale`: the first record of a key decides the verdict of its row and
  the comment at `analyze.rs:656` says a stale `exe=` "already gives `unknown`".
  With an open, an exec of the same process, and the same open again, the third
  record is stale and is counted under the verdict of the first.
- `analyze_placement`: a record whose suggestion was seen before returns before
  its rule number is credited with a rule, so the placement note recommends a
  name ahead of the first rule's file only, although a second, earlier rule
  denied the same access; `DESIGN.md:770` says the file must sort before the
  file holding the rule that denied.
- `audit_backslash`: on the audit route `close` puts the decoded bytes of `name=`
  and `exe=` into the record, and every reader of a record goes through
  `model::get`, which unescapes once more. auditd quotes `/a\b` as it is; the
  trust entry is written for `/ab`, another file. `audit.rs:323` says of a quoted
  value that "there is nothing to escape", `model.rs:27` that "every caller wants
  the true bytes". `log_line` keeps backslashes out of its audit events.

Further disagreements were met and are not runs of their own; where a run would
stumble over one, its model or property leaves it out, and this is where.

- `DESIGN.md:423` and the comment at `main.rs:589` call the `rules.d/` read
  all-or-nothing, "any error is an empty merge", while `read_rules_d` drops the
  entry it could not read and keeps the rest (`ReadRulesD` in `CheckRun` and
  `RulesRun`). With an empty merge the answer would be `unknown` and no name would be
  recommended. `AllowedIsTrue` and `DeniedIsTrue` are stated of a proposal that
  was read whole; TLC refutes both without `ReadWhole`. `10` holds only sets when
  the daemon loads it and denies by the second file; `10` is then edited to deny
  the user and is not read; a file `50` that allows the directory is answered
  `allowed` (`check.rs:8`: "a wrong `allowed` is worse than an `unknown`"), and the
  daemon told to load it beside `10` denies. Or `10` is edited to allow the path
  and is not read: the row says `denied`, and the daemon told to load `rules.d/`
  allows. And where one rule stands in two files and the first is not read,
  `locate` finds the rule that denied in the second and the name it recommends
  sorts behind the first: TLC refutes `Resolves` on such a host, and `rules_host`
  has none.
- A `%set` moved behind the rule that names it makes a `rules.d/` that merges to
  the loaded rules and that the daemon would not load. The note at `main.rs:213`
  does not look at where a set is defined and says that "nothing is proposed and
  every denial is denied again"; the walk refuses the listing, so every row
  beneath the note says `unknown`. `NothingProposed` asks that the listing loads.
- `rules_d.rs:204` says that a file with no numeric prefix "sorts last of all". One
  that starts with `~` sorts ahead of every number, so the name recommended for
  it does not sort before it. No name of `rules_host` starts with `~`, and
  `RecommendIsAhead` and `Steady` except it.
- The comment above `dir_of` takes a directory for one value, but the parser
  splits at commas: `dir=/opt/a,b/` is a list of two. No directory of
  `rules_host` holds a comma, and `NothingWiderHolds` and `AdviceResolves` ask that
  none does.
- The comment at `main.rs:556` says an unreadable `fapolicyd.rules` "falls through
  exactly as it does for the daemon". The daemon runs as root, the tool need not:
  a file only the tool cannot read makes it take the numbers of the log for those
  of `compiled.rules`. `settled` is false then, and `Resolves` claims nothing.
- `parse.rs:16` says the anchor cannot be confused. A value that ends in `]:` is
  followed by the space of the next field, which is not escaped, and on a line
  without a frame it is taken for one (`Mistaken`, left out of both properties of
  `log_line`).
- `DESIGN.md:81` calls the comparison with `syslog_format` "the only strong
  truncation test available". It tests that a field is there, not that it is whole: under a format whose
  last emitted field is `path`, a record cut inside the path is judged whole and
  a prefix of it is acted on. The formats of `log_line` end in another field.
- A path that holds both noise words is dropped as the deprecation notice, which
  `is_noise` says it guards against for one of the words.

## 7. What is not modelled, and why

- The `why` report's columns and its document, the envelope of a document, null
  fields and indentation, and the wording of notes: no property is about them.
  Which rows there are, and when, is in `Analyzer`.
- UTF-8 of three and four bytes, and ASCII whitespace other than the space ahead
  of a comment: they take the paths of those that are there.
- An operator who runs the tool a second time and saves the new fragment over
  the first: `Apply` saves under a name that is free.
- Two rules of the same text in `rules.d/`, for which `locate`'s test that
  nothing drifted says little; the contents of `rules_host` have none within a
  listing and its log.
- The batch run's host notes, and documents of more than one entry.
- The help texts, the build and the packaging.
- A pid reused by another process of the same image: the log does not tell the
  two apart, and neither does the program or the model.

## 8. Plan

In order; done modules are marked.

1. `FollowRun`, `SequentialFollow`, `FollowRunProofs` (done).
2. `Assembler`, `AssemblerProofs` (done).
3. `Verdict`, `Daemon`, `CheckRun` (done).
4. `Analyzer`, `Policy`, `AnalyzerProofs` (done).
5. `FileOrder`, `RuleText`, `DirGroups`, `RulesRun` (done).
6. `LogText`, `Reports`, `LogLine`, and `LogLineProofs` for the audit route (done).
7. Proofs of the safety properties of the follow loop, the assembler, the
   analyzer and the `check` verb (done).
8. Proofs about the `rules` verb: the order of file names and the name to
   recommend, the round trip of a rule, that a fragment says no more than its
   denials and that it works (done). Next would be `Resolves` under several edits,
   stated over what `locate` can see, and the daemon's lines and the documents of
   `LogLine`.

## 9. Running it

    tlc -workers 2 -config LogLine.cfg MCLogLine
    tlapm FollowRunProofs.tla

Each configuration is named after its run and belongs to the `MC` module of the
same part. The runs take from seconds to a few minutes each, and so does each
module of proofs.
