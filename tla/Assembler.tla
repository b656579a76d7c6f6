------------------------------- MODULE Assembler -------------------------------
(***************************************************************************)
(* src/fapolicyd/audit.rs: the records of an ausearch log grouped into     *)
(* events by their msg=audit(ts:serial) key, one line at a time, and the   *)
(* denial records an event yields when it is closed.  Batch closes events  *)
(* at the end only; --follow closes one that has gone close_after lines     *)
(* without a record of its own.                                            *)
(*                                                                         *)
(* A line is a record of the fields the code reads: its type and key, and  *)
(* for a FANOTIFY its rule number, response and object trust, for a        *)
(* SYSCALL the call, items=, exe= and pid=, for a PATH item= and name=.    *)
(***************************************************************************)
EXTENDS Naturals, Sequences, FiniteSets, SequencesExt

CONSTANTS
    Keys,        \* the audit keys
    LogLines,    \* the lines a log may hold, for each close_after: lines an event may go without a record
    MaxLines,    \* bound: lines fed
    Never,       \* the close_after of a batch run
    RuleDec,     \* the decisions of the rules file, in order; << >> without one
    None         \* a missing field

ASSUME KeysAssumption == None \notin Keys
ASSUME CloseAssumption == DOMAIN LogLines \subseteq Nat \cup {Never}
ASSUME NeverAssumption == Never \notin Nat
ASSUME LogLinesAssumption ==
    \A c \in DOMAIN LogLines : \A l \in LogLines[c] :
       /\ l.type \in {"FANOTIFY", "SYSCALL", "PATH", "OTHER"} /\ l.key \in Keys \cup {None}
       /\ l # None

VARIABLES
    closeAfter,  \* how the run closes events, fixed when it starts
    line,      \* lines fed so far
    events,    \* the open events, keyed by the line that opened them
    at,        \* the audit key to the entry of events holding it
    noRule,    \* FANOTIFY records without a rule number
    noPath,    \* events with a decision and no object path
    released,  \* the records of the last call, which its caller consumes
    ended,     \* finish was called
    log, out   \* history: the lines fed and every record released

vars == <<closeAfter, line, events, at, noRule, noPath, released, ended, log, out>>

--------------------------------------------------------------------------------
(* An event and what it yields                                             *)

NewEvent(key) ==
    [key |-> key, last |-> 0, fanotify |-> << >>, syscall |-> None, paths |-> << >>]

\* Line n of the input joins event e.  A second SYSCALL replaces the first;
\* a record of any other type only moves `last`.
Joined(e, l, n) ==
    [key |-> e.key, last |-> n,
     fanotify |-> IF l.type = "FANOTIFY" THEN Append(e.fanotify, <<n, l>>) ELSE e.fanotify,
     syscall  |-> IF l.type = "SYSCALL" THEN l ELSE e.syscall,
     paths    |-> IF l.type = "PATH" THEN Append(e.paths, l) ELSE e.paths]

\* decision: resp=2 says so itself; otherwise the rule's own word, if there is one.
Decision(resp, rule) ==
    IF resp # 2 /\ rule \in DOMAIN RuleDec THEN RuleDec[rule] ELSE "deny_audit"

Perm(e) == IF e.syscall # None /\ e.syscall.exec THEN "execute" ELSE "open"

\* The PATH records that say they are the object.
Objects(e) == {i \in DOMAIN e.paths : e.paths[i].item = 0}

\* MUTANT: item=0 is the object whatever the number of items.
ObjectPathAlways(e) ==
    IF e.syscall # None /\ Objects(e) # {} THEN e.paths[Min(Objects(e))].name ELSE None

\* object_path: item=0, and only when the syscall named as many files as its
\* permission calls for; an exec with one item names the loader.
ObjectPath(e) ==
    IF /\ e.syscall # None
       /\ e.syscall.items = IF Perm(e) = "execute" THEN 2 ELSE 1
       /\ Objects(e) # {}
    THEN e.paths[Min(Objects(e))].name ELSE None

RecordOf(e, n, fan) ==
    LET path == ObjectPath(e)
    IN  [line |-> n, rule |-> fan.rule, dec |-> Decision(fan.resp, fan.rule), perm |-> Perm(e),
         exe  |-> IF e.syscall = None THEN None ELSE e.syscall.exe,
         pid  |-> IF e.syscall = None THEN None ELSE e.syscall.pid,
         path |-> path,
         trust |-> IF path = None THEN None ELSE fan.trust]

\* MUTANT: one record for an event, however many decisions it carries.
CloseFirst(e) ==
    [i \in DOMAIN e.fanotify \cap {1} |-> RecordOf(e, e.fanotify[i][1], e.fanotify[i][2])]

Close(e) == [i \in DOMAIN e.fanotify |-> RecordOf(e, e.fanotify[i][1], e.fanotify[i][2])]

--------------------------------------------------------------------------------
Init ==
    /\ closeAfter \in DOMAIN LogLines
    /\ line = 0 /\ events = << >> /\ at = << >>
    /\ noRule = 0 /\ noPath = 0 /\ released = << >> /\ ended = FALSE
    /\ log = << >> /\ out = << >>

\* MUTANT: events are closed in the order of their latest lines.
InOrderByLast(evs, done) ==
    FlattenSeq([n \in 1..(line + 1) |->
        LET ids == {id \in done : evs[id].last = n}
        IN  IF ids = {} THEN << >> ELSE Close(evs[Min(ids)])])

\* The records of the events with the ids in `done`, in first-seen order: an
\* event's id is the line that opened it.
InOrder(evs, done) ==
    FlattenSeq([n \in 1..(line + 1) |-> IF n \in done THEN Close(evs[n]) ELSE << >>])

\* MUTANT: an event that never held a decision counts as well.
PathlessAny(evs, done) == {id \in done : ObjectPath(evs[id]) = None}

Pathless(evs, done) == {id \in done : evs[id].fanotify # << >> /\ ObjectPath(evs[id]) = None}

\* The events of evs with the ids in `done` are closed, in first-seen order.
CloseAll(evs, done) ==
    LET recs == InOrder(evs, done)
    IN  /\ events' = [id \in DOMAIN evs \ done |-> evs[id]]
        /\ released' = recs
        /\ out' = out \o recs
        /\ noRule' = noRule + Cardinality({i \in DOMAIN recs : recs[i].rule = 0})
        /\ noPath' = noPath + Cardinality(Pathless(evs, done))

\* MUTANT: a closed event leaves its key behind.
WithoutNone(index, done) == index

Without(index, done) == [k \in {k \in DOMAIN index : index[k] \notin done} |-> index[k]]

\* MUTANT: an entry is numbered from the line after the one that opens it.
EntryAfter(l) == IF l.key \in DOMAIN at THEN at[l.key] ELSE line + 2

\* The entry the line's key leads to: the open event's, or the line's own.
EntryOf(l) == IF l.key \in DOMAIN at THEN at[l.key] ELSE line + 1

\* The events once line l has joined its own.
With(l) ==
    [id \in DOMAIN events \cup {EntryOf(l)} |->
        IF id = EntryOf(l)
        THEN Joined(IF id \in DOMAIN events THEN events[id] ELSE NewEvent(l.key), l, line + 1)
        ELSE events[id]]

\* The index once the line's key has its entry.
Indexed(l) == [k \in DOMAIN at \cup {l.key} |-> IF k = l.key THEN EntryOf(l) ELSE at[k]]

\* MUTANT: an event is closed one line late.
ExpiredLate(evs, n) ==
    {id \in DOMAIN evs : closeAfter # Never /\ n - evs[id].last > closeAfter + 1}

Expired(evs, n) ==
    {id \in DOMAIN evs : closeAfter # Never /\ n - evs[id].last > closeAfter}

\* A line that is an audit record with a key.
Feed(l) ==
    /\ ~ended /\ line < MaxLines /\ l.key # None
    /\ line' = line + 1
    /\ log' = Append(log, l)
    /\ CloseAll(With(l), Expired(With(l), line + 1))
    /\ at' = Without(Indexed(l), Expired(With(l), line + 1))
    /\ UNCHANGED <<closeAfter, ended>>

\* Any other line: it has no event, but it still counts as one that passed.
FeedOther(l) ==
    /\ ~ended /\ line < MaxLines /\ l.key = None
    /\ line' = line + 1
    /\ log' = Append(log, l)
    /\ CloseAll(events, Expired(events, line + 1))
    /\ at' = Without(at, Expired(events, line + 1))
    /\ UNCHANGED <<closeAfter, ended>>

\* The end of the input closes what is open; noRule and noPath are its notes.
Finish ==
    /\ ~ended
    /\ ended' = TRUE
    /\ CloseAll(events, DOMAIN events)
    /\ UNCHANGED <<closeAfter, line, at, log>>

\* The assembler is consumed by finish: nothing more can be asked of it.
Consumed == ended /\ UNCHANGED vars

Next == (\E l \in LogLines[closeAfter] : Feed(l) \/ FeedOther(l)) \/ Finish \/ Consumed

Spec == Init /\ [][Next]_vars

--------------------------------------------------------------------------------
(* Properties                                                              *)

\* An event is known by the line that opened it, belongs to a key, and was last
\* touched no earlier than that and no later than now.
TypeOK ==
    /\ closeAfter \in DOMAIN LogLines /\ line \in Nat /\ ended \in BOOLEAN
    /\ DOMAIN events \subseteq 1..line
    /\ \A id \in DOMAIN events : events[id].key \in Keys /\ events[id].last \in id..line

\* Every open event is found under its own key and under no other, so a line
\* never joins an event that is closed, and no event is out of reach.
IndexMatches ==
    ~ended =>
      /\ \A k \in DOMAIN at : at[k] \in DOMAIN events /\ events[at[k]].key = k
      /\ \A id \in DOMAIN events : events[id].key \in DOMAIN at /\ at[events[id].key] = id

\* Between lines no open event is older than close_after, so the memory of a
\* run that never ends is bounded: at most close_after + 1 events are open.
Bounded ==
    closeAfter # Never =>
      /\ \A id \in DOMAIN events : line - events[id].last <= closeAfter
      /\ Cardinality(DOMAIN events) <= closeAfter + 1

FanLines(k) == {n \in DOMAIN log : log[n].type = "FANOTIFY" /\ log[n].key = k}
Emitted(n) == {i \in DOMAIN out : out[i].line = n}
OpenIn(n) == {id \in DOMAIN events : \E i \in DOMAIN events[id].fanotify : events[id].fanotify[i][1] = n}

\* A decision is held by one open event or was released, once, and never both:
\* closing and reopening a key loses and repeats nothing.
OnceEach ==
    \A k \in Keys : \A n \in FanLines(k) :
       Cardinality(Emitted(n)) + Cardinality(OpenIn(n)) = 1

\* The lines of one event, without the incremental bookkeeping: those of the
\* key that are reached from line n with no more than close_after lines passing
\* between one and the next.
Near(n, m) == closeAfter # Never => m - n <= closeAfter + 1
SameKey(n) == {m \in DOMAIN log : log[m].key = log[n].key}
Chain(n, m) ==
    \A a \in SameKey(n) : \A b \in SameKey(n) :
       (n <= a /\ a < b /\ b <= m /\ ~\E c \in SameKey(n) : a < c /\ c < b) => Near(a, b)
EventOf(n) == {m \in SameKey(n) : Chain(n, m) /\ Chain(m, n)}

Typed(ns, type) == {n \in ns : log[n].type = type}

\* What a record says is what the lines `own` say: the last SYSCALL, the first
\* PATH with item=0, the decision's own rule and trust.
Says(r, own) ==
    LET calls   == Typed(own, "SYSCALL")
        call    == log[Max(calls)]
        objects == {m \in Typed(own, "PATH") : log[m].item = 0}
        execute == calls # {} /\ call.exec
        named   == calls # {} /\ call.items = (IF execute THEN 2 ELSE 1) /\ objects # {}
    IN  /\ r.perm = IF execute THEN "execute" ELSE "open"
        /\ r.exe = IF calls = {} THEN None ELSE call.exe
        /\ r.pid = IF calls = {} THEN None ELSE call.pid
        /\ r.path = IF named THEN log[Min(objects)].name ELSE None
        /\ r.rule = log[r.line].rule
        /\ r.trust = IF r.path = None THEN None ELSE log[r.line].trust

\* Every record released says what the lines of its own event say, however the
\* lines of other events lie between them.
Faithful == \A i \in DOMAIN out : Says(out[i], EventOf(out[i].line))

\* The two totals count records and events as they were released.
Totals ==
    /\ noRule = Cardinality({i \in DOMAIN out : out[i].rule = 0})
    /\ noPath = Cardinality({Min(EventOf(out[i].line)) : i \in {i \in DOMAIN out : out[i].path = None}})

\* Batch reports events in the order they were first seen, and the decisions
\* of one event in the order they arrived, however their lines interleave.
FirstSeenOrder ==
    closeAfter = Never =>
      \A i, j \in DOMAIN out : i < j =>
         LET a == Min(EventOf(out[i].line))
             b == Min(EventOf(out[j].line))
         IN  a < b \/ (a = b /\ out[i].line < out[j].line)
================================================================================
