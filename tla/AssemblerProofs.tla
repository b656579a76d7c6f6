---------------------------- MODULE AssemblerProofs ----------------------------
(***************************************************************************)
(* Proofs about Assembler, for every set of keys, every log and every      *)
(* close_after: the index and the open events are each other's inverse,    *)
(* the memory of a followed log is bounded however long it runs, every     *)
(* decision of the log is held or released once, and every record says     *)
(* what the lines of its own event say, in batch in first-seen order.      *)
(*                                                                         *)
(* The events of a log are read off its lines alone (EventOf, SameKey); one *)
(* more line joins the event of its key's latest line or starts one         *)
(* (EventGrows, EventStarts).  ReportInv relates the open events and the    *)
(* records released to those: see section 4 of README.md.                   *)
(***************************************************************************)
EXTENDS Assembler, DataLemmas

\* An event has the fields the code gives it.
IsEvent(e) ==
    e = [key |-> e.key, last |-> e.last, fanotify |-> e.fanotify,
         syscall |-> e.syscall, paths |-> e.paths]

Shapes == \A id \in DOMAIN events : IsEvent(events[id])

\* A line is the latest of one event at most.
Distinct == \A a, b \in DOMAIN events : events[a].last = events[b].last => a = b

Young == closeAfter # Never => \A id \in DOMAIN events : line - events[id].last <= closeAfter

IInv == TypeOK /\ Shapes /\ Distinct /\ Young /\ IndexMatches

--------------------------------------------------------------------------------
(* What a line does to the events                                          *)

LEMMA JoinedFields ==
    ASSUME NEW e, IsEvent(e), NEW l, NEW n
    PROVE  IsEvent(Joined(e, l, n)) /\ Joined(e, l, n).key = e.key /\ Joined(e, l, n).last = n
BY DEF Joined, IsEvent

LEMMA NewEventFields ==
    ASSUME NEW k
    PROVE  IsEvent(NewEvent(k)) /\ NewEvent(k).key = k
BY DEF NewEvent, IsEvent

\* With: the line's own entry is its key's, and is the latest of all; the other
\* events are as they were.
LEMMA WithFacts ==
    ASSUME IInv, ~ended, NEW l \in LogLines[closeAfter], l.key # None
    PROVE  /\ EntryOf(l) \in 1..(line + 1)
           /\ DOMAIN With(l) = DOMAIN events \cup {EntryOf(l)}
           /\ IsEvent(With(l)[EntryOf(l)])
           /\ With(l)[EntryOf(l)].key = l.key
           /\ With(l)[EntryOf(l)].last = line + 1
           /\ \A id \in DOMAIN events : id # EntryOf(l) =>
                 With(l)[id] = events[id] /\ events[id].key # l.key
           /\ EntryOf(l) \in DOMAIN events => l.key \in DOMAIN at
           /\ \A k \in DOMAIN at : k # l.key => at[k] # EntryOf(l)
<1>. USE DEF IInv
<1>. DEFINE t == EntryOf(l)
<1>1. CASE l.key \in DOMAIN at
  <2>1. t = at[l.key] /\ t \in DOMAIN events /\ events[t].key = l.key
    BY <1>1 DEF EntryOf, IndexMatches
  <2>2. With(l) = [id \in DOMAIN events \cup {t} |->
                     IF id = t THEN Joined(events[t], l, line + 1) ELSE events[id]]
    BY <2>1 DEF With
  <2>3. IsEvent(Joined(events[t], l, line + 1)) /\ Joined(events[t], l, line + 1).key = l.key
        /\ Joined(events[t], l, line + 1).last = line + 1
    BY <2>1, JoinedFields DEF Shapes
  <2>4. \A id \in DOMAIN events : id # t => events[id].key # l.key
    BY <1>1, <2>1 DEF IndexMatches
  <2>5. \A k \in DOMAIN at : k # l.key => at[k] # t
    BY <2>1 DEF IndexMatches
  <2>6. t \in 1..(line + 1)
    BY <2>1 DEF TypeOK
  <2>. QED BY <1>1, <2>2, <2>3, <2>4, <2>5, <2>6
<1>2. CASE l.key \notin DOMAIN at
  <2>1. t = line + 1 /\ t \notin DOMAIN events
    BY <1>2 DEF EntryOf, TypeOK
  <2>2. With(l) = [id \in DOMAIN events \cup {t} |->
                     IF id = t THEN Joined(NewEvent(l.key), l, line + 1) ELSE events[id]]
    BY <2>1 DEF With
  <2>3. IsEvent(Joined(NewEvent(l.key), l, line + 1))
        /\ Joined(NewEvent(l.key), l, line + 1).key = l.key
        /\ Joined(NewEvent(l.key), l, line + 1).last = line + 1
    BY NewEventFields, JoinedFields
  <2>4. \A id \in DOMAIN events : events[id].key # l.key
    BY <1>2 DEF IndexMatches
  <2>5. \A k \in DOMAIN at : at[k] # t
    BY <2>1 DEF IndexMatches
  <2>6. t \in 1..(line + 1)
    BY <2>1 DEF TypeOK
  <2>. QED BY <2>1, <2>2, <2>3, <2>4, <2>5, <2>6
<1>. QED BY <1>1, <1>2

--------------------------------------------------------------------------------
(* The invariant is inductive                                              *)

LEMMA InitInv == Init => IInv
<1>. SUFFICES ASSUME Init PROVE IInv
  OBVIOUS
<1>1. DOMAIN events = {} /\ DOMAIN at = {}
  BY DEF Init
<1>. QED BY <1>1 DEF Init, IInv, TypeOK, Shapes, Distinct, Young, IndexMatches

LEMMA FeedInv ==
    ASSUME IInv, NEW l \in LogLines[closeAfter], Feed(l)
    PROVE  IInv'
<1>. USE DEF IInv
<1>. DEFINE t == EntryOf(l)
            E == With(l)
            X == Expired(E, line + 1)
<1>1. /\ ~ended /\ l.key # None /\ l.key \in Keys /\ line' = line + 1
      /\ ended' = ended /\ closeAfter' = closeAfter /\ closeAfter \in DOMAIN LogLines
  BY LogLinesAssumption DEF Feed, TypeOK
<1>2. events' = [id \in DOMAIN E \ X |-> E[id]]
  BY DEF Feed, CloseAll
<1>3. at' = Without(Indexed(l), X)
  BY DEF Feed
<1>4. /\ t \in 1..(line + 1)
      /\ DOMAIN E = DOMAIN events \cup {t}
      /\ IsEvent(E[t]) /\ E[t].key = l.key /\ E[t].last = line + 1
      /\ \A id \in DOMAIN events : id # t => E[id] = events[id] /\ events[id].key # l.key
      /\ t \in DOMAIN events => l.key \in DOMAIN at
      /\ \A k \in DOMAIN at : k # l.key => at[k] # t
  BY <1>1, WithFacts
<1>. HIDE DEF t, E, X
<1>5. DOMAIN events' = DOMAIN E \ X /\ \A id \in DOMAIN events' : events'[id] = E[id]
  BY <1>2
<1>6. line \in Nat
  BY DEF TypeOK
<1>7. TypeOK'
  <2>1. DOMAIN events' \subseteq 1..line'
    BY <1>1, <1>4, <1>5 DEF TypeOK
  <2>2. ASSUME NEW id \in DOMAIN events'
        PROVE  events'[id].key \in Keys /\ events'[id].last \in id..line'
    <3>1. CASE id = t
      BY <1>1, <1>4, <1>5, <1>6, <3>1
    <3>2. CASE id # t
      BY <1>1, <1>4, <1>5, <1>6, <3>2 DEF TypeOK
    <3>. QED BY <3>1, <3>2
  <2>. QED BY <1>1, <1>6, <2>1, <2>2 DEF TypeOK
<1>8. Shapes'
  BY <1>4, <1>5 DEF Shapes
<1>9. Distinct'
  <2>1. \A id \in DOMAIN events : events[id].last # line + 1
    BY <1>6 DEF TypeOK
  <2>. QED BY <1>4, <1>5, <2>1 DEF Distinct
<1>10. Young'
  <2>1. ASSUME closeAfter # Never, NEW id \in DOMAIN events'
        PROVE  line' - events'[id].last <= closeAfter
    <3>1. id \in DOMAIN E /\ ~((line + 1) - E[id].last > closeAfter) /\ events'[id] = E[id]
      BY <1>5, <2>1 DEF X, Expired
    <3>2. closeAfter \in Nat /\ events'[id].last \in Nat
      BY <1>1, <1>7, <2>1, CloseAssumption DEF TypeOK
    <3>. QED BY <1>1, <1>6, <3>1, <3>2
  <2>. QED BY <1>1, <2>1 DEF Young
<1>11. IndexMatches'
  <2>1. /\ DOMAIN Indexed(l) = DOMAIN at \cup {l.key}
        /\ Indexed(l)[l.key] = t
        /\ \A k \in DOMAIN at : k # l.key => Indexed(l)[k] = at[k]
    BY DEF Indexed, t
  <2>2. /\ DOMAIN at' = {k \in DOMAIN Indexed(l) : Indexed(l)[k] \notin X}
        /\ \A k \in DOMAIN at' : at'[k] = Indexed(l)[k]
    BY <1>3 DEF Without
  <2>3. ASSUME NEW k \in DOMAIN at'
        PROVE  at'[k] \in DOMAIN events' /\ events'[at'[k]].key = k
    <3>1. CASE k = l.key
      BY <1>4, <1>5, <2>1, <2>2, <3>1
    <3>2. CASE k # l.key
      <4>1. k \in DOMAIN at /\ at'[k] = at[k] /\ at[k] # t /\ at[k] \notin X
        BY <1>4, <2>1, <2>2, <3>2
      <4>2. at[k] \in DOMAIN events /\ events[at[k]].key = k
        BY <1>1, <4>1 DEF IndexMatches
      <4>. QED BY <1>4, <1>5, <4>1, <4>2
    <3>. QED BY <3>1, <3>2
  <2>4. ASSUME NEW id \in DOMAIN events'
        PROVE  events'[id].key \in DOMAIN at' /\ at'[events'[id].key] = id
    <3>1. CASE id = t
      BY <1>4, <1>5, <2>1, <2>2, <3>1
    <3>2. CASE id # t
      <4>1. id \in DOMAIN events /\ id \notin X /\ events'[id] = events[id] /\ events[id].key # l.key
        BY <1>4, <1>5, <3>2
      <4>2. events[id].key \in DOMAIN at /\ at[events[id].key] = id
        BY <1>1, <4>1 DEF IndexMatches
      <4>. QED BY <2>1, <2>2, <4>1, <4>2
    <3>. QED BY <3>1, <3>2
  <2>. QED BY <2>3, <2>4 DEF IndexMatches
<1>. QED BY <1>7, <1>8, <1>9, <1>10, <1>11

LEMMA FeedOtherInv ==
    ASSUME IInv, NEW l \in LogLines[closeAfter], FeedOther(l)
    PROVE  IInv'
<1>. USE DEF IInv
<1>. DEFINE X == Expired(events, line + 1)
<1>1. /\ ~ended /\ line' = line + 1 /\ ended' = ended /\ line \in Nat
      /\ closeAfter' = closeAfter /\ closeAfter \in DOMAIN LogLines
  BY DEF FeedOther, TypeOK
<1>2. DOMAIN events' = DOMAIN events \ X /\ \A id \in DOMAIN events' : events'[id] = events[id]
  BY DEF FeedOther, CloseAll
<1>3. DOMAIN at' = {k \in DOMAIN at : at[k] \notin X} /\ \A k \in DOMAIN at' : at'[k] = at[k]
  BY DEF FeedOther, Without
<1>4. Young'
  <2>1. ASSUME closeAfter # Never, NEW id \in DOMAIN events'
        PROVE  line' - events'[id].last <= closeAfter
    <3>1. id \in DOMAIN events /\ ~((line + 1) - events[id].last > closeAfter)
          /\ events'[id] = events[id]
      BY <1>2, <2>1 DEF Expired
    <3>2. closeAfter \in Nat /\ events[id].last \in Nat
      BY <1>1, <3>1, <2>1, CloseAssumption DEF TypeOK
    <3>. QED BY <1>1, <3>1, <3>2
  <2>. QED BY <1>1, <2>1 DEF Young
<1>. HIDE DEF X
<1>5. TypeOK'
  BY <1>1, <1>2 DEF TypeOK
<1>6. Shapes' /\ Distinct'
  BY <1>2 DEF Shapes, Distinct
<1>7. IndexMatches'
  BY <1>1, <1>2, <1>3 DEF IndexMatches
<1>. QED BY <1>4, <1>5, <1>6, <1>7

LEMMA FinishInv ==
    ASSUME IInv, Finish
    PROVE  IInv'
<1>1. DOMAIN events' = {} /\ ended' = TRUE /\ line' = line /\ closeAfter' = closeAfter
  BY DEF Finish, CloseAll
<1>. QED BY <1>1 DEF IInv, TypeOK, Shapes, Distinct, Young, IndexMatches

LEMMA InvStep == IInv /\ [Next]_vars => IInv'
<1>. SUFFICES ASSUME IInv, [Next]_vars PROVE IInv'
  OBVIOUS
<1>1. CASE \E l \in LogLines[closeAfter] : Feed(l)
  BY <1>1, FeedInv
<1>2. CASE \E l \in LogLines[closeAfter] : FeedOther(l)
  BY <1>2, FeedOtherInv
<1>3. CASE Finish
  BY <1>3, FinishInv
<1>4. CASE UNCHANGED vars
  BY <1>4 DEF vars, IInv, TypeOK, Shapes, Distinct, Young, IndexMatches
<1>. QED BY <1>1, <1>2, <1>3, <1>4 DEF Next, Consumed

LEMMA Invariant == Spec => []IInv
BY InitInv, InvStep, PTL DEF Spec

--------------------------------------------------------------------------------
(* The theorems                                                            *)

\* THEOREM: the type invariant holds of every run.
THEOREM TypeCorrect == Spec => []TypeOK
<1>1. IInv => TypeOK
  BY DEF IInv
<1>. QED BY <1>1, Invariant, PTL

\* THEOREM: the index leads every key to its own open event and to no other.
THEOREM IndexCorrect == Spec => []IndexMatches
<1>1. IInv => IndexMatches
  BY DEF IInv
<1>. QED BY <1>1, Invariant, PTL

\* THEOREM: a followed log keeps at most closeAfter + 1 events open, however
\* long it runs: every line is the latest of one event, and only the last
\* closeAfter + 1 lines are recent enough.
THEOREM MemoryBounded == Spec => []Bounded
<1>1. IInv => Bounded
  <2>. SUFFICES ASSUME IInv, closeAfter # Never
               PROVE  /\ \A id \in DOMAIN events : line - events[id].last <= closeAfter
                      /\ Cardinality(DOMAIN events) <= closeAfter + 1
    BY DEF Bounded
  <2>1. closeAfter \in Nat /\ line \in Nat
    BY CloseAssumption DEF IInv, TypeOK
  <2>2. \A id \in DOMAIN events : line - events[id].last <= closeAfter
    BY DEF IInv, Young
  <2>. DEFINE S == DOMAIN events
              T == (line - closeAfter)..line
              f == [id \in S |-> events[id].last]
  <2>3. \A id \in S : events[id].last \in T
    BY <2>1, <2>2 DEF IInv, TypeOK
  <2>4. f \in [S -> T]
    BY <2>3
  <2>5. \A a, b \in S : f[a] = f[b] => a = b
    BY DEF IInv, Distinct
  <2>6. f \in Injection(S, T)
    BY <2>4, <2>5, Fun_IsInj
  <2>7. IsFiniteSet(T) /\ Cardinality(T) = closeAfter + 1
    <3>1. line - closeAfter \in Int /\ line \in Int
      BY <2>1
    <3>. QED BY <2>1, <3>1, FS_Interval
  <2>8. Cardinality(S) <= Cardinality(T)
    BY <2>6, <2>7, FS_Injection
  <2>. QED BY <2>2, <2>7, <2>8
<1>. QED BY <1>1, Invariant, PTL

--------------------------------------------------------------------------------
(* The events of a log, read off its lines                                 *)

AllLines == UNION {LogLines[c] : c \in DOMAIN LogLines}

LogIs == log \in Seq(AllLines) /\ Len(log) = line /\ line \in Nat

\* LEMMA: the least member of a set of naturals.
LEMMA MinIs ==
    ASSUME NEW S, S \subseteq Nat, NEW x \in S, \A m \in S : x <= m
    PROVE  Min(S) = x
<1>1. x \in S /\ \A y \in S : x =< y
  OBVIOUS
<1>2. Min(S) \in S /\ \A y \in S : Min(S) =< y
  BY <1>1 DEF Min
<1>3. Min(S) <= x /\ x <= Min(S) /\ x \in Nat /\ Min(S) \in Nat
  BY <1>1, <1>2
<1>. QED BY <1>3

\* LEMMA: the greatest member of a set of naturals.
LEMMA MaxIs ==
    ASSUME NEW S, S \subseteq Nat, NEW x \in S, \A m \in S : m <= x
    PROVE  Max(S) = x
<1>1. x \in S /\ \A y \in S : x >= y
  OBVIOUS
<1>2. Max(S) \in S /\ \A y \in S : Max(S) >= y
  BY <1>1 DEF Max
<1>3. Max(S) <= x /\ x <= Max(S) /\ x \in Nat /\ Max(S) \in Nat
  BY <1>1, <1>2
<1>. QED BY <1>3

\* LEMMA: the lines of a log.
LEMMA LogLinesAre ==
    ASSUME LogIs
    PROVE  DOMAIN log = 1..line /\ \A n \in DOMAIN log : n \in Nat /\ log[n] \in AllLines
BY DEF LogIs

\* LEMMA: every line is a line of its own event, all of whose lines have one key.
LEMMA OwnEvent ==
    ASSUME LogIs, NEW n \in DOMAIN log
    PROVE  /\ n \in EventOf(n) /\ n \in SameKey(n) /\ EventOf(n) \subseteq SameKey(n)
           /\ SameKey(n) \subseteq DOMAIN log
           /\ \A m \in SameKey(n) : log[m].key = log[n].key /\ SameKey(m) = SameKey(n)
<1>1. \A m \in DOMAIN log : m \in Nat
  BY LogLinesAre
<1>2. n \in SameKey(n) /\ SameKey(n) \subseteq DOMAIN log
      /\ \A m \in SameKey(n) : log[m].key = log[n].key /\ SameKey(m) = SameKey(n)
  BY DEF SameKey
<1>3. Chain(n, n)
  <2>1. \A a, b \in SameKey(n) : ~(n <= a /\ a < b /\ b <= n)
    BY <1>1, <1>2
  <2>. QED BY <2>1 DEF Chain
<1>4. EventOf(n) \subseteq SameKey(n) /\ n \in EventOf(n)
  BY <1>2, <1>3 DEF EventOf
<1>. QED BY <1>2, <1>4

\* LEMMA: a chain from one line to a second and one from there to a third make
\* a chain, wherever the three lie.
LEMMA ChainJoins ==
    ASSUME LogIs, NEW n \in DOMAIN log, NEW x \in SameKey(n), NEW y \in SameKey(n), NEW z \in SameKey(n),
           Chain(x, y), Chain(y, z)
    PROVE  Chain(x, z)
<1>1. SameKey(x) = SameKey(n) /\ SameKey(y) = SameKey(n) /\ SameKey(n) \subseteq Nat
  BY OwnEvent, LogLinesAre
<1>2. ASSUME NEW a \in SameKey(n), NEW b \in SameKey(n), x <= a, a < b, b <= z,
             ~\E c \in SameKey(n) : a < c /\ c < b
      PROVE  Near(a, b)
  <2>1. CASE b <= y
    BY <1>1, <1>2, <2>1 DEF Chain
  <2>2. CASE y <= a
    BY <1>1, <1>2, <2>2 DEF Chain
  <2>3. b <= y \/ y <= a
    BY <1>1, <1>2
  <2>. QED BY <2>1, <2>2, <2>3
<1>. QED BY <1>1, <1>2 DEF Chain

\* LEMMA: the lines of an event have one event.
LEMMA SameEvent ==
    ASSUME LogIs, NEW n \in DOMAIN log, NEW m \in EventOf(n)
    PROVE  m \in DOMAIN log /\ EventOf(m) = EventOf(n)
<1>1. /\ m \in SameKey(n) /\ n \in SameKey(n) /\ m \in DOMAIN log /\ SameKey(m) = SameKey(n)
  BY OwnEvent
<1>2. Chain(n, m) /\ Chain(m, n)
  BY DEF EventOf
<1>3. ASSUME NEW q \in SameKey(n)
      PROVE  (Chain(n, q) <=> Chain(m, q)) /\ (Chain(q, n) <=> Chain(q, m))
  BY <1>1, <1>2, ChainJoins
<1>. QED BY <1>1, <1>3 DEF EventOf

\* LEMMA: a key has a latest line.
LEMMA LatestOfKey ==
    ASSUME LogIs, NEW n \in DOMAIN log
    PROVE  \E p \in SameKey(n) : \A m \in SameKey(n) : m <= p
<1>1. line \in Nat /\ SameKey(n) \subseteq 0..line /\ SameKey(n) # {}
  BY OwnEvent, LogLinesAre DEF LogIs
<1>. QED BY <1>1, GreatestElement

\* LEMMA: a line is of the event of its key's latest line when it is chained to it.
LEMMA ReachesLatest ==
    ASSUME LogIs, NEW n \in DOMAIN log, NEW p \in SameKey(n), \A m \in SameKey(n) : m <= p
    PROVE  p \in EventOf(n) <=> Chain(n, p)
<1>1. SameKey(p) = SameKey(n) /\ SameKey(n) \subseteq Nat /\ n \in SameKey(n)
  BY OwnEvent, LogLinesAre
<1>2. Chain(p, n)
  <2>1. ASSUME NEW a \in SameKey(n), NEW b \in SameKey(n), p <= a, a < b PROVE FALSE
    BY <1>1, <2>1
  <2>. QED BY <1>1, <2>1 DEF Chain
<1>. QED BY <1>2 DEF EventOf

--------------------------------------------------------------------------------
(* One more line                                                           *)

\* LEMMA: the log once it has one more line.
LEMMA LogGrows ==
    ASSUME LogIs, NEW l \in AllLines, log' = Append(log, l), line' = line + 1
    PROVE  /\ LogIs' /\ DOMAIN log' = DOMAIN log \cup {line + 1} /\ line + 1 \notin DOMAIN log
           /\ log'[line + 1] = l /\ \A n \in DOMAIN log : log'[n] = log[n] /\ n < line + 1
BY DEF LogIs

\* LEMMA: what one more line changes of the events of the lines before it:
\* it joins the event of its key's latest line when it is near to that line.
LEMMA EventGrows ==
    ASSUME LogIs, NEW l \in AllLines, log' = Append(log, l), line' = line + 1,
           closeAfter' = closeAfter,
           NEW n \in DOMAIN log, NEW p \in SameKey(n), \A m \in SameKey(n) : m <= p
    PROVE  EventOf(n)' = IF l.key = log[n].key /\ p \in EventOf(n) /\ Near(p, line + 1)
                         THEN EventOf(n) \cup {line + 1} ELSE EventOf(n)
<1>1. PICK N : N = line + 1
  OBVIOUS
<1>2. PICK K : K = SameKey(n)
  OBVIOUS
<1>3. /\ DOMAIN log' = DOMAIN log \cup {N} /\ N \notin DOMAIN log /\ log'[N] = l /\ N \in Nat
      /\ \A m \in DOMAIN log : log'[m] = log[m] /\ m < N /\ m \in Nat
  BY <1>1, LogGrows, LogLinesAre DEF LogIs
<1>4. K \subseteq DOMAIN log /\ n \in K /\ p \in K /\ \A m \in K : SameKey(m) = K
  BY <1>2, OwnEvent
<1>5. \A m \in K : SameKey(m)' = IF l.key = log[n].key THEN K \cup {N} ELSE K
  <2>1. \A m \in K : log[m].key = log[n].key /\ m \in DOMAIN log
    BY <1>2, OwnEvent
  <2>2. K = {q \in DOMAIN log : log[q].key = log[n].key}
    BY <1>2 DEF SameKey
  <2>3. \A m \in K : SameKey(m)' = {q \in DOMAIN log' : log'[q].key = log'[m].key}
    BY DEF SameKey
  <2>. QED BY <1>3, <2>1, <2>2, <2>3
<1>6. PICK L : L = IF l.key = log[n].key THEN K \cup {N} ELSE K
  OBVIOUS
<1>7. \A a, b : Near(a, b)' <=> Near(a, b)
  BY DEF Near
<1>8. /\ \A m, q : Chain(m, q) <=>
            \A a \in SameKey(m) : \A b \in SameKey(m) :
               (m <= a /\ a < b /\ b <= q /\ ~\E c \in SameKey(m) : a < c /\ c < b) => Near(a, b)
      /\ \A m, q : Chain(m, q)' <=>
            \A a \in SameKey(m)' : \A b \in SameKey(m)' :
               (m <= a /\ a < b /\ b <= q /\ ~\E c \in SameKey(m)' : a < c /\ c < b) => Near(a, b)'
  BY DEF Chain
<1>9. ASSUME NEW m \in K, NEW q \in K PROVE Chain(m, q)' <=> Chain(m, q)
  <2>1. \A a, b \in L : b <= q => (a \in K /\ b \in K) \/ ~(a < b)
    BY <1>3, <1>4, <1>6
  <2>2. \A a, b \in K : (\E c \in L : a < c /\ c < b) <=> (\E c \in K : a < c /\ c < b)
    BY <1>3, <1>4, <1>6
  <2>3. K \subseteq L /\ SameKey(m)' = L /\ SameKey(m) = K
    BY <1>4, <1>5, <1>6
  <2>. QED BY <1>7, <1>8, <2>1, <2>2, <2>3
<1>10. \A m : m \in EventOf(n)' <=> m \in L /\ Chain(n, m)' /\ Chain(m, n)'
  BY <1>4, <1>5, <1>6 DEF EventOf
<1>11. \A m : m \in EventOf(n) <=> m \in K /\ Chain(n, m) /\ Chain(m, n)
  BY <1>2 DEF EventOf
<1>12. \A m \in K : m \in EventOf(n)' <=> m \in EventOf(n)
  BY <1>4, <1>6, <1>9, <1>10, <1>11
<1>13. CASE l.key = log[n].key
  <2>1. L = K \cup {N} /\ SameKey(n)' = L
    BY <1>4, <1>5, <1>6, <1>13
  <2>2. SameKey(N)' = L
    BY <1>2, <1>3, <1>6, <1>13 DEF SameKey
  <2>3. Chain(N, n)'
    <3>1. \A a, b \in L : ~(N <= a /\ a < b /\ b <= n)
      BY <1>3, <1>4, <2>1
    <3>. QED BY <1>8, <2>2, <3>1
  <2>4. Chain(n, N)' <=> Chain(n, p) /\ Near(p, N)
    <3>1. p <= N /\ p < N /\ N <= N /\ n <= p /\ ~\E c \in L : p < c /\ c < N
      BY <1>2, <1>3, <1>4, <2>1
    <3>2. ASSUME Chain(n, N)' PROVE Near(p, N)
      BY <1>4, <1>7, <1>8, <2>1, <3>1, <3>2
    <3>3. ASSUME Chain(n, N)' PROVE Chain(n, p)'
      <4>1. \A b \in L : b <= p => b <= N
        BY <1>3, <1>4, <2>1
      <4>. QED BY <1>8, <2>1, <3>3, <4>1
    <3>4. ASSUME Chain(n, p)', Near(p, N) PROVE Chain(n, N)'
      <4>1. SUFFICES ASSUME NEW a \in L, NEW b \in L, n <= a, a < b, b <= N,
                            ~\E c \in L : a < c /\ c < b
                     PROVE  Near(a, b)'
        BY <1>8, <2>1
      <4>2. CASE b = N
        <5>1. a \in K /\ a <= p /\ p \in L /\ a \in Nat /\ p \in Nat
          BY <1>2, <1>3, <1>4, <2>1, <4>1, <4>2
        <5>2. a = p
          BY <3>1, <4>1, <4>2, <5>1
        <5>. QED BY <1>7, <3>4, <4>2, <5>2
      <4>3. CASE b # N
        <5>1. b \in K /\ b <= p
          BY <1>2, <2>1, <4>3
        <5>. QED BY <1>8, <2>1, <3>4, <4>1, <5>1
      <4>. QED BY <4>2, <4>3
    <3>5. Chain(n, p)' <=> Chain(n, p)
      BY <1>4, <1>9
    <3>. QED BY <3>2, <3>3, <3>4, <3>5
  <2>5. p \in EventOf(n) <=> Chain(n, p)
    BY ReachesLatest
  <2>6. N \in EventOf(n)' <=> p \in EventOf(n) /\ Near(p, N)
    BY <1>10, <2>1, <2>3, <2>4, <2>5
  <2>7. \A m : m \in EventOf(n)' => m \in K \/ m = N
    BY <1>10, <2>1
  <2>8. EventOf(n) \subseteq K
    BY <1>11
  <2>9. N \notin K
    BY <1>3, <1>4
  <2>10. CASE p \in EventOf(n) /\ Near(p, N)
    <3>1. \A m : m \in EventOf(n)' <=> m \in EventOf(n) \cup {N}
      BY <1>12, <2>6, <2>7, <2>8, <2>10
    <3>. QED BY <1>1, <1>13, <2>10, <3>1
  <2>11. CASE ~(p \in EventOf(n) /\ Near(p, N))
    <3>1. \A m : m \in EventOf(n)' <=> m \in EventOf(n)
      BY <1>12, <2>6, <2>7, <2>8, <2>9, <2>11
    <3>. QED BY <1>1, <1>13, <2>11, <3>1
  <2>. QED BY <2>10, <2>11
<1>14. CASE l.key # log[n].key
  <2>1. L = K
    BY <1>6, <1>14
  <2>2. \A m : m \in EventOf(n)' <=> m \in EventOf(n)
    BY <1>10, <1>11, <1>12, <2>1
  <2>. QED BY <1>14, <2>2
<1>. QED BY <1>13, <1>14

\* What OwnEvent and SameEvent say of every line, as one formula about a state.
EventsOfLines ==
    LogIs => \A n \in DOMAIN log :
       /\ n \in Nat /\ n \in EventOf(n) /\ EventOf(n) \subseteq DOMAIN log
       /\ SameKey(n) \subseteq DOMAIN log /\ EventOf(n) \subseteq SameKey(n)
       /\ \A m \in EventOf(n) : EventOf(m) = EventOf(n) /\ log[m].key = log[n].key

LEMMA LinesHaveEvents == EventsOfLines
<1>. SUFFICES ASSUME LogIs, NEW n \in DOMAIN log
              PROVE  /\ n \in Nat /\ n \in EventOf(n) /\ EventOf(n) \subseteq DOMAIN log
                     /\ SameKey(n) \subseteq DOMAIN log /\ EventOf(n) \subseteq SameKey(n)
                     /\ \A m \in EventOf(n) : EventOf(m) = EventOf(n) /\ log[m].key = log[n].key
  BY DEF EventsOfLines
<1>1. n \in Nat
  BY LogLinesAre
<1>2. /\ n \in EventOf(n) /\ EventOf(n) \subseteq SameKey(n) /\ SameKey(n) \subseteq DOMAIN log
      /\ \A m \in SameKey(n) : log[m].key = log[n].key
  BY OwnEvent
<1>3. \A m \in EventOf(n) : EventOf(m) = EventOf(n)
  BY SameEvent
<1>. QED BY <1>1, <1>2, <1>3

\* LEMMA: the new line's own event holds the earlier lines whose events it joins.
LEMMA EventStarts ==
    ASSUME LogIs, NEW l \in AllLines, log' = Append(log, l), line' = line + 1,
           NEW N, N = line + 1
    PROVE  /\ N \in EventOf(N)' /\ EventOf(N)' \subseteq DOMAIN log \cup {N}
           /\ \A m \in DOMAIN log : m \in EventOf(N)' <=> N \in EventOf(m)'
<1>1. LogIs' /\ DOMAIN log' = DOMAIN log \cup {N}
  BY LogGrows
<1>2. EventsOfLines'
  BY LinesHaveEvents, PTL
<1>3. N \in EventOf(N)' /\ EventOf(N)' \subseteq DOMAIN log'
  BY <1>1, <1>2 DEF EventsOfLines
<1>4. ASSUME NEW m \in DOMAIN log PROVE m \in EventOf(N)' <=> N \in EventOf(m)'
  BY <1>1, <1>2, <1>3 DEF EventsOfLines
<1>. QED BY <1>1, <1>3, <1>4

\* LEMMA: the lines of a key, with one more.
LEMMA KeyGrows ==
    ASSUME LogIs, NEW l \in AllLines, log' = Append(log, l), line' = line + 1, NEW n \in DOMAIN log
    PROVE  SameKey(n)' = IF l.key = log[n].key THEN SameKey(n) \cup {line + 1} ELSE SameKey(n)
<1>1. PICK N : N = line + 1
  OBVIOUS
<1>2. DOMAIN log' = DOMAIN log \cup {N} /\ N \notin DOMAIN log /\ log'[N] = l
      /\ \A m \in DOMAIN log : log'[m] = log[m]
  BY <1>1, LogGrows
<1>3. \A m : m \in SameKey(n)' <=> m \in DOMAIN log' /\ log'[m].key = log'[n].key
  BY DEF SameKey
<1>4. \A m : m \in SameKey(n) <=> m \in DOMAIN log /\ log[m].key = log[n].key
  BY DEF SameKey
<1>5. CASE l.key = log[n].key
  <2>1. \A m : m \in SameKey(n)' <=> m \in SameKey(n) \cup {N}
    BY <1>2, <1>3, <1>4, <1>5
  <2>. QED BY <1>1, <1>5, <2>1
<1>6. CASE l.key # log[n].key
  <2>1. \A m : m \in SameKey(n)' <=> m \in SameKey(n)
    BY <1>2, <1>3, <1>4, <1>6
  <2>. QED BY <1>6, <2>1
<1>. QED BY <1>5, <1>6

--------------------------------------------------------------------------------
(* What an event holds of its lines                                        *)

Events ==
    [key : Keys, last : Nat, fanotify : Seq(Nat \X AllLines), syscall : AllLines \cup {None},
     paths : Seq(AllLines)]

IsObject(l) == l.type = "PATH" /\ l.item = 0

\* Its decisions are those of the lines `own`, in their order.
HoldsDecisions(e, own, lg) ==
    /\ \A j \in DOMAIN e.fanotify :
          /\ e.fanotify[j][1] \in own /\ e.fanotify[j][2] = lg[e.fanotify[j][1]]
          /\ lg[e.fanotify[j][1]].type = "FANOTIFY"
    /\ \A i, j \in DOMAIN e.fanotify : i < j => e.fanotify[i][1] < e.fanotify[j][1]
    /\ \A n \in own : lg[n].type = "FANOTIFY" => \E j \in DOMAIN e.fanotify : e.fanotify[j][1] = n

\* Its call is the last of them.
HoldsCall(e, own, lg) ==
    IF \E n \in own : lg[n].type = "SYSCALL"
    THEN \E n \in own : /\ lg[n].type = "SYSCALL" /\ e.syscall = lg[n]
                        /\ \A m \in own : lg[m].type = "SYSCALL" => m <= n
    ELSE e.syscall = None

\* The first of its objects is the first of theirs.
HoldsPaths(e, own, lg) ==
    IF \E n \in own : IsObject(lg[n])
    THEN \E n \in own : \E j \in DOMAIN e.paths :
            /\ IsObject(lg[n]) /\ e.paths[j] = lg[n]
            /\ \A m \in own : IsObject(lg[m]) => n <= m
            /\ \A i \in DOMAIN e.paths : e.paths[i].item = 0 => j <= i
    ELSE \A j \in DOMAIN e.paths : e.paths[j].item # 0

Holds(e, own, lg) == HoldsDecisions(e, own, lg) /\ HoldsCall(e, own, lg) /\ HoldsPaths(e, own, lg)

\* LEMMA: an event holds the same of its lines in a longer log.
LEMMA HoldsSame ==
    ASSUME NEW e, NEW own, NEW lg, NEW lh, \A n \in own : lh[n] = lg[n], Holds(e, own, lg)
    PROVE  Holds(e, own, lh)
<1>1. HoldsDecisions(e, own, lh)
  BY DEF Holds, HoldsDecisions
<1>2. HoldsCall(e, own, lh)
  BY DEF Holds, HoldsCall
<1>3. HoldsPaths(e, own, lh)
  BY DEF Holds, HoldsPaths
<1>. QED BY <1>1, <1>2, <1>3 DEF Holds

\* LEMMA: a new event holds nothing.
LEMMA HoldsNothing ==
    ASSUME NEW k \in Keys, NEW lg
    PROVE  NewEvent(k) \in Events /\ Holds(NewEvent(k), {}, lg)
<1>1. NewEvent(k) \in Events
  BY DEF NewEvent, Events
<1>2. NewEvent(k).fanotify = << >> /\ NewEvent(k).paths = << >> /\ NewEvent(k).syscall = None
  BY DEF NewEvent
<1>3. HoldsDecisions(NewEvent(k), {}, lg)
  BY <1>2 DEF HoldsDecisions
<1>4. HoldsCall(NewEvent(k), {}, lg)
  BY <1>2 DEF HoldsCall
<1>5. HoldsPaths(NewEvent(k), {}, lg)
  BY <1>2 DEF HoldsPaths
<1>. QED BY <1>1, <1>3, <1>4, <1>5 DEF Holds

\* LEMMA: an event that a line joins holds what that line adds.
LEMMA HoldsJoined ==
    ASSUME NEW e \in Events, NEW own, NEW lg, NEW l \in AllLines, NEW n \in Nat,
           lg[n] = l, \A m \in own : m \in Nat /\ m < n, Holds(e, own, lg)
    PROVE  Joined(e, l, n) \in Events /\ Holds(Joined(e, l, n), own \cup {n}, lg)
<1>1. PICK j : j = Joined(e, l, n)
  OBVIOUS
<1>2. /\ e.key \in Keys /\ e.fanotify \in Seq(Nat \X AllLines)
      /\ e.syscall \in AllLines \cup {None} /\ e.paths \in Seq(AllLines)
  BY DEF Events
<1>3. /\ j.fanotify = IF l.type = "FANOTIFY" THEN Append(e.fanotify, <<n, l>>) ELSE e.fanotify
      /\ j.syscall = IF l.type = "SYSCALL" THEN l ELSE e.syscall
      /\ j.paths = IF l.type = "PATH" THEN Append(e.paths, l) ELSE e.paths
      /\ j.key = e.key /\ j.last = n
  BY <1>1 DEF Joined
<1>4. j \in Events
  <2>1. j = [key |-> j.key, last |-> j.last, fanotify |-> j.fanotify,
             syscall |-> j.syscall, paths |-> j.paths]
    BY <1>1 DEF Joined
  <2>2. j.fanotify \in Seq(Nat \X AllLines)
    BY <1>2, <1>3
  <2>3. j.syscall \in AllLines \cup {None} /\ j.paths \in Seq(AllLines)
    BY <1>2, <1>3
  <2>4. j.key \in Keys /\ j.last \in Nat
    BY <1>2, <1>3
  <2>. QED BY <2>1, <2>2, <2>3, <2>4 DEF Events
<1>5. HoldsDecisions(j, own \cup {n}, lg)
  <2>1. HoldsDecisions(e, own, lg)
    BY DEF Holds
  <2>2. CASE l.type # "FANOTIFY"
    BY <1>3, <2>1, <2>2 DEF HoldsDecisions
  <2>3. CASE l.type = "FANOTIFY"
    <3>1. PICK q : q = Len(e.fanotify) + 1
      OBVIOUS
    <3>2. /\ DOMAIN j.fanotify = DOMAIN e.fanotify \cup {q} /\ q \notin DOMAIN e.fanotify
          /\ j.fanotify[q] = <<n, l>>
          /\ \A i \in DOMAIN e.fanotify : j.fanotify[i] = e.fanotify[i] /\ i < q
      BY <1>2, <1>3, <2>3, <3>1
    <3>3. j.fanotify[q][1] = n /\ j.fanotify[q][2] = l
      BY <3>2
    <3>4. ASSUME NEW i \in DOMAIN j.fanotify
          PROVE  /\ j.fanotify[i][1] \in own \cup {n} /\ j.fanotify[i][2] = lg[j.fanotify[i][1]]
                 /\ lg[j.fanotify[i][1]].type = "FANOTIFY"
      <4>1. CASE i = q
        BY <2>3, <3>3, <4>1
      <4>2. CASE i # q
        <5>1. i \in DOMAIN e.fanotify /\ j.fanotify[i] = e.fanotify[i]
          BY <3>2, <4>2
        <5>. QED BY <2>1, <5>1 DEF HoldsDecisions
      <4>. QED BY <4>1, <4>2
    <3>5. ASSUME NEW i \in DOMAIN j.fanotify, NEW k \in DOMAIN j.fanotify, i < k
          PROVE  j.fanotify[i][1] < j.fanotify[k][1]
      <4>1. i \in DOMAIN e.fanotify
        <5>1. q \in Nat /\ \A x \in DOMAIN e.fanotify : x \in Nat
          BY <1>2, <3>1
        <5>. QED BY <3>2, <3>5, <5>1
      <4>2. j.fanotify[i] = e.fanotify[i] /\ e.fanotify[i][1] \in own
        BY <2>1, <3>2, <4>1 DEF HoldsDecisions
      <4>3. CASE k = q
        BY <3>3, <4>2, <4>3
      <4>4. CASE k # q
        BY <2>1, <3>2, <3>5, <4>1, <4>2, <4>4 DEF HoldsDecisions
      <4>. QED BY <4>3, <4>4
    <3>6. ASSUME NEW m \in own \cup {n}, lg[m].type = "FANOTIFY"
          PROVE  \E i \in DOMAIN j.fanotify : j.fanotify[i][1] = m
      BY <2>1, <3>2, <3>3, <3>6 DEF HoldsDecisions
    <3>. QED BY <3>4, <3>5, <3>6 DEF HoldsDecisions
  <2>. QED BY <2>2, <2>3
<1>6. HoldsCall(j, own \cup {n}, lg)
  <2>1. HoldsCall(e, own, lg)
    BY DEF Holds
  <2>2. CASE l.type = "SYSCALL"
    <3>1. \A m \in own \cup {n} : m <= n
      OBVIOUS
    <3>. QED BY <1>3, <2>2, <3>1 DEF HoldsCall
  <2>3. CASE l.type # "SYSCALL"
    BY <1>3, <2>1, <2>3 DEF HoldsCall
  <2>. QED BY <2>2, <2>3
<1>7. HoldsPaths(j, own \cup {n}, lg)
  <2>1. HoldsPaths(e, own, lg)
    BY DEF Holds
  <2>2. CASE l.type # "PATH"
    <3>1. ~IsObject(lg[n]) /\ j.paths = e.paths
      BY <1>3, <2>2 DEF IsObject
    <3>. QED BY <2>1, <3>1 DEF HoldsPaths
  <2>3. CASE l.type = "PATH"
    <3>1. PICK q : q = Len(e.paths) + 1
      OBVIOUS
    <3>2. /\ DOMAIN j.paths = DOMAIN e.paths \cup {q} /\ j.paths[q] = l /\ q \in Nat
          /\ \A i \in DOMAIN e.paths : j.paths[i] = e.paths[i] /\ i < q /\ i \in Nat
      BY <1>2, <1>3, <2>3, <3>1
    <3>3. IsObject(lg[n]) <=> l.item = 0
      BY <2>3 DEF IsObject
    <3>4. CASE \E m \in own : IsObject(lg[m])
      <4>1. PICK m \in own, i \in DOMAIN e.paths :
               /\ IsObject(lg[m]) /\ e.paths[i] = lg[m]
               /\ \A x \in own : IsObject(lg[x]) => m <= x
               /\ \A x \in DOMAIN e.paths : e.paths[x].item = 0 => i <= x
        BY <2>1, <3>4 DEF HoldsPaths
      <4>2. i \in DOMAIN j.paths /\ j.paths[i] = lg[m] /\ m \in own \cup {n}
        BY <3>2, <4>1
      <4>3. \A x \in own \cup {n} : IsObject(lg[x]) => m <= x
        BY <4>1
      <4>4. \A x \in DOMAIN j.paths : j.paths[x].item = 0 => i <= x
        BY <3>2, <4>1
      <4>5. \E x \in own \cup {n} : IsObject(lg[x])
        BY <4>1, <4>2
      <4>. QED BY <4>1, <4>2, <4>3, <4>4, <4>5 DEF HoldsPaths
    <3>5. CASE ~\E m \in own : IsObject(lg[m])
      <4>1. \A x \in DOMAIN e.paths : e.paths[x].item # 0
        BY <2>1, <3>5 DEF HoldsPaths
      <4>2. CASE l.item = 0
        <5>1. q \in DOMAIN j.paths /\ j.paths[q] = lg[n] /\ IsObject(lg[n])
          BY <3>2, <3>3, <4>2
        <5>2. \A x \in own \cup {n} : IsObject(lg[x]) => n <= x
          BY <3>5
        <5>3. \A x \in DOMAIN j.paths : j.paths[x].item = 0 => q <= x
          BY <3>2, <4>1
        <5>. QED BY <5>1, <5>2, <5>3 DEF HoldsPaths
      <4>3. CASE l.item # 0
        <5>1. ~\E x \in own \cup {n} : IsObject(lg[x])
          BY <3>3, <3>5, <4>3
        <5>2. \A x \in DOMAIN j.paths : j.paths[x].item # 0
          BY <3>2, <4>1, <4>3
        <5>. QED BY <5>1, <5>2 DEF HoldsPaths
      <4>. QED BY <4>2, <4>3
    <3>. QED BY <3>4, <3>5
  <2>. QED BY <2>2, <2>3
<1>. QED BY <1>1, <1>4, <1>5, <1>6, <1>7 DEF Holds

--------------------------------------------------------------------------------
(* What a record says of the lines of its event                            *)

\* An event's record says what the lines of the event say.
RecordsSay ==
    LogIs => \A e \in Events : \A own \in SUBSET DOMAIN log :
       Holds(e, own, log) => \A j \in DOMAIN e.fanotify :
          Says(RecordOf(e, e.fanotify[j][1], e.fanotify[j][2]), own)

LEMMA RecordSays == RecordsSay
<1>. SUFFICES ASSUME LogIs, NEW e \in Events, NEW own \in SUBSET DOMAIN log, Holds(e, own, log),
                     NEW j \in DOMAIN e.fanotify
              PROVE  Says(RecordOf(e, e.fanotify[j][1], e.fanotify[j][2]), own)
  BY DEF RecordsSay
<1>1. PICK r, n, fan : /\ n = e.fanotify[j][1] /\ fan = e.fanotify[j][2]
                       /\ r = RecordOf(e, n, fan)
  OBVIOUS
<1>2. PICK path : path = ObjectPath(e)
  OBVIOUS
<1>3. /\ r.line = n /\ r.rule = fan.rule /\ r.perm = Perm(e) /\ r.path = path
      /\ r.exe = IF e.syscall = None THEN None ELSE e.syscall.exe
      /\ r.pid = IF e.syscall = None THEN None ELSE e.syscall.pid
      /\ r.trust = IF path = None THEN None ELSE fan.trust
  BY <1>1, <1>2 DEF RecordOf
<1>4. fan = log[n]
  BY <1>1 DEF Holds, HoldsDecisions
<1>5. \A m \in own : m \in Nat /\ log[m] # None
  <2>1. \A m \in DOMAIN log : m \in Nat /\ log[m] \in AllLines
    BY LogLinesAre
  <2>2. \A x \in AllLines : x # None
    BY LogLinesAssumption DEF AllLines
  <2>. QED BY <2>1, <2>2
<1>6. PICK calls, objects : /\ calls = Typed(own, "SYSCALL")
                            /\ objects = {m \in Typed(own, "PATH") : log[m].item = 0}
  OBVIOUS
<1>7. /\ calls = {m \in own : log[m].type = "SYSCALL"}
      /\ objects = {m \in own : IsObject(log[m])}
  BY <1>6 DEF Typed, IsObject
<1>8. PICK call : call = log[Max(calls)]
  OBVIOUS
<1>9. IF calls = {} THEN e.syscall = None ELSE e.syscall = call /\ e.syscall # None
  <2>1. HoldsCall(e, own, log)
    BY DEF Holds
  <2>2. CASE calls = {}
    BY <1>7, <2>1, <2>2 DEF HoldsCall
  <2>3. CASE calls # {}
    <3>1. PICK m \in own : /\ log[m].type = "SYSCALL" /\ e.syscall = log[m]
                           /\ \A x \in own : log[x].type = "SYSCALL" => x <= m
      BY <1>7, <2>1, <2>3 DEF HoldsCall
    <3>2. m \in calls /\ calls \subseteq Nat /\ \A x \in calls : x <= m
      BY <1>5, <1>7, <3>1
    <3>3. Max(calls) = m
      BY <3>2, MaxIs
    <3>. QED BY <1>5, <1>8, <2>3, <3>1, <3>3
  <2>. QED BY <2>2, <2>3
<1>10. PICK execute : execute = (calls # {} /\ call.exec)
  OBVIOUS
<1>11. Perm(e) = IF execute THEN "execute" ELSE "open"
  BY <1>9, <1>10 DEF Perm
<1>12. /\ Objects(e) = {} <=> objects = {}
       /\ objects # {} => e.paths[Min(Objects(e))] = log[Min(objects)]
  <2>1. HoldsPaths(e, own, log)
    BY DEF Holds
  <2>2. Objects(e) = {i \in DOMAIN e.paths : e.paths[i].item = 0}
    BY DEF Objects
  <2>3. CASE objects = {}
    BY <1>7, <2>1, <2>2, <2>3 DEF HoldsPaths
  <2>4. CASE objects # {}
    <3>1. PICK m \in own, i \in DOMAIN e.paths :
             /\ IsObject(log[m]) /\ e.paths[i] = log[m]
             /\ \A x \in own : IsObject(log[x]) => m <= x
             /\ \A x \in DOMAIN e.paths : e.paths[x].item = 0 => i <= x
      BY <1>7, <2>1, <2>4 DEF HoldsPaths
    <3>2. m \in objects /\ objects \subseteq Nat /\ \A x \in objects : m <= x
      BY <1>5, <1>7, <3>1
    <3>3. e.paths \in Seq(AllLines)
      BY DEF Events
    <3>4. i \in Objects(e) /\ Objects(e) \subseteq Nat /\ \A x \in Objects(e) : i <= x
      BY <2>2, <3>1, <3>3 DEF IsObject
    <3>5. Min(objects) = m /\ Min(Objects(e)) = i
      BY <3>2, <3>4, MinIs
    <3>. QED BY <2>4, <3>1, <3>4, <3>5
  <2>. QED BY <2>3, <2>4
<1>13. PICK named : named = (calls # {} /\ call.items = (IF execute THEN 2 ELSE 1) /\ objects # {})
  OBVIOUS
<1>14. path = IF named THEN log[Min(objects)].name ELSE None
  <2>1. ("execute" = "execute") /\ ~("open" = "execute")
    OBVIOUS
  <2>2. (IF Perm(e) = "execute" THEN 2 ELSE 1) = (IF execute THEN 2 ELSE 1)
    BY <1>11, <2>1
  <2>. QED BY <1>2, <1>9, <1>12, <1>13, <2>2 DEF ObjectPath
<1>15. /\ r.exe = IF calls = {} THEN None ELSE call.exe
       /\ r.pid = IF calls = {} THEN None ELSE call.pid
  BY <1>3, <1>9
<1>16. Says(r, own)
  BY <1>3, <1>4, <1>6, <1>8, <1>10, <1>11, <1>13, <1>14, <1>15 DEF Says
<1>. QED BY <1>1, <1>16

\* LEMMA: a record says the same of lines that are the same in a longer log.
LEMMA SaysSame ==
    ASSUME LogIs, NEW r, NEW own, own \subseteq DOMAIN log,
           \A n \in own \cup {r.line} : log'[n] = log[n], Says(r, own)
    PROVE  Says(r, own)'
<1>1. PICK calls, objects : /\ calls = Typed(own, "SYSCALL")
                            /\ objects = {m \in Typed(own, "PATH") : log[m].item = 0}
  OBVIOUS
<1>2. calls \subseteq own /\ objects \subseteq own
  BY <1>1 DEF Typed
<1>3. /\ calls = Typed(own, "SYSCALL")'
      /\ objects = {m \in Typed(own, "PATH")' : log'[m].item = 0}
  BY <1>1 DEF Typed
<1>4. own \subseteq Nat /\ own \subseteq 0..line /\ line \in Nat
  BY LogLinesAre DEF LogIs
<1>5. calls # {} => log'[Max(calls)] = log[Max(calls)]
  <2>1. SUFFICES ASSUME calls # {} PROVE Max(calls) \in own
    OBVIOUS
  <2>2. calls \subseteq 0..line
    BY <1>2, <1>4
  <2>3. PICK m \in calls : \A x \in calls : x <= m
    BY <1>4, <2>1, <2>2, GreatestElement
  <2>4. calls \subseteq Nat
    BY <1>2, <1>4
  <2>. QED BY <1>2, <2>3, <2>4, MaxIs
<1>6. objects # {} => log'[Min(objects)] = log[Min(objects)]
  <2>1. SUFFICES ASSUME objects # {} PROVE Min(objects) \in own
    OBVIOUS
  <2>2. objects \subseteq Nat
    BY <1>2, <1>4
  <2>3. PICK m \in objects : \A x \in objects : m <= x
    BY <2>1, <2>2, LeastElement
  <2>. QED BY <1>2, <2>2, <2>3, MinIs
<1>7. log'[r.line] = log[r.line]
  OBVIOUS
<1>8. CASE calls = {}
  BY <1>1, <1>3, <1>7, <1>8 DEF Says
<1>9. CASE calls # {} /\ objects = {}
  BY <1>1, <1>3, <1>5, <1>7, <1>9 DEF Says
<1>10. CASE calls # {} /\ objects # {}
  BY <1>1, <1>3, <1>5, <1>6, <1>7, <1>10 DEF Says
<1>. QED BY <1>8, <1>9, <1>10

--------------------------------------------------------------------------------
(* The records of closed events                                            *)

Records == {RecordOf(e, n, f) : e \in Events, n \in Nat, f \in AllLines}

\* Record i of rs is the one of decision f[i] of event g[i]; every decision of
\* the events closed has one, event by event.
Yields(g, f, rs, evs, done) ==
    /\ \A i \in DOMAIN rs :
          /\ g[i] \in done /\ f[i] \in DOMAIN evs[g[i]].fanotify
          /\ rs[i] = RecordOf(evs[g[i]], evs[g[i]].fanotify[f[i]][1], evs[g[i]].fanotify[f[i]][2])
    /\ \A id \in done : \A j \in DOMAIN evs[id].fanotify :
          \E i \in DOMAIN rs : g[i] = id /\ f[i] = j
    /\ \A i, k \in DOMAIN rs : i < k => g[i] < g[k] \/ (g[i] = g[k] /\ f[i] < f[k])

LEMMA CloseIs ==
    ASSUME NEW e \in Events
    PROVE  /\ Close(e) \in Seq(Records) /\ DOMAIN Close(e) = DOMAIN e.fanotify
           /\ \A j \in DOMAIN e.fanotify :
                 Close(e)[j] = RecordOf(e, e.fanotify[j][1], e.fanotify[j][2])
<1>1. e.fanotify \in Seq(Nat \X AllLines)
  BY DEF Events
<1>2. \A j \in DOMAIN e.fanotify : e.fanotify[j][1] \in Nat /\ e.fanotify[j][2] \in AllLines
  BY <1>1
<1>3. \A j \in DOMAIN e.fanotify : RecordOf(e, e.fanotify[j][1], e.fanotify[j][2]) \in Records
  BY <1>2 DEF Records
<1>4. /\ DOMAIN Close(e) = DOMAIN e.fanotify
      /\ \A j \in DOMAIN e.fanotify : Close(e)[j] = RecordOf(e, e.fanotify[j][1], e.fanotify[j][2])
  BY DEF Close
<1>5. Close(e) \in [1..Len(e.fanotify) -> Records]
  <2>1. DOMAIN e.fanotify = 1..Len(e.fanotify)
    BY <1>1
  <2>. QED BY <1>3, <2>1 DEF Close
<1>6. Close(e) \in Seq(Records)
  <2>1. Len(e.fanotify) \in Nat
    BY <1>1
  <2>. QED BY <1>5, <2>1 DEF Seq
<1>. QED BY <1>4, <1>6

\* LEMMA: InOrder yields the records of the events closed, in the order in which
\* they were opened.
LEMMA InOrderYields ==
    ASSUME line \in Nat, NEW evs, NEW done, done \subseteq 1..(line + 1),
           \A id \in done : evs[id] \in Events
    PROVE  /\ InOrder(evs, done) \in Seq(Records)
           /\ \E g, f : Yields(g, f, InOrder(evs, done), evs, done)
<1>1. PICK ss : ss = [n \in 1..(line + 1) |-> IF n \in done THEN Close(evs[n]) ELSE << >>]
  OBVIOUS
<1>2. line + 1 \in Nat /\ DOMAIN ss = 1..(line + 1)
      /\ \A n \in 1..(line + 1) : ss[n] = IF n \in done THEN Close(evs[n]) ELSE << >>
  BY <1>1
<1>3. InOrder(evs, done) = FlattenSeq(ss)
  BY <1>1 DEF InOrder
<1>4. \A n \in 1..(line + 1) : ss[n] \in Seq(Records)
  <2>1. << >> \in Seq(Records)
    OBVIOUS
  <2>. QED BY <1>2, <2>1, CloseIs
<1>5. ss \in Seq(Seq(Records))
  <2>1. ss \in [1..(line + 1) -> Seq(Records)]
    BY <1>1, <1>2, <1>4
  <2>. QED BY <1>2, <2>1 DEF Seq
<1>6. PICK g, f : FlattenSeq(ss) \in Seq(Records) /\ Sources(g, f, ss)
  BY <1>5, FlattenSources
<1>7. PICK rs : rs = FlattenSeq(ss)
  OBVIOUS
<1>8. ASSUME NEW i \in DOMAIN rs
      PROVE  /\ g[i] \in done /\ f[i] \in DOMAIN evs[g[i]].fanotify
             /\ rs[i] = RecordOf(evs[g[i]], evs[g[i]].fanotify[f[i]][1], evs[g[i]].fanotify[f[i]][2])
  <2>1. g[i] \in 1..(line + 1) /\ f[i] \in DOMAIN ss[g[i]] /\ rs[i] = ss[g[i]][f[i]]
    BY <1>2, <1>6, <1>7 DEF Sources
  <2>2. g[i] \in done
    <3>1. DOMAIN << >> = {}
      OBVIOUS
    <3>. QED BY <1>2, <2>1, <3>1
  <2>3. ss[g[i]] = Close(evs[g[i]])
    BY <1>2, <2>1, <2>2
  <2>. QED BY <2>1, <2>2, <2>3, CloseIs
<1>9. ASSUME NEW id \in done, NEW j \in DOMAIN evs[id].fanotify
      PROVE  \E i \in DOMAIN rs : g[i] = id /\ f[i] = j
  <2>1. id \in DOMAIN ss /\ ss[id] = Close(evs[id]) /\ evs[id] \in Events
    BY <1>2
  <2>2. j \in DOMAIN ss[id]
    BY <2>1, CloseIs
  <2>. QED BY <1>6, <1>7, <2>1, <2>2 DEF Sources
<1>10. \A i, k \in DOMAIN rs : i < k => g[i] < g[k] \/ (g[i] = g[k] /\ f[i] < f[k])
  BY <1>6, <1>7 DEF Sources
<1>11. Yields(g, f, rs, evs, done)
  BY <1>8, <1>9, <1>10 DEF Yields
<1>. QED BY <1>3, <1>6, <1>7, <1>11

\* The open events, each with what the lines of its own event gave it: it is
\* kept under its first line, and its latest line is its key's latest line.
Grouped(evs) ==
    \A id \in DOMAIN evs :
       /\ id \in DOMAIN log /\ evs[id] \in Events /\ log[id].key = evs[id].key
       /\ \A m \in EventOf(id) : id <= m
       /\ evs[id].last \in EventOf(id) /\ \A m \in SameKey(id) : m <= evs[id].last
       /\ Holds(evs[id], EventOf(id), log)

\* A record is of a decision in the log and says what the lines of its event say.
Told(r) ==
    /\ r.line \in DOMAIN log /\ log[r.line].type = "FANOTIFY" /\ log[r.line].key \in Keys
    /\ Says(r, EventOf(r.line))

\* The records rs of the events closed: each is told, and of the event g[i];
\* they are ordered by event and then by line; no decision is left out.
Yielded(rs, g, evs, done) ==
    /\ \A i \in DOMAIN rs :
          /\ g[i] \in done /\ Told(rs[i]) /\ EventOf(rs[i].line) = EventOf(g[i])
          /\ rs[i].line \in EventOf(g[i]) /\ Min(EventOf(g[i])) = g[i]
          /\ rs[i].path = ObjectPath(evs[g[i]])
    /\ \A i, k \in DOMAIN rs : i < k => g[i] < g[k] \/ (g[i] = g[k] /\ rs[i].line < rs[k].line)
    /\ \A id \in done : \A n \in EventOf(id) :
          log[n].type = "FANOTIFY" => \E i \in DOMAIN rs : rs[i].line = n

ClosedIsYielded ==
    LogIs => \A evs, done, rs, g, f :
       Grouped(evs) /\ done \subseteq DOMAIN evs /\ Yields(g, f, rs, evs, done)
          => Yielded(rs, g, evs, done)

\* LEMMA: what is yielded by events that are grouped.
LEMMA YieldsAreYielded == ClosedIsYielded
<1>. SUFFICES ASSUME LogIs, NEW evs, NEW done, NEW rs, NEW g, NEW f,
                     Grouped(evs), done \subseteq DOMAIN evs, Yields(g, f, rs, evs, done)
              PROVE  Yielded(rs, g, evs, done)
  BY DEF ClosedIsYielded
<1>1. ASSUME NEW id \in done
      PROVE  /\ id \in DOMAIN log /\ evs[id] \in Events /\ log[id].key \in Keys
             /\ \A m \in EventOf(id) : id <= m
             /\ Holds(evs[id], EventOf(id), log)
             /\ id \in EventOf(id) /\ EventOf(id) \subseteq DOMAIN log
             /\ Min(EventOf(id)) = id
             /\ \A m \in EventOf(id) : EventOf(m) = EventOf(id) /\ log[m].key = log[id].key
  <2>1. /\ id \in DOMAIN log /\ evs[id] \in Events /\ log[id].key = evs[id].key
        /\ \A m \in EventOf(id) : id <= m
        /\ Holds(evs[id], EventOf(id), log)
    BY DEF Grouped
  <2>2. log[id].key \in Keys
    BY <2>1 DEF Events
  <2>3. /\ id \in EventOf(id) /\ EventOf(id) \subseteq DOMAIN log
        /\ \A m \in EventOf(id) : EventOf(m) = EventOf(id) /\ log[m].key = log[id].key
    BY <2>1, LinesHaveEvents DEF EventsOfLines
  <2>4. EventOf(id) \subseteq Nat
    BY <2>3, LogLinesAre
  <2>5. Min(EventOf(id)) = id
    BY <2>1, <2>3, <2>4, MinIs
  <2>. QED BY <2>1, <2>2, <2>3, <2>5
<1>2. ASSUME NEW i \in DOMAIN rs
      PROVE  /\ g[i] \in done /\ f[i] \in DOMAIN evs[g[i]].fanotify
             /\ rs[i].line = evs[g[i]].fanotify[f[i]][1]
             /\ rs[i].line \in EventOf(g[i]) /\ log[rs[i].line].type = "FANOTIFY"
             /\ rs[i].path = ObjectPath(evs[g[i]])
             /\ Says(rs[i], EventOf(g[i]))
  <2>1. PICK id, j, n, fan : /\ id = g[i] /\ j = f[i] /\ n = evs[id].fanotify[j][1]
                             /\ fan = evs[id].fanotify[j][2]
    OBVIOUS
  <2>2. id \in done /\ j \in DOMAIN evs[id].fanotify /\ rs[i] = RecordOf(evs[id], n, fan)
    BY <2>1 DEF Yields
  <2>3. n \in EventOf(id) /\ log[n].type = "FANOTIFY"
    <3>1. HoldsDecisions(evs[id], EventOf(id), log)
      BY <1>1, <2>2 DEF Holds
    <3>. QED BY <2>1, <2>2, <3>1 DEF HoldsDecisions
  <2>4. rs[i].line = n /\ rs[i].path = ObjectPath(evs[id])
    <3>1. PICK e : e = evs[id]
      OBVIOUS
    <3>2. rs[i] = RecordOf(e, n, fan)
      BY <2>2, <3>1
    <3>3. RecordOf(e, n, fan).line = n /\ RecordOf(e, n, fan).path = ObjectPath(e)
      BY DEF RecordOf
    <3>. QED BY <3>1, <3>2, <3>3
  <2>5. Says(rs[i], EventOf(id))
    BY <1>1, <2>1, <2>2, RecordSays DEF RecordsSay
  <2>. QED BY <2>1, <2>2, <2>3, <2>4, <2>5
<1>3. ASSUME NEW i \in DOMAIN rs
      PROVE  /\ g[i] \in done /\ Told(rs[i]) /\ EventOf(rs[i].line) = EventOf(g[i])
             /\ rs[i].line \in EventOf(g[i]) /\ Min(EventOf(g[i])) = g[i]
             /\ rs[i].path = ObjectPath(evs[g[i]])
  <2>1. g[i] \in done /\ rs[i].line \in EventOf(g[i])
    BY <1>2
  <2>2. /\ EventOf(g[i]) \subseteq DOMAIN log /\ Min(EventOf(g[i])) = g[i]
        /\ EventOf(rs[i].line) = EventOf(g[i]) /\ log[rs[i].line].key \in Keys
    BY <1>1, <2>1
  <2>3. Told(rs[i])
    BY <1>2, <2>1, <2>2 DEF Told
  <2>. QED BY <1>2, <2>2, <2>3
<1>4. ASSUME NEW i \in DOMAIN rs, NEW k \in DOMAIN rs, i < k
      PROVE  g[i] < g[k] \/ (g[i] = g[k] /\ rs[i].line < rs[k].line)
  <2>1. CASE g[i] < g[k]
    BY <2>1
  <2>2. CASE g[i] = g[k] /\ f[i] < f[k]
    <3>1. PICK e : e = evs[g[i]]
      OBVIOUS
    <3>2. /\ HoldsDecisions(e, EventOf(g[i]), log)
          /\ f[i] \in DOMAIN e.fanotify /\ f[k] \in DOMAIN e.fanotify
      BY <1>1, <1>2, <2>2, <3>1 DEF Holds
    <3>3. e.fanotify[f[i]][1] < e.fanotify[f[k]][1]
      BY <2>2, <3>2 DEF HoldsDecisions
    <3>. QED BY <1>2, <2>2, <3>1, <3>3
  <2>. QED BY <1>4, <2>1, <2>2 DEF Yields
<1>5. ASSUME NEW id \in done, NEW n \in EventOf(id), log[n].type = "FANOTIFY"
      PROVE  \E i \in DOMAIN rs : rs[i].line = n
  <2>1. PICK j \in DOMAIN evs[id].fanotify : evs[id].fanotify[j][1] = n
    BY <1>1, <1>5 DEF Holds, HoldsDecisions
  <2>2. PICK i \in DOMAIN rs : g[i] = id /\ f[i] = j
    BY DEF Yields
  <2>. QED BY <1>2, <2>1, <2>2
<1>. QED BY <1>3, <1>4, <1>5 DEF Yielded

--------------------------------------------------------------------------------
(* The state after a close                                                 *)

OpenersOf(rs) == {Min(EventOf(rs[i].line)) : i \in {i \in DOMAIN rs : rs[i].path = None}}

NoneTwice(rs) == \A i, j \in DOMAIN rs : rs[i].line = rs[j].line => i = j

\* No record is of an event that is open.
Apart(rs, evs) == \A i \in DOMAIN rs : \A id \in DOMAIN evs : rs[i].line \notin EventOf(id)

\* Every decision is of an event that is open or has its record.
Complete(rs, evs) ==
    \A n \in DOMAIN log : log[n].type = "FANOTIFY" /\ log[n].key \in Keys =>
       \/ \E id \in DOMAIN evs : n \in EventOf(id)
       \/ \E i \in DOMAIN rs : rs[i].line = n

\* The open events evs and the records rs account for the log.
Accounts(rs, evs) ==
    /\ Grouped(evs) /\ \A i \in DOMAIN rs : Told(rs[i])
    /\ NoneTwice(rs) /\ Apart(rs, evs) /\ Complete(rs, evs)

\* So they do once the records rs are released and their events are gone, and
\* the events without a path are new ones.
StillAccounts(o, evs, rs, done) ==
    /\ Accounts(o \o rs, [id \in DOMAIN evs \ done |-> evs[id]])
    /\ OpenersOf(o \o rs) = OpenersOf(o) \cup Pathless(evs, done)
    /\ OpenersOf(o) \cap Pathless(evs, done) = {}
    /\ IsFiniteSet(OpenersOf(o)) /\ IsFiniteSet(Pathless(evs, done))

CloseAccounts ==
    LogIs => \A evs, done, o, rs, g :
       /\ Accounts(o, evs) /\ done \subseteq DOMAIN evs
       /\ o \in Seq(Records) /\ rs \in Seq(Records) /\ Yielded(rs, g, evs, done)
       => StillAccounts(o, evs, rs, done)

\* What the members of p are when it is s and then t.
InRow(p, s, t) ==
    /\ \A i \in DOMAIN s : i \in DOMAIN p /\ p[i] = s[i]
    /\ \A k \in DOMAIN t : Len(s) + k \in DOMAIN p /\ p[Len(s) + k] = t[k]
    /\ \A i \in DOMAIN p : i \in DOMAIN s \/ \E k \in DOMAIN t : i = Len(s) + k

\* LEMMA: the members of two sequences in a row.
LEMMA InBoth ==
    ASSUME NEW S, NEW s \in Seq(S), NEW t \in Seq(S)
    PROVE  s \o t \in Seq(S) /\ InRow(s \o t, s, t)
<1>1. /\ s \o t \in Seq(S) /\ DOMAIN (s \o t) = 1..(Len(s) + Len(t))
      /\ Len(s) \in Nat /\ Len(t) \in Nat /\ DOMAIN s = 1..Len(s) /\ DOMAIN t = 1..Len(t)
  OBVIOUS
<1>2. \A i \in DOMAIN s : i \in DOMAIN (s \o t) /\ (s \o t)[i] = s[i]
  BY <1>1
<1>3. \A k \in DOMAIN t : Len(s) + k \in DOMAIN (s \o t) /\ (s \o t)[Len(s) + k] = t[k]
  BY <1>1
<1>4. ASSUME NEW i \in DOMAIN (s \o t), i \notin DOMAIN s PROVE \E k \in DOMAIN t : i = Len(s) + k
  <2>1. i \in Nat /\ i > Len(s) /\ i <= Len(s) + Len(t)
    BY <1>1, <1>4
  <2>2. i - Len(s) \in 1..Len(t) /\ i = Len(s) + (i - Len(s))
    BY <1>1, <2>1
  <2>. QED BY <1>1, <2>2
<1>. QED BY <1>1, <1>2, <1>3, <1>4 DEF InRow

\* LEMMA: the records and the events that are left account for the log after a
\* close, and the events without a path are counted once.
LEMMA CloseKeepsAccounts == CloseAccounts
<1>. SUFFICES ASSUME LogIs, NEW evs, NEW done, NEW o, NEW rs, NEW g,
                     Accounts(o, evs), done \subseteq DOMAIN evs,
                     o \in Seq(Records), rs \in Seq(Records), Yielded(rs, g, evs, done)
              PROVE  StillAccounts(o, evs, rs, done)
  BY Zenon DEF CloseAccounts
<1>1. PICK p : p = o \o rs
  OBVIOUS
<1>2. PICK left : left = [id \in DOMAIN evs \ done |-> evs[id]]
  OBVIOUS
<1>3. DOMAIN left = DOMAIN evs \ done /\ \A id \in DOMAIN left : left[id] = evs[id]
  BY <1>2
<1>4. PICK b : b = Len(o)
  OBVIOUS
<1>5. /\ p \in Seq(Records)
      /\ \A i \in DOMAIN o : i \in DOMAIN p /\ p[i] = o[i]
      /\ \A k \in DOMAIN rs : b + k \in DOMAIN p /\ p[b + k] = rs[k]
      /\ \A i \in DOMAIN p : i \in DOMAIN o \/ \E k \in DOMAIN rs : i = b + k
  <2>1. o \in Seq(Records) /\ rs \in Seq(Records)
    OBVIOUS
  <2>2. o \o rs \in Seq(Records) /\ InRow(o \o rs, o, rs)
    BY <2>1, InBoth
  <2>3. p \in Seq(Records) /\ InRow(p, o, rs)
    BY <1>1, <2>2
  <2>. QED BY <1>4, <2>3 DEF InRow
<1>6. /\ b \in Nat /\ DOMAIN o = 1..b /\ \A k \in DOMAIN rs : k \in Nat /\ k >= 1
  BY <1>4
<1>7. /\ Grouped(evs) /\ \A i \in DOMAIN o : Told(o[i])
      /\ NoneTwice(o) /\ Apart(o, evs) /\ Complete(o, evs)
  BY DEF Accounts
<1>8. ASSUME NEW n \in DOMAIN log
      PROVE  /\ n \in Nat /\ n \in EventOf(n) /\ EventOf(n) \subseteq DOMAIN log
             /\ \A m \in EventOf(n) : EventOf(m) = EventOf(n)
  BY LinesHaveEvents DEF EventsOfLines
<1>9. ASSUME NEW id \in DOMAIN evs
      PROVE  id \in DOMAIN log /\ Min(EventOf(id)) = id
  <2>1. id \in DOMAIN log /\ \A m \in EventOf(id) : id <= m
    BY <1>7 DEF Grouped
  <2>2. id \in EventOf(id) /\ EventOf(id) \subseteq Nat
    BY <1>8, <2>1, LogLinesAre
  <2>. QED BY <2>1, <2>2, MinIs
<1>10. \A k \in DOMAIN rs :
          /\ g[k] \in done /\ Told(rs[k]) /\ EventOf(rs[k].line) = EventOf(g[k])
          /\ rs[k].line \in EventOf(g[k]) /\ Min(EventOf(g[k])) = g[k]
          /\ rs[k].path = ObjectPath(evs[g[k]])
  BY DEF Yielded
<1>11. Grouped(left)
  BY <1>3, <1>7 DEF Grouped
<1>12. \A i \in DOMAIN p : Told(p[i])
  BY <1>5, <1>7, <1>10
<1>13. NoneTwice(p)
  <2>1. ASSUME NEW i \in DOMAIN o, NEW k \in DOMAIN rs PROVE o[i].line # rs[k].line
    BY <1>7, <1>10 DEF Apart
  <2>2. ASSUME NEW i \in DOMAIN rs, NEW k \in DOMAIN rs, i < k PROVE rs[i].line # rs[k].line
    <3>1. CASE g[i] < g[k]
      <4>1. g[i] # g[k]
        <5>1. g[i] \in Nat /\ g[k] \in Nat
          BY <1>8, <1>9, <1>10
        <5>. QED BY <3>1, <5>1
      <4>. QED BY <1>10, <4>1
    <3>2. CASE rs[i].line < rs[k].line
      <4>1. rs[i].line \in Nat /\ rs[k].line \in Nat
        BY <1>8, <1>10 DEF Told
      <4>. QED BY <3>2, <4>1
    <3>. QED BY <2>2, <3>1, <3>2 DEF Yielded
  <2>3. ASSUME NEW i \in DOMAIN rs, NEW k \in DOMAIN rs, rs[i].line = rs[k].line PROVE i = k
    <3>1. i \in Nat /\ k \in Nat /\ ~(i < k) /\ ~(k < i)
      BY <1>6, <2>2, <2>3
    <3>. QED BY <3>1
  <2>4. ASSUME NEW i \in DOMAIN p, NEW k \in DOMAIN p, p[i].line = p[k].line PROVE i = k
    <3>1. CASE i \in DOMAIN o /\ k \in DOMAIN o
      BY <1>5, <1>7, <2>4, <3>1 DEF NoneTwice
    <3>2. CASE i \in DOMAIN o /\ k \notin DOMAIN o
      BY <1>5, <2>1, <2>4, <3>2
    <3>3. CASE i \notin DOMAIN o /\ k \in DOMAIN o
      BY <1>5, <2>1, <2>4, <3>3
    <3>4. CASE i \notin DOMAIN o /\ k \notin DOMAIN o
      BY <1>5, <2>3, <2>4, <3>4
    <3>. QED BY <3>1, <3>2, <3>3, <3>4
  <2>. QED BY <2>4 DEF NoneTwice
<1>14. Apart(p, left)
  <2>1. ASSUME NEW k \in DOMAIN rs, NEW id \in DOMAIN left PROVE rs[k].line \notin EventOf(id)
    <3>1. SUFFICES ASSUME rs[k].line \in EventOf(id) PROVE FALSE
      OBVIOUS
    <3>2. id \in DOMAIN evs /\ id \notin done /\ g[k] \in done
      BY <1>3, <1>10
    <3>3. EventOf(g[k]) = EventOf(id)
      BY <1>8, <1>9, <1>10, <3>1, <3>2
    <3>4. g[k] = id
      BY <1>9, <1>10, <3>2, <3>3
    <3>. QED BY <3>2, <3>4
  <2>2. \A i \in DOMAIN o : \A id \in DOMAIN left : o[i].line \notin EventOf(id)
    BY <1>3, <1>7 DEF Apart
  <2>. QED BY <1>5, <2>1, <2>2 DEF Apart
<1>15. Complete(p, left)
  <2>1. ASSUME NEW n \in DOMAIN log, log[n].type = "FANOTIFY", log[n].key \in Keys
        PROVE  \/ \E id \in DOMAIN left : n \in EventOf(id)
               \/ \E i \in DOMAIN p : p[i].line = n
    <3>1. CASE \E i \in DOMAIN o : o[i].line = n
      BY <1>5, <3>1
    <3>2. CASE \E id \in DOMAIN evs : n \in EventOf(id)
      <4>1. PICK id \in DOMAIN evs : n \in EventOf(id)
        BY <3>2
      <4>2. CASE id \in done
        <5>1. PICK k \in DOMAIN rs : rs[k].line = n
          BY <2>1, <4>1, <4>2 DEF Yielded
        <5>. QED BY <1>5, <5>1
      <4>3. CASE id \notin done
        BY <1>3, <4>1, <4>3
      <4>. QED BY <4>2, <4>3
    <3>. QED BY <1>7, <2>1, <3>1, <3>2 DEF Complete
  <2>. QED BY <2>1 DEF Complete
<1>16. OpenersOf(p) = OpenersOf(o) \cup Pathless(evs, done)
  <2>1. ASSUME NEW k \in DOMAIN rs, rs[k].path = None
        PROVE  Min(EventOf(rs[k].line)) \in Pathless(evs, done)
    <3>1. PICK id : id = g[k]
      OBVIOUS
    <3>2. id \in done /\ Min(EventOf(rs[k].line)) = id /\ ObjectPath(evs[id]) = None
          /\ rs[k].line \in EventOf(id) /\ log[rs[k].line].type = "FANOTIFY"
      BY <1>10, <2>1, <3>1 DEF Told
    <3>3. HoldsDecisions(evs[id], EventOf(id), log)
      BY <1>7, <3>2 DEF Grouped, Holds
    <3>4. \E j \in DOMAIN evs[id].fanotify : evs[id].fanotify[j][1] = rs[k].line
      BY <3>2, <3>3 DEF HoldsDecisions
    <3>5. DOMAIN << >> = {}
      OBVIOUS
    <3>6. evs[id].fanotify # << >>
      BY <3>4, <3>5
    <3>. QED BY <3>2, <3>6 DEF Pathless
  <2>2. ASSUME NEW id \in Pathless(evs, done) PROVE id \in OpenersOf(p)
    <3>1. id \in done /\ id \in DOMAIN evs /\ evs[id].fanotify # << >> /\ ObjectPath(evs[id]) = None
      BY <2>2 DEF Pathless
    <3>2. HoldsDecisions(evs[id], EventOf(id), log) /\ evs[id] \in Events
      BY <1>7, <3>1 DEF Grouped, Holds
    <3>3. evs[id].fanotify \in Seq(Nat \X AllLines)
      BY <3>2 DEF Events
    <3>4. 1 \in DOMAIN evs[id].fanotify
      BY <3>1, <3>3
    <3>5. PICK n : n = evs[id].fanotify[1][1]
      OBVIOUS
    <3>6. n \in EventOf(id) /\ log[n].type = "FANOTIFY"
      BY <3>2, <3>4, <3>5 DEF HoldsDecisions
    <3>7. PICK k \in DOMAIN rs : rs[k].line = n
      BY <3>1, <3>6 DEF Yielded
    <3>8. EventOf(n) = EventOf(id)
      BY <1>8, <1>9, <3>1, <3>6
    <3>9. Min(EventOf(rs[k].line)) = id
      BY <1>9, <3>1, <3>7, <3>8
    <3>10. g[k] = id
      BY <1>10, <3>9
    <3>11. rs[k].path = None
      BY <1>10, <3>1, <3>10
    <3>12. b + k \in DOMAIN p /\ p[b + k] = rs[k]
      BY <1>5
    <3>. QED BY <3>9, <3>11, <3>12 DEF OpenersOf
  <2>3. ASSUME NEW x \in OpenersOf(p) PROVE x \in OpenersOf(o) \/ x \in Pathless(evs, done)
    <3>1. PICK i \in DOMAIN p : p[i].path = None /\ x = Min(EventOf(p[i].line))
      BY DEF OpenersOf
    <3>2. CASE i \in DOMAIN o
      <4>1. p[i] = o[i]
        BY <1>5, <3>2
      <4>. QED BY <3>1, <3>2, <4>1 DEF OpenersOf
    <3>3. CASE i \notin DOMAIN o
      <4>1. PICK k \in DOMAIN rs : p[i] = rs[k]
        BY <1>5, <3>3
      <4>. QED BY <2>1, <3>1, <4>1
    <3>. QED BY <3>2, <3>3
  <2>4. ASSUME NEW x \in OpenersOf(o) PROVE x \in OpenersOf(p)
    <3>1. PICK i \in DOMAIN o : o[i].path = None /\ x = Min(EventOf(o[i].line))
      BY DEF OpenersOf
    <3>2. i \in DOMAIN p /\ p[i] = o[i]
      BY <1>5
    <3>. QED BY <3>1, <3>2 DEF OpenersOf
  <2>. QED BY <2>2, <2>3, <2>4
<1>17. ASSUME NEW x \in OpenersOf(o)
       PROVE  x \in DOMAIN log /\ \E i \in DOMAIN o : EventOf(x) = EventOf(o[i].line)
  <2>1. PICK i \in DOMAIN o : x = Min(EventOf(o[i].line))
    BY DEF OpenersOf
  <2>2. PICK n : n = o[i].line
    OBVIOUS
  <2>3. n \in DOMAIN log
    BY <1>7, <2>2 DEF Told
  <2>4. EventOf(n) \subseteq Nat /\ EventOf(n) # {}
    BY <1>8, <2>3, LogLinesAre
  <2>5. PICK m \in EventOf(n) : \A y \in EventOf(n) : m <= y
    BY <2>4, LeastElement
  <2>6. x = m
    BY <2>1, <2>2, <2>4, <2>5, MinIs
  <2>. QED BY <1>8, <2>2, <2>3, <2>5, <2>6
<1>18. OpenersOf(o) \cap Pathless(evs, done) = {}
  <2>1. SUFFICES ASSUME NEW x \in OpenersOf(o), x \in Pathless(evs, done) PROVE FALSE
    OBVIOUS
  <2>2. x \in DOMAIN evs
    BY <2>1 DEF Pathless
  <2>3. PICK i \in DOMAIN o : EventOf(x) = EventOf(o[i].line)
    BY <1>17
  <2>4. o[i].line \in DOMAIN log
    BY <1>7 DEF Told
  <2>5. o[i].line \in EventOf(x)
    BY <1>8, <2>3, <2>4
  <2>. QED BY <1>7, <2>2, <2>5 DEF Apart
<1>19. IsFiniteSet(OpenersOf(o)) /\ IsFiniteSet(Pathless(evs, done))
  <2>1. IsFiniteSet(DOMAIN log)
    BY FS_Interval DEF LogIs
  <2>2. OpenersOf(o) \subseteq DOMAIN log
    BY <1>17
  <2>3. Pathless(evs, done) \subseteq DOMAIN log
    BY <1>9 DEF Pathless
  <2>. QED BY <2>1, <2>2, <2>3, FS_Subset
<1>20. Accounts(p, left)
  BY <1>11, <1>12, <1>13, <1>14, <1>15 DEF Accounts
<1>. QED BY <1>1, <1>2, <1>16, <1>18, <1>19, <1>20 DEF StillAccounts

--------------------------------------------------------------------------------
(* The invariant of the records                                            *)

\* No line is near enough to join the event of line n any more.
Settled(n) == closeAfter # Never /\ \A m \in EventOf(n) : line - m > closeAfter

\* The event of a line is open until it is settled.
Placed ==
    ~ended => \A n \in DOMAIN log :
       log[n].key \in Keys => Settled(n) \/ \E id \in DOMAIN events : n \in EventOf(id)

RuleLess == {r \in Records : r.rule = 0}

InOrderOfEvents(rs) ==
    \A i, j \in DOMAIN rs : i < j =>
       LET a == Min(EventOf(rs[i].line))
           b == Min(EventOf(rs[j].line))
       IN  a < b \/ (a = b /\ rs[i].line < rs[j].line)

\* The records and the open events as they are account for the log.
Reported ==
    \E rs, evs :
       /\ rs = out /\ evs = events /\ rs \in Seq(Records) /\ Accounts(rs, evs)
       /\ noRule = NumberOf(rs, RuleLess) /\ noPath = Cardinality(OpenersOf(rs))
       /\ closeAfter = Never => InOrderOfEvents(rs) /\ (~ended => rs = << >>)

ReportInv == IInv /\ LogIs /\ (ended => DOMAIN events = {}) /\ Placed /\ Reported

\* LEMMA: what the close at the end of a call leaves, from what it found.
LEMMA Closing ==
    ASSUME NEW evs, NEW done, NEW o, CloseAll(evs, done), out = o, done \subseteq DOMAIN evs,
           line \in Nat, done \subseteq 1..(line + 1), LogIs', o \in Seq(Records), Accounts(o, evs)',
           noRule = NumberOf(o, RuleLess), noPath = Cardinality(OpenersOf(o)')
    PROVE  \E p, left, rs, g :
              /\ p = out' /\ left = events' /\ p \in Seq(Records) /\ Accounts(p, left)'
              /\ noRule' = NumberOf(p, RuleLess) /\ noPath' = Cardinality(OpenersOf(p)')
              /\ p = o \o rs /\ rs \in Seq(Records) /\ Yielded(rs, g, evs, done)'
              /\ left = [id \in DOMAIN evs \ done |-> evs[id]]
<1>1. PICK rs : rs = InOrder(evs, done)
  OBVIOUS
<1>2. PICK left : left = [id \in DOMAIN evs \ done |-> evs[id]]
  OBVIOUS
<1>3. PICK p : p = o \o rs
  OBVIOUS
<1>4. /\ events' = left /\ out' = p
      /\ noRule' = noRule + Cardinality({i \in DOMAIN rs : rs[i].rule = 0})
      /\ noPath' = noPath + Cardinality(Pathless(evs, done))
  BY <1>1, <1>2, <1>3 DEF CloseAll
<1>5. Grouped(evs)'
  BY DEF Accounts
<1>6. \A id \in done : evs[id] \in Events
  BY <1>5 DEF Grouped
<1>7. rs \in Seq(Records) /\ \E g, f : Yields(g, f, rs, evs, done)
  BY <1>1, <1>6, InOrderYields
<1>8. PICK g, f : Yields(g, f, rs, evs, done)
  BY <1>7
<1>9. Yielded(rs, g, evs, done)'
  <2>1. ClosedIsYielded'
    BY YieldsAreYielded, PTL
  <2>. QED BY <1>5, <1>8, <2>1 DEF ClosedIsYielded
<1>10. /\ Accounts(o \o rs, [id \in DOMAIN evs \ done |-> evs[id]])'
       /\ OpenersOf(o \o rs)' = OpenersOf(o)' \cup Pathless(evs, done)
       /\ OpenersOf(o)' \cap Pathless(evs, done) = {}
       /\ IsFiniteSet(OpenersOf(o)') /\ IsFiniteSet(Pathless(evs, done))
  <2>1. CloseAccounts'
    BY CloseKeepsAccounts, PTL
  <2>2. StillAccounts(o, evs, rs, done)'
    BY <1>7, <1>9, <2>1 DEF CloseAccounts
  <2>3. Pathless(evs, done)' = Pathless(evs, done)
    BY DEF Pathless
  <2>. QED BY <2>2, <2>3 DEF StillAccounts
<1>11. Accounts(p, left)' /\ OpenersOf(p)' = OpenersOf(o)' \cup Pathless(evs, done)
  BY <1>2, <1>3, <1>10
<1>12. noPath' = Cardinality(OpenersOf(p)')
  <2>1. PICK A, B : A = OpenersOf(o)' /\ B = Pathless(evs, done)
    OBVIOUS
  <2>2. IsFiniteSet(A) /\ IsFiniteSet(B) /\ A \cap B = {}
    BY <1>10, <2>1
  <2>3. Cardinality(A \cup B) = Cardinality(A) + Cardinality(B)
    <3>1. Cardinality(A \cup B) = Cardinality(A) + Cardinality(B) - Cardinality(A \cap B)
      BY <2>2, FS_Union
    <3>2. Cardinality(A \cap B) = 0
      BY <2>2, FS_EmptySet
    <3>3. Cardinality(A) \in Nat /\ Cardinality(B) \in Nat
      BY <2>2, FS_CardinalityType
    <3>. QED BY <3>1, <3>2, <3>3
  <2>. QED BY <1>4, <1>11, <2>1, <2>3
<1>13. noRule' = NumberOf(p, RuleLess)
  <2>1. NumberOf(p, RuleLess) = NumberOf(o, RuleLess) + NumberOf(rs, RuleLess)
    BY <1>3, <1>7, NumberConcat
  <2>2. {i \in DOMAIN rs : rs[i].rule = 0} = Positions(rs, RuleLess)
    <3>1. \A i \in DOMAIN rs : rs[i] \in Records
      BY <1>7
    <3>. QED BY <3>1 DEF Positions, RuleLess
  <2>. QED BY <1>4, <2>1, <2>2 DEF NumberOf
<1>14. p \in Seq(Records)
  BY <1>3, <1>7
<1>. QED BY <1>2, <1>3, <1>4, <1>7, <1>9, <1>11, <1>12, <1>13, <1>14

--------------------------------------------------------------------------------
(* One more line, and the records and events so far                        *)

\* LEMMA: the event of a record is settled.
LEMMA RecordsSettled ==
    ASSUME ReportInv, ~ended, NEW i \in DOMAIN out
    PROVE  out[i].line \in DOMAIN log /\ Settled(out[i].line) /\ Told(out[i])
<1>1. Accounts(out, events)
  BY DEF ReportInv, Reported
<1>2. Told(out[i]) /\ \A id \in DOMAIN events : out[i].line \notin EventOf(id)
  BY <1>1 DEF Accounts, Apart
<1>3. out[i].line \in DOMAIN log /\ log[out[i].line].key \in Keys
  BY <1>2 DEF Told
<1>. QED BY <1>2, <1>3 DEF ReportInv, Placed

\* LEMMA: a line that comes now does not join an event that is settled, and
\* joins the open event of its own key.
LEMMA OneMoreLine ==
    ASSUME ReportInv, ~ended, NEW l \in LogLines[closeAfter], log' = Append(log, l),
           line' = line + 1, closeAfter' = closeAfter, NEW N, N = line + 1
    PROVE  /\ l \in AllLines /\ N \in Nat
           /\ \A n \in DOMAIN log : Settled(n) => EventOf(n)' = EventOf(n)
           /\ \A id \in DOMAIN events :
                 EventOf(id)' = IF l.key = events[id].key THEN EventOf(id) \cup {N} ELSE EventOf(id)
           /\ l.key \in Keys \ DOMAIN at => EventOf(N)' = {N}
<1>1. /\ LogIs /\ line \in Nat /\ N \in Nat /\ closeAfter \in DOMAIN LogLines
      /\ closeAfter \in Nat \cup {Never}
  BY CloseAssumption DEF ReportInv, IInv, TypeOK, LogIs
<1>2. l \in AllLines
  BY <1>1 DEF AllLines
<1>3. ASSUME NEW n \in DOMAIN log, Settled(n) PROVE EventOf(n)' = EventOf(n)
  <2>1. PICK p \in SameKey(n) : \A m \in SameKey(n) : m <= p
    BY <1>1, LatestOfKey
  <2>2. ~(p \in EventOf(n) /\ Near(p, line + 1))
    <3>1. SUFFICES ASSUME p \in EventOf(n), Near(p, line + 1) PROVE FALSE
      OBVIOUS
    <3>2. closeAfter # Never /\ line - p > closeAfter /\ (line + 1) - p <= closeAfter + 1
      BY <1>3, <3>1 DEF Settled, Near
    <3>3. p \in Nat /\ closeAfter \in Nat
      BY <1>1, <2>1, <3>2, OwnEvent, LogLinesAre
    <3>. QED BY <1>1, <3>2, <3>3
  <2>. QED BY <1>1, <1>2, <2>1, <2>2, EventGrows
<1>4. Grouped(events)
  BY DEF ReportInv, Reported, Accounts
<1>5. ASSUME NEW id \in DOMAIN events
      PROVE  EventOf(id)' = IF l.key = events[id].key THEN EventOf(id) \cup {N} ELSE EventOf(id)
  <2>1. PICK p : p = events[id].last
    OBVIOUS
  <2>2. /\ id \in DOMAIN log /\ log[id].key = events[id].key
        /\ p \in EventOf(id) /\ \A m \in SameKey(id) : m <= p
    BY <1>4, <2>1 DEF Grouped
  <2>3. p \in SameKey(id) /\ p \in Nat
    BY <1>1, <2>2, OwnEvent, LogLinesAre
  <2>4. Near(p, line + 1)
    <3>1. closeAfter # Never => line - p <= closeAfter
      BY <2>1 DEF ReportInv, IInv, Young
    <3>2. ASSUME closeAfter # Never PROVE (line + 1) - p <= closeAfter + 1
      BY <1>1, <2>3, <3>1, <3>2
    <3>. QED BY <3>2 DEF Near
  <2>. QED BY <1>1, <1>2, <2>2, <2>3, <2>4, EventGrows
<1>6. ASSUME l.key \in Keys \ DOMAIN at PROVE EventOf(N)' = {N}
  <2>1. /\ N \in EventOf(N)' /\ EventOf(N)' \subseteq DOMAIN log \cup {N}
        /\ \A m \in DOMAIN log : m \in EventOf(N)' <=> N \in EventOf(m)'
    BY <1>1, <1>2, EventStarts
  <2>2. ASSUME NEW m \in DOMAIN log PROVE N \notin EventOf(m)'
    <3>1. N \notin EventOf(m) /\ EventOf(m) \subseteq DOMAIN log
      <4>1. EventOf(m) \subseteq DOMAIN log
        BY <1>1, LinesHaveEvents DEF EventsOfLines
      <4>2. N \notin DOMAIN log
        BY <1>1, LogLinesAre
      <4>. QED BY <4>1, <4>2
    <3>2. PICK p \in SameKey(m) : \A q \in SameKey(m) : q <= p
      BY <1>1, LatestOfKey
    <3>3. EventOf(m)' = IF l.key = log[m].key /\ p \in EventOf(m) /\ Near(p, line + 1)
                        THEN EventOf(m) \cup {line + 1} ELSE EventOf(m)
      BY <1>1, <1>2, <3>2, EventGrows
    <3>4. CASE Settled(m)
      BY <1>3, <3>1, <3>4
    <3>5. CASE \E id \in DOMAIN events : m \in EventOf(id)
      <4>1. PICK id \in DOMAIN events : m \in EventOf(id)
        BY <3>5
      <4>2. id \in DOMAIN log /\ log[id].key = events[id].key
        BY <1>4 DEF Grouped
      <4>3. log[m].key = events[id].key
        BY <1>1, <4>1, <4>2, LinesHaveEvents DEF EventsOfLines
      <4>4. events[id].key \in DOMAIN at
        BY DEF ReportInv, IInv, IndexMatches
      <4>5. l.key # log[m].key
        BY <1>6, <4>3, <4>4
      <4>. QED BY <3>1, <3>3, <4>5
    <3>6. CASE log[m].key \notin Keys
      <4>1. l.key # log[m].key
        BY <1>6, <3>6
      <4>. QED BY <3>1, <3>3, <4>1
    <3>7. log[m].key \in Keys => Settled(m) \/ \E id \in DOMAIN events : m \in EventOf(id)
      BY DEF ReportInv, Placed
    <3>. QED BY <3>4, <3>5, <3>6, <3>7
  <2>. QED BY <2>1, <2>2
<1>. QED BY <1>1, <1>2, <1>3, <1>5, <1>6

\* LEMMA: the records so far are told of the longer log as they were of the log,
\* and count the same events.
LEMMA RecordsStay ==
    ASSUME ReportInv, ~ended, NEW l \in LogLines[closeAfter], log' = Append(log, l),
           line' = line + 1, closeAfter' = closeAfter, NEW o, o = out
    PROVE  /\ \A i \in DOMAIN o : Told(o[i])' /\ o[i].line \in DOMAIN log
           /\ OpenersOf(o)' = OpenersOf(o)
<1>1. PICK N : N = line + 1
  OBVIOUS
<1>2. /\ l \in AllLines
      /\ \A n \in DOMAIN log : Settled(n) => EventOf(n)' = EventOf(n)
  BY <1>1, OneMoreLine
<1>3. LogIs
  BY DEF ReportInv
<1>4. /\ DOMAIN log' = DOMAIN log \cup {N} /\ \A n \in DOMAIN log : log'[n] = log[n]
  BY <1>1, <1>2, <1>3, LogGrows
<1>5. ASSUME NEW i \in DOMAIN o
      PROVE  o[i].line \in DOMAIN log /\ EventOf(o[i].line)' = EventOf(o[i].line) /\ Told(o[i])
  BY <1>2, RecordsSettled
<1>6. ASSUME NEW i \in DOMAIN o PROVE Told(o[i])'
  <2>1. PICK r, n, own : r = o[i] /\ n = r.line /\ own = EventOf(n)
    OBVIOUS
  <2>2. n \in DOMAIN log /\ EventOf(n)' = own /\ log[n].type = "FANOTIFY" /\ log[n].key \in Keys
        /\ Says(r, own)
    BY <1>5, <2>1 DEF Told
  <2>3. own \subseteq DOMAIN log
    BY <1>3, <2>1, <2>2, LinesHaveEvents DEF EventsOfLines
  <2>4. \A m \in own \cup {r.line} : log'[m] = log[m]
    BY <1>4, <2>1, <2>2, <2>3
  <2>5. Says(r, own)'
    BY <1>3, <2>2, <2>3, <2>4, SaysSame
  <2>6. r.line \in DOMAIN log' /\ log'[r.line].type = "FANOTIFY" /\ log'[r.line].key \in Keys
    BY <1>4, <2>1, <2>2
  <2>7. Says(r, EventOf(r.line))'
    BY <2>1, <2>2, <2>5
  <2>8. Told(r)'
    BY <2>6, <2>7 DEF Told
  <2>. QED BY <2>1, <2>8
<1>7. OpenersOf(o)' = OpenersOf(o)
  BY <1>5 DEF OpenersOf
<1>. QED BY <1>5, <1>6, <1>7

\* LEMMA: one call of feed, from what the line makes of the open events.
LEMMA Taken ==
    ASSUME ReportInv, IInv', ~ended, ~ended', NEW l \in LogLines[closeAfter], log' = Append(log, l),
           line' = line + 1, closeAfter' = closeAfter, NEW N, N = line + 1,
           NEW evs, NEW done, CloseAll(evs, done), DOMAIN evs \subseteq 1..N,
           \A id : id \in done <=>
              id \in DOMAIN evs /\ closeAfter # Never /\ N - evs[id].last > closeAfter,
           Grouped(evs)', DOMAIN events \subseteq DOMAIN evs,
           \A id \in DOMAIN evs : id \in DOMAIN events \/ (id = N /\ EventOf(N)' = {N}),
           l.key \in Keys => \E id \in DOMAIN evs : N \in EventOf(id)'
    PROVE  ReportInv'
<1>1. /\ LogIs /\ line \in Nat /\ N \in Nat /\ closeAfter \in Nat \cup {Never}
  BY CloseAssumption DEF ReportInv, IInv, TypeOK, LogIs
<1>2. /\ l \in AllLines
      /\ \A n \in DOMAIN log : Settled(n) => EventOf(n)' = EventOf(n)
      /\ \A id \in DOMAIN events :
            EventOf(id)' = IF l.key = events[id].key THEN EventOf(id) \cup {N} ELSE EventOf(id)
  BY OneMoreLine
<1>3. /\ LogIs' /\ DOMAIN log' = DOMAIN log \cup {N} /\ N \notin DOMAIN log
      /\ log'[N] = l /\ \A n \in DOMAIN log : log'[n] = log[n]
  BY <1>1, <1>2, LogGrows
<1>4. PICK o, e0 :
         /\ o = out /\ e0 = events /\ o \in Seq(Records) /\ Accounts(o, e0)
         /\ noRule = NumberOf(o, RuleLess) /\ noPath = Cardinality(OpenersOf(o))
         /\ closeAfter = Never => InOrderOfEvents(o) /\ (~ended => o = << >>)
  BY DEF ReportInv, Reported
<1>5. /\ \A i \in DOMAIN o : Told(o[i])' /\ o[i].line \in DOMAIN log
      /\ OpenersOf(o)' = OpenersOf(o)
  BY <1>4, RecordsStay
<1>6. ASSUME NEW id \in DOMAIN events
      PROVE  EventOf(id) \subseteq EventOf(id)' /\ EventOf(id)' \subseteq EventOf(id) \cup {N}
  BY <1>2
<1>7. Accounts(o, evs)'
  <2>1. NoneTwice(o)'
    BY <1>4 DEF Accounts, NoneTwice
  <2>2. Apart(o, evs)'
    <3>1. ASSUME NEW i \in DOMAIN o, NEW id \in DOMAIN evs PROVE o[i].line \notin EventOf(id)'
      <4>1. o[i].line # N
        BY <1>3, <1>5
      <4>2. CASE id \in DOMAIN events
        <5>1. o[i].line \notin EventOf(id)
          BY <1>4, <4>2 DEF Accounts, Apart
        <5>. QED BY <1>6, <4>1, <4>2, <5>1
      <4>3. CASE id \notin DOMAIN events
        BY <4>1, <4>3
      <4>. QED BY <4>2, <4>3
    <3>. QED BY <3>1 DEF Apart
  <2>3. Complete(o, evs)'
    <3>1. ASSUME NEW n \in DOMAIN log', log'[n].type = "FANOTIFY", log'[n].key \in Keys
          PROVE  (\E id \in DOMAIN evs : n \in EventOf(id)') \/ \E i \in DOMAIN o : o[i].line = n
      <4>1. CASE n = N
        BY <1>3, <3>1, <4>1
      <4>2. CASE n # N
        <5>1. n \in DOMAIN log /\ log[n].type = "FANOTIFY" /\ log[n].key \in Keys
          BY <1>3, <3>1, <4>2
        <5>2. (\E id \in DOMAIN events : n \in EventOf(id)) \/ \E i \in DOMAIN o : o[i].line = n
          BY <1>4, <5>1 DEF Accounts, Complete
        <5>. QED BY <1>6, <5>2
      <4>. QED BY <4>1, <4>2
    <3>. QED BY <3>1 DEF Complete
  <2>4. \A i \in DOMAIN o : Told(o[i])'
    BY <1>5
  <2>. QED BY <2>1, <2>2, <2>3, <2>4 DEF Accounts
<1>8. done \subseteq DOMAIN evs /\ done \subseteq 1..(line + 1)
  OBVIOUS
<1>9. noPath = Cardinality(OpenersOf(o)')
  BY <1>4, <1>5
<1>10. PICK p, left, rs, g :
          /\ p = out' /\ left = events' /\ p \in Seq(Records) /\ Accounts(p, left)'
          /\ noRule' = NumberOf(p, RuleLess) /\ noPath' = Cardinality(OpenersOf(p)')
          /\ p = o \o rs /\ rs \in Seq(Records) /\ Yielded(rs, g, evs, done)'
          /\ left = [id \in DOMAIN evs \ done |-> evs[id]]
  <2>1. /\ CloseAll(evs, done) /\ out = o /\ done \subseteq DOMAIN evs
        /\ line \in Nat /\ done \subseteq 1..(line + 1) /\ LogIs' /\ o \in Seq(Records)
        /\ Accounts(o, evs)' /\ noRule = NumberOf(o, RuleLess)
        /\ noPath = Cardinality(OpenersOf(o)')
    BY <1>1, <1>3, <1>4, <1>7, <1>8, <1>9
  <2>. QED BY <2>1, Closing, Zenon
<1>11. closeAfter = Never => p = << >>
  <2>1. SUFFICES ASSUME closeAfter = Never PROVE p = << >>
    OBVIOUS
  <2>2. done = {} /\ o = << >>
    BY <1>4, <2>1
  <2>3. DOMAIN rs = {}
    BY <1>10, <2>2 DEF Yielded
  <2>4. rs = << >>
    BY <1>10, <2>3
  <2>. QED BY <1>10, <2>2, <2>4
<1>12. Placed'
  <2>1. ASSUME NEW n \in DOMAIN log', log'[n].key \in Keys
        PROVE  Settled(n)' \/ \E id \in DOMAIN left : n \in EventOf(id)'
    <3>1. ASSUME NEW id \in DOMAIN evs, n \in EventOf(id)'
          PROVE  Settled(n)' \/ \E i \in DOMAIN left : n \in EventOf(i)'
      <4>1. CASE id \notin done
        <5>1. id \in DOMAIN left
          BY <1>10, <4>1
        <5>. QED BY <3>1, <5>1
      <4>2. CASE id \in done
        <5>1. closeAfter # Never /\ N - evs[id].last > closeAfter
          BY <4>2
        <5>2. EventsOfLines'
          BY LinesHaveEvents, PTL
        <5>3. id \in DOMAIN log' /\ \A m \in SameKey(id)' : m <= evs[id].last
          BY DEF Grouped
        <5>4. EventOf(n)' = EventOf(id)' /\ EventOf(id)' \subseteq SameKey(id)'
              /\ EventOf(id)' \subseteq DOMAIN log'
          BY <1>3, <3>1, <5>2, <5>3 DEF EventsOfLines
        <5>5. evs[id].last \in Nat
          BY DEF Grouped, Events
        <5>6. ASSUME NEW m \in EventOf(n)' PROVE line' - m > closeAfter'
          <6>1. m <= evs[id].last
            BY <5>3, <5>4
          <6>2. m \in Nat
            BY <1>3, <5>2, <5>4 DEF EventsOfLines
          <6>3. closeAfter \in Nat
            BY <1>1, <5>1
          <6>. QED BY <1>1, <5>1, <5>5, <6>1, <6>2, <6>3
        <5>. QED BY <5>1, <5>6 DEF Settled
      <4>. QED BY <4>1, <4>2
    <3>2. CASE n = N
      BY <1>3, <2>1, <3>1, <3>2
    <3>3. CASE n # N
      <4>1. n \in DOMAIN log /\ log[n].key \in Keys
        BY <1>3, <2>1, <3>3
      <4>2. CASE Settled(n)
        <5>1. EventOf(n)' = EventOf(n)
          BY <1>2, <4>1, <4>2
        <5>2. ASSUME NEW m \in EventOf(n) PROVE (line + 1) - m > closeAfter
          <6>1. m \in Nat
            BY <1>1, <4>1, LinesHaveEvents, LogLinesAre DEF EventsOfLines
          <6>2. line - m > closeAfter /\ closeAfter \in Nat
            BY <1>1, <4>2 DEF Settled
          <6>. QED BY <1>1, <6>1, <6>2
        <5>3. closeAfter # Never
          BY <4>2 DEF Settled
        <5>. QED BY <5>1, <5>2, <5>3 DEF Settled
      <4>3. CASE \E id \in DOMAIN events : n \in EventOf(id)
        BY <1>6, <3>1, <4>3
      <4>. QED BY <4>1, <4>2, <4>3 DEF ReportInv, Placed
    <3>. QED BY <3>2, <3>3
  <2>. QED BY <1>10, <2>1 DEF Placed
<1>13. Reported'
  <2>1. closeAfter' = Never => InOrderOfEvents(p)' /\ (~ended' => p = << >>)
    <3>1. SUFFICES ASSUME closeAfter = Never PROVE InOrderOfEvents(p)' /\ p = << >>
      OBVIOUS
    <3>2. p = << >> /\ DOMAIN p = {}
      BY <1>11, <3>1
    <3>. QED BY <3>2 DEF InOrderOfEvents
  <2>. QED BY <1>10, <2>1 DEF Reported
<1>. QED BY <1>3, <1>12, <1>13 DEF ReportInv

\* LEMMA: a line with a key joins the event of its key, or opens one.
LEMMA FeedReports ==
    ASSUME ReportInv, NEW l \in LogLines[closeAfter], Feed(l)
    PROVE  ReportInv'
<1>1. PICK N : N = line + 1
  OBVIOUS
<1>2. PICK t : t = EntryOf(l)
  OBVIOUS
<1>3. PICK E : E = With(l)
  OBVIOUS
<1>4. PICK done : done = Expired(E, line + 1)
  OBVIOUS
<1>5. /\ IInv /\ ~ended /\ ~ended' /\ l.key # None /\ l.key \in Keys
      /\ line' = line + 1 /\ log' = Append(log, l) /\ closeAfter' = closeAfter
      /\ CloseAll(E, done) /\ LogIs /\ line \in Nat /\ N \in Nat
  BY <1>1, <1>3, <1>4, LogLinesAssumption DEF Feed, ReportInv, IInv, TypeOK, LogIs
<1>6. IInv'
  BY <1>5, FeedInv
<1>7. /\ t \in 1..N /\ DOMAIN E = DOMAIN events \cup {t}
      /\ E[t].key = l.key /\ E[t].last = N
      /\ \A id \in DOMAIN events : id # t => E[id] = events[id] /\ events[id].key # l.key
  BY <1>1, <1>2, <1>3, <1>5, WithFacts
<1>8. /\ l \in AllLines
      /\ \A id \in DOMAIN events :
            EventOf(id)' = IF l.key = events[id].key THEN EventOf(id) \cup {N} ELSE EventOf(id)
      /\ l.key \in Keys \ DOMAIN at => EventOf(N)' = {N}
  BY <1>1, <1>5, OneMoreLine
<1>9. /\ LogIs' /\ DOMAIN log' = DOMAIN log \cup {N} /\ N \notin DOMAIN log
      /\ log'[N] = l /\ \A n \in DOMAIN log : log'[n] = log[n] /\ n < N /\ n \in Nat
  BY <1>1, <1>5, <1>8, LogGrows, LogLinesAre
<1>10. Grouped(events)
  BY DEF ReportInv, Reported, Accounts
<1>11. /\ E[t] = Joined(IF t \in DOMAIN events THEN events[t] ELSE NewEvent(l.key), l, N)
  BY <1>1, <1>2, <1>3 DEF With
<1>12. ASSUME NEW id \in DOMAIN events
       PROVE  /\ id \in DOMAIN log /\ events[id] \in Events /\ log[id].key = events[id].key
              /\ \A m \in EventOf(id) : id <= m
              /\ events[id].last \in EventOf(id) /\ \A m \in SameKey(id) : m <= events[id].last
              /\ Holds(events[id], EventOf(id), log)
              /\ EventOf(id) \subseteq DOMAIN log /\ SameKey(id) \subseteq DOMAIN log
              /\ Holds(events[id], EventOf(id), log')
              /\ SameKey(id)' = IF l.key = log[id].key THEN SameKey(id) \cup {N} ELSE SameKey(id)
  <2>1. /\ id \in DOMAIN log /\ events[id] \in Events /\ log[id].key = events[id].key
        /\ \A m \in EventOf(id) : id <= m
        /\ events[id].last \in EventOf(id) /\ \A m \in SameKey(id) : m <= events[id].last
        /\ Holds(events[id], EventOf(id), log)
    BY <1>10 DEF Grouped
  <2>2. EventOf(id) \subseteq DOMAIN log /\ SameKey(id) \subseteq DOMAIN log
    BY <1>5, <2>1, LinesHaveEvents DEF EventsOfLines
  <2>3. \A n \in EventOf(id) : log'[n] = log[n]
    BY <1>9, <2>2
  <2>4. Holds(events[id], EventOf(id), log')
    BY <2>1, <2>3, HoldsSame
  <2>5. SameKey(id)' = IF l.key = log[id].key THEN SameKey(id) \cup {N} ELSE SameKey(id)
    BY <1>1, <1>5, <1>8, <2>1, KeyGrows
  <2>. QED BY <2>1, <2>2, <2>4, <2>5
<1>13. CASE t \in DOMAIN events
  <2>1. E[t] = Joined(events[t], l, N) /\ E[t].key = events[t].key
    BY <1>11, <1>13 DEF Joined
  <2>2. EventOf(t)' = EventOf(t) \cup {N} /\ SameKey(t)' = SameKey(t) \cup {N}
    BY <1>7, <1>8, <1>12, <1>13, <2>1
  <2>3. E[t] \in Events /\ Holds(E[t], EventOf(t) \cup {N}, log')
    <3>1. \A m \in EventOf(t) : m \in Nat /\ m < N
      BY <1>9, <1>12, <1>13
    <3>2. events[t] \in Events /\ Holds(events[t], EventOf(t), log')
      BY <1>12, <1>13
    <3>3. PICK own, lg, e : own = EventOf(t) /\ lg = log' /\ e = events[t]
      OBVIOUS
    <3>4. Joined(e, l, N) \in Events /\ Holds(Joined(e, l, N), own \cup {N}, lg)
      BY <1>5, <1>8, <1>9, <3>1, <3>2, <3>3, HoldsJoined
    <3>. QED BY <2>1, <3>3, <3>4
  <2>4. Grouped(E)'
    <3>1. ASSUME NEW id \in DOMAIN E, id # t
          PROVE  /\ id \in DOMAIN log' /\ E[id] \in Events /\ log'[id].key = E[id].key
                 /\ \A m \in EventOf(id)' : id <= m
                 /\ E[id].last \in EventOf(id)' /\ \A m \in SameKey(id)' : m <= E[id].last
                 /\ Holds(E[id], EventOf(id)', log')
      <4>1. id \in DOMAIN events /\ E[id] = events[id] /\ l.key # events[id].key
        BY <1>7, <3>1
      <4>2. EventOf(id)' = EventOf(id) /\ SameKey(id)' = SameKey(id)
        BY <1>8, <1>12, <4>1
      <4>3. log'[id] = log[id] /\ id \in DOMAIN log'
        BY <1>9, <1>12, <4>1
      <4>. QED BY <1>12, <4>1, <4>2, <4>3
    <3>2. /\ t \in DOMAIN log' /\ log'[t].key = E[t].key
          /\ \A m \in EventOf(t)' : t <= m
          /\ E[t].last \in EventOf(t)' /\ \A m \in SameKey(t)' : m <= E[t].last
      <4>1. t \in DOMAIN log /\ log'[t] = log[t] /\ log[t].key = E[t].key /\ t <= N
        <5>1. t \in DOMAIN log /\ log[t].key = events[t].key
          BY <1>12, <1>13
        <5>2. N \in Nat /\ t \in Nat /\ t < N /\ log'[t] = log[t]
          BY <1>5, <1>9, <5>1
        <5>. QED BY <2>1, <5>1, <5>2
      <4>2. \A m \in SameKey(t) : m <= N
        <5>1. SameKey(t) \subseteq DOMAIN log
          BY <1>12, <1>13
        <5>2. N \in Nat /\ \A m \in DOMAIN log : m \in Nat /\ m < N
          BY <1>5, <1>9
        <5>3. \A m \in DOMAIN log : m <= N
          BY <5>2
        <5>. QED BY <5>1, <5>3
      <4>3. N <= N
        <5>1. N \in Nat
          BY <1>5
        <5>. QED BY <5>1
      <4>4. t \in DOMAIN log' /\ log'[t].key = E[t].key
        BY <1>9, <4>1
      <4>5. \A m \in EventOf(t)' : t <= m
        <5>1. \A m \in EventOf(t) : t <= m
          BY <1>12, <1>13
        <5>. QED BY <2>2, <4>1, <5>1
      <4>6. E[t].last \in EventOf(t)' /\ \A m \in SameKey(t)' : m <= E[t].last
        <5>1. E[t].last = N
          BY <1>7
        <5>. QED BY <2>2, <4>2, <4>3, <5>1
      <4>. QED BY <4>4, <4>5, <4>6
    <3>. QED BY <2>2, <2>3, <3>1, <3>2 DEF Grouped
  <2>5. DOMAIN E = DOMAIN events
    BY <1>7, <1>13
  <2>6. N \in EventOf(t)' /\ t \in DOMAIN E
    BY <2>2, <2>5, <1>13
  <2>7. DOMAIN E \subseteq 1..N
    BY <1>1, <1>5, <2>5 DEF IInv, TypeOK
  <2>8. \A id : id \in done <=> id \in DOMAIN E /\ closeAfter # Never /\ N - E[id].last > closeAfter
    BY <1>1, <1>4 DEF Expired
  <2>. QED BY <1>1, <1>5, <1>6, <2>4, <2>5, <2>6, <2>7, <2>8, Taken
<1>14. CASE t \notin DOMAIN events
  <2>1. t = N /\ l.key \notin DOMAIN at
    <3>1. l.key \in DOMAIN at => at[l.key] \in DOMAIN events
      BY <1>5 DEF IInv, IndexMatches
    <3>. QED BY <1>1, <1>2, <1>14, <3>1 DEF EntryOf
  <2>2. EventOf(N)' = {N}
    BY <1>5, <1>8, <2>1
  <2>3. E[N] = Joined(NewEvent(l.key), l, N)
    BY <1>11, <1>14, <2>1
  <2>4. E[N] \in Events /\ Holds(E[N], {N}, log')
    <3>1. PICK lg, e : lg = log' /\ e = NewEvent(l.key)
      OBVIOUS
    <3>2. e \in Events /\ Holds(e, {}, lg)
      BY <1>5, <3>1, HoldsNothing
    <3>3. lg[N] = l /\ \A m \in {} : m \in Nat /\ m < N
      BY <1>9, <3>1
    <3>4. Joined(e, l, N) \in Events /\ Holds(Joined(e, l, N), {} \cup {N}, lg)
      BY <1>5, <1>8, <3>2, <3>3, HoldsJoined
    <3>5. {} \cup {N} = {N}
      OBVIOUS
    <3>. QED BY <2>3, <3>1, <3>4, <3>5
  <2>5. Grouped(E)'
    <3>1. ASSUME NEW id \in DOMAIN E, id # N
          PROVE  /\ id \in DOMAIN log' /\ E[id] \in Events /\ log'[id].key = E[id].key
                 /\ \A m \in EventOf(id)' : id <= m
                 /\ E[id].last \in EventOf(id)' /\ \A m \in SameKey(id)' : m <= E[id].last
                 /\ Holds(E[id], EventOf(id)', log')
      <4>1. id \in DOMAIN events /\ E[id] = events[id] /\ l.key # events[id].key
        BY <1>7, <2>1, <3>1
      <4>2. EventOf(id)' = EventOf(id) /\ SameKey(id)' = SameKey(id)
        BY <1>8, <1>12, <4>1
      <4>3. log'[id] = log[id] /\ id \in DOMAIN log'
        BY <1>9, <1>12, <4>1
      <4>. QED BY <1>12, <4>1, <4>2, <4>3
    <3>2. /\ N \in DOMAIN log' /\ log'[N].key = E[N].key
          /\ \A m \in EventOf(N)' : N <= m
          /\ E[N].last \in EventOf(N)' /\ \A m \in SameKey(N)' : m <= E[N].last
      <4>1. N <= N /\ \A m \in DOMAIN log' : m <= N
        <5>1. N \in Nat /\ \A m \in DOMAIN log : m \in Nat /\ m < N
          BY <1>5, <1>9
        <5>. QED BY <1>9, <5>1
      <4>2. SameKey(N)' \subseteq DOMAIN log'
        BY DEF SameKey
      <4>. QED BY <1>7, <1>9, <2>1, <2>2, <4>1, <4>2
    <3>. QED BY <2>2, <2>4, <3>1, <3>2 DEF Grouped
  <2>6. N \in EventOf(N)' /\ N \in DOMAIN E
    BY <1>7, <2>1, <2>2
  <2>7. DOMAIN E \subseteq 1..N
    BY <1>1, <1>5, <1>7 DEF IInv, TypeOK
  <2>8. \A id : id \in done <=> id \in DOMAIN E /\ closeAfter # Never /\ N - E[id].last > closeAfter
    BY <1>1, <1>4 DEF Expired
  <2>9. /\ DOMAIN events \subseteq DOMAIN E
        /\ \A id \in DOMAIN E : id \in DOMAIN events \/ (id = N /\ EventOf(N)' = {N})
    BY <1>7, <2>1, <2>2
  <2>. QED BY <1>1, <1>5, <1>6, <2>5, <2>6, <2>7, <2>8, <2>9, Taken
<1>. QED BY <1>13, <1>14

\* LEMMA: a line without a key joins no event, and may end the wait for some.
LEMMA FeedOtherReports ==
    ASSUME ReportInv, NEW l \in LogLines[closeAfter], FeedOther(l)
    PROVE  ReportInv'
<1>1. PICK N : N = line + 1
  OBVIOUS
<1>2. PICK evs : evs = events
  OBVIOUS
<1>3. PICK done : done = Expired(evs, line + 1)
  OBVIOUS
<1>4. /\ IInv /\ ~ended /\ ~ended' /\ l.key = None
      /\ line' = line + 1 /\ log' = Append(log, l) /\ closeAfter' = closeAfter
      /\ CloseAll(evs, done) /\ LogIs /\ line \in Nat /\ N \in Nat
  BY <1>1, <1>2, <1>3 DEF FeedOther, ReportInv, IInv, TypeOK, LogIs
<1>5. IInv'
  <2>1. IInv
    BY <1>4
  <2>. QED BY <2>1, FeedOtherInv
<1>6. /\ l \in AllLines
      /\ \A id \in DOMAIN events :
            EventOf(id)' = IF l.key = events[id].key THEN EventOf(id) \cup {N} ELSE EventOf(id)
  BY <1>1, <1>4, OneMoreLine
<1>7. /\ DOMAIN log' = DOMAIN log \cup {N} /\ \A n \in DOMAIN log : log'[n] = log[n]
  BY <1>1, <1>4, <1>6, LogGrows
<1>8. Grouped(events)
  BY DEF ReportInv, Reported, Accounts
<1>9. l.key \notin Keys
  BY <1>4, KeysAssumption
<1>10. Grouped(evs)'
  <2>1. ASSUME NEW id \in DOMAIN evs
        PROVE  /\ id \in DOMAIN log' /\ evs[id] \in Events /\ log'[id].key = evs[id].key
               /\ \A m \in EventOf(id)' : id <= m
               /\ evs[id].last \in EventOf(id)' /\ \A m \in SameKey(id)' : m <= evs[id].last
               /\ Holds(evs[id], EventOf(id)', log')
    <3>1. /\ id \in DOMAIN log /\ evs[id] \in Events /\ log[id].key = evs[id].key
          /\ \A m \in EventOf(id) : id <= m
          /\ evs[id].last \in EventOf(id) /\ \A m \in SameKey(id) : m <= evs[id].last
          /\ Holds(evs[id], EventOf(id), log)
      BY <1>2, <1>8 DEF Grouped
    <3>2. l.key # evs[id].key
      <4>1. evs[id].key \in Keys
        BY <3>1 DEF Events
      <4>. QED BY <1>9, <4>1
    <3>3. EventOf(id)' = EventOf(id)
      BY <1>2, <1>6, <3>2
    <3>4. SameKey(id)' = SameKey(id)
      <4>1. SameKey(id)' = IF l.key = log[id].key THEN SameKey(id) \cup {line + 1} ELSE SameKey(id)
        BY <1>4, <1>6, <3>1, KeyGrows
      <4>. QED BY <3>1, <3>2, <4>1
    <3>5. Holds(evs[id], EventOf(id), log')
      <4>1. EventOf(id) \subseteq DOMAIN log
        BY <1>4, <3>1, LinesHaveEvents DEF EventsOfLines
      <4>2. \A n \in EventOf(id) : log'[n] = log[n]
        BY <1>7, <4>1
      <4>. QED BY <3>1, <4>2, HoldsSame
    <3>6. id \in DOMAIN log' /\ log'[id].key = evs[id].key
      BY <1>7, <3>1
    <3>. QED BY <3>1, <3>3, <3>4, <3>5, <3>6
  <2>. QED BY <2>1 DEF Grouped
<1>11. /\ DOMAIN events \subseteq DOMAIN evs
       /\ \A id \in DOMAIN evs : id \in DOMAIN events \/ (id = N /\ EventOf(N)' = {N})
  BY <1>2
<1>12. l.key \in Keys => \E id \in DOMAIN evs : N \in EventOf(id)'
  BY <1>9
<1>13. DOMAIN evs \subseteq 1..N
  BY <1>1, <1>2, <1>4 DEF IInv, TypeOK
<1>14. \A id : id \in done <=> id \in DOMAIN evs /\ closeAfter # Never /\ N - evs[id].last > closeAfter
  BY <1>1, <1>3 DEF Expired
<1>. QED BY <1>1, <1>4, <1>5, <1>10, <1>11, <1>12, <1>13, <1>14, Taken

--------------------------------------------------------------------------------
(* The end of the input, and steps that leave the log as it is             *)

\* LEMMA: a log that stays as it is has the same events, told of the same way.
LEMMA SameLog ==
    ASSUME log' = log, closeAfter' = closeAfter
    PROVE  /\ \A n : SameKey(n)' = SameKey(n) /\ EventOf(n)' = EventOf(n)
           /\ \A evs : Grouped(evs)' <=> Grouped(evs)
           /\ \A r : Told(r)' <=> Told(r)
           /\ \A rs, evs : Accounts(rs, evs)' <=> Accounts(rs, evs)
           /\ \A rs : OpenersOf(rs)' = OpenersOf(rs)
           /\ \A rs : InOrderOfEvents(rs)' <=> InOrderOfEvents(rs)
<1>1. \A n : SameKey(n)' = SameKey(n)
  BY DEF SameKey
<1>2. \A a, b : Near(a, b)' <=> Near(a, b)
  BY DEF Near
<1>3. \A a, b : Chain(a, b)' <=> Chain(a, b)
  BY <1>1, <1>2 DEF Chain
<1>4. \A n : EventOf(n)' = EventOf(n)
  BY <1>1, <1>3 DEF EventOf
<1>5. \A evs : Grouped(evs)' <=> Grouped(evs)
  BY <1>1, <1>4 DEF Grouped
<1>6. \A r, own : Says(r, own)' <=> Says(r, own)
  BY DEF Says, Typed
<1>7. \A r : Told(r)' <=> Told(r)
  BY <1>4, <1>6 DEF Told
<1>8. \A rs, evs : Apart(rs, evs)' <=> Apart(rs, evs)
  BY <1>4 DEF Apart
<1>9. \A rs, evs : Complete(rs, evs)' <=> Complete(rs, evs)
  BY <1>4 DEF Complete
<1>10. \A rs, evs : Accounts(rs, evs)' <=> Accounts(rs, evs)
  BY <1>5, <1>7, <1>8, <1>9 DEF Accounts, NoneTwice
<1>11. \A rs : OpenersOf(rs)' = OpenersOf(rs)
  BY <1>4 DEF OpenersOf
<1>12. \A rs : InOrderOfEvents(rs)' <=> InOrderOfEvents(rs)
  BY <1>4 DEF InOrderOfEvents
<1>. QED BY <1>1, <1>4, <1>5, <1>7, <1>10, <1>11, <1>12

\* LEMMA: finish closes every event that is open.
LEMMA FinishReports ==
    ASSUME ReportInv, Finish
    PROVE  ReportInv'
<1>1. PICK evs, done : evs = events /\ done = DOMAIN events
  OBVIOUS
<1>2. /\ IInv /\ ended' /\ line' = line /\ log' = log /\ closeAfter' = closeAfter
      /\ CloseAll(evs, done) /\ ~ended
  BY <1>1 DEF Finish, ReportInv
<1>3. IInv'
  <2>1. IInv
    BY <1>2
  <2>. QED BY <2>1, FinishInv
<1>4. LogIs /\ LogIs' /\ line \in Nat
  BY <1>2 DEF ReportInv, LogIs
<1>5. PICK o : /\ o = out /\ o \in Seq(Records) /\ Accounts(o, evs)
               /\ noRule = NumberOf(o, RuleLess) /\ noPath = Cardinality(OpenersOf(o))
               /\ closeAfter = Never => o = << >>
  BY <1>1, <1>2 DEF ReportInv, Reported
<1>6. Accounts(o, evs)' /\ OpenersOf(o)' = OpenersOf(o)
  BY <1>2, <1>5, SameLog
<1>7. done \subseteq 1..(line + 1)
  BY <1>1, <1>2 DEF IInv, TypeOK
<1>8. PICK p, left, rs, g :
          /\ p = out' /\ left = events' /\ p \in Seq(Records) /\ Accounts(p, left)'
          /\ noRule' = NumberOf(p, RuleLess) /\ noPath' = Cardinality(OpenersOf(p)')
          /\ p = o \o rs /\ rs \in Seq(Records) /\ Yielded(rs, g, evs, done)'
          /\ left = [id \in DOMAIN evs \ done |-> evs[id]]
  <2>1. /\ CloseAll(evs, done) /\ out = o /\ done \subseteq DOMAIN evs
        /\ line \in Nat /\ done \subseteq 1..(line + 1) /\ LogIs' /\ o \in Seq(Records)
        /\ Accounts(o, evs)' /\ noRule = NumberOf(o, RuleLess)
        /\ noPath = Cardinality(OpenersOf(o)')
    BY <1>1, <1>2, <1>4, <1>5, <1>6, <1>7
  <2>. QED BY <2>1, Closing, Zenon
<1>9. closeAfter = Never => InOrderOfEvents(p)'
  <2>1. SUFFICES ASSUME closeAfter = Never PROVE InOrderOfEvents(rs)'
    <3>1. closeAfter = Never => p = rs
      BY <1>5, <1>8
    <3>. QED BY <3>1
  <2>2. ASSUME NEW i \in DOMAIN rs, NEW j \in DOMAIN rs, i < j
        PROVE  LET a == Min(EventOf(rs[i].line)')
                   b == Min(EventOf(rs[j].line)')
               IN  a < b \/ (a = b /\ rs[i].line < rs[j].line)
    <3>1. /\ Min(EventOf(rs[i].line)') = g[i] /\ Min(EventOf(rs[j].line)') = g[j]
      BY <1>8 DEF Yielded
    <3>2. g[i] < g[j] \/ (g[i] = g[j] /\ rs[i].line < rs[j].line)
      BY <1>8, <2>2 DEF Yielded
    <3>. QED BY <3>1, <3>2
  <2>. QED BY <2>2 DEF InOrderOfEvents
<1>10. DOMAIN left = {}
  BY <1>1, <1>8
<1>11. Placed'
  BY <1>2 DEF Placed
<1>12. Reported'
  BY <1>2, <1>8, <1>9 DEF Reported
<1>. QED BY <1>3, <1>4, <1>8, <1>10, <1>11, <1>12 DEF ReportInv

LEMMA InitReports == Init => ReportInv
<1>. SUFFICES ASSUME Init PROVE ReportInv
  OBVIOUS
<1>1. /\ log = << >> /\ out = << >> /\ line = 0 /\ DOMAIN log = {} /\ DOMAIN out = {}
      /\ events = << >> /\ DOMAIN events = {} /\ ~ended /\ noRule = 0 /\ noPath = 0
  BY DEF Init
<1>2. IInv
  BY InitInv
<1>3. LogIs
  BY <1>1 DEF LogIs
<1>4. Placed
  BY <1>1 DEF Placed
<1>5. PICK rs, evs : rs = out /\ evs = events
  OBVIOUS
<1>6. DOMAIN rs = {} /\ DOMAIN evs = {} /\ rs = << >> /\ rs \in Seq(Records)
  BY <1>1, <1>5
<1>7. Accounts(rs, evs)
  <2>1. Grouped(evs) /\ \A i \in DOMAIN rs : Told(rs[i])
    BY <1>6 DEF Grouped
  <2>2. NoneTwice(rs) /\ Apart(rs, evs) /\ Complete(rs, evs)
    BY <1>1, <1>6 DEF NoneTwice, Apart, Complete
  <2>. QED BY <2>1, <2>2 DEF Accounts
<1>8. NumberOf(rs, RuleLess) = 0 /\ Cardinality(OpenersOf(rs)) = 0
  <2>1. Positions(rs, RuleLess) = {} /\ OpenersOf(rs) = {}
    BY <1>6 DEF Positions, OpenersOf
  <2>. QED BY <2>1, FS_EmptySet DEF NumberOf
<1>9. InOrderOfEvents(rs)
  BY <1>6 DEF InOrderOfEvents
<1>10. Reported
  BY <1>1, <1>5, <1>6, <1>7, <1>8, <1>9 DEF Reported
<1>. QED BY <1>1, <1>2, <1>3, <1>4, <1>10 DEF ReportInv

LEMMA ReportStep == ReportInv /\ [Next]_vars => ReportInv'
<1>. SUFFICES ASSUME ReportInv, [Next]_vars PROVE ReportInv'
  OBVIOUS
<1>1. CASE \E l \in LogLines[closeAfter] : Feed(l)
  BY <1>1, FeedReports
<1>2. CASE \E l \in LogLines[closeAfter] : FeedOther(l)
  BY <1>2, FeedOtherReports
<1>3. CASE Finish
  BY <1>3, FinishReports
<1>4. CASE UNCHANGED vars
  <2>1. /\ closeAfter' = closeAfter /\ line' = line /\ events' = events /\ noRule' = noRule
        /\ noPath' = noPath /\ ended' = ended /\ log' = log /\ out' = out
    BY <1>4 DEF vars
  <2>2. IInv'
    <3>1. IInv
      BY DEF ReportInv
    <3>. QED BY <3>1, <1>4, InvStep
  <2>3. PICK rs, evs :
           /\ rs = out /\ evs = events /\ rs \in Seq(Records) /\ Accounts(rs, evs)
           /\ noRule = NumberOf(rs, RuleLess) /\ noPath = Cardinality(OpenersOf(rs))
           /\ closeAfter = Never => InOrderOfEvents(rs) /\ (~ended => rs = << >>)
    BY DEF ReportInv, Reported
  <2>4. /\ Accounts(rs, evs)' /\ OpenersOf(rs)' = OpenersOf(rs)
        /\ InOrderOfEvents(rs)' <=> InOrderOfEvents(rs)
    BY <2>1, <2>3, SameLog
  <2>5. Reported'
    BY <2>1, <2>3, <2>4 DEF Reported
  <2>6. \A n : EventOf(n)' = EventOf(n)
    BY <2>1, SameLog
  <2>7. Placed'
    BY <2>1, <2>6 DEF ReportInv, Placed, Settled
  <2>8. LogIs' /\ (ended' => DOMAIN events' = {})
    BY <2>1 DEF ReportInv, LogIs
  <2>. QED BY <2>2, <2>5, <2>7, <2>8 DEF ReportInv
<1>. QED BY <1>1, <1>2, <1>3, <1>4 DEF Next, Consumed

LEMMA ReportInvariant == Spec => []ReportInv
BY InitReports, ReportStep, PTL DEF Spec

\* LEMMA: the event whose open entry holds a decision is the one it belongs to.
LEMMA OpenInIs ==
    ASSUME ReportInv, NEW n \in DOMAIN log, log[n].type = "FANOTIFY"
    PROVE  /\ OpenIn(n) = {id \in DOMAIN events : n \in EventOf(id)}
           /\ \A a, b \in OpenIn(n) : a = b
<1>1. LogIs /\ Grouped(events)
  BY DEF ReportInv, Reported, Accounts
<1>2. ASSUME NEW id \in DOMAIN events
      PROVE  (\E j \in DOMAIN events[id].fanotify : events[id].fanotify[j][1] = n) <=> n \in EventOf(id)
  <2>1. HoldsDecisions(events[id], EventOf(id), log)
    BY <1>1 DEF Grouped, Holds
  <2>. QED BY <2>1 DEF HoldsDecisions
<1>3. OpenIn(n) = {id \in DOMAIN events : n \in EventOf(id)}
  BY <1>2 DEF OpenIn
<1>4. ASSUME NEW a \in DOMAIN events, NEW b \in DOMAIN events, n \in EventOf(a), n \in EventOf(b)
      PROVE  a = b
  <2>1. /\ a \in DOMAIN log /\ b \in DOMAIN log
        /\ \A m \in EventOf(a) : a <= m
        /\ \A m \in EventOf(b) : b <= m
    BY <1>1 DEF Grouped
  <2>2. EventOf(a) = EventOf(n) /\ EventOf(b) = EventOf(n) /\ a \in EventOf(a) /\ b \in EventOf(b)
    BY <1>1, <1>4, <2>1, LinesHaveEvents DEF EventsOfLines
  <2>3. a <= b /\ b <= a
    BY <2>1, <2>2
  <2>4. a \in Nat /\ b \in Nat
    BY <1>1, <2>1, LogLinesAre
  <2>. QED BY <2>3, <2>4
<1>. QED BY <1>3, <1>4

--------------------------------------------------------------------------------
(* The theorems of the records                                             *)

\* THEOREM: a decision is held by one open event or was released, once, and
\* never both: closing and reopening a key loses and repeats nothing.
THEOREM DecisionsOnce == Spec => []OnceEach
<1>1. ReportInv => OnceEach
  <2>. SUFFICES ASSUME ReportInv, NEW k \in Keys, NEW n \in FanLines(k)
                PROVE  Cardinality(Emitted(n)) + Cardinality(OpenIn(n)) = 1
    BY DEF OnceEach
  <2>1. n \in DOMAIN log /\ log[n].type = "FANOTIFY" /\ log[n].key \in Keys
    BY DEF FanLines
  <2>2. NoneTwice(out) /\ Apart(out, events) /\ Complete(out, events)
    BY DEF ReportInv, Reported, Accounts
  <2>3. /\ OpenIn(n) = {id \in DOMAIN events : n \in EventOf(id)}
        /\ \A a, b \in OpenIn(n) : a = b
    BY <2>1, OpenInIs
  <2>4. CASE \E id \in DOMAIN events : n \in EventOf(id)
    <3>1. PICK id \in DOMAIN events : n \in EventOf(id)
      BY <2>4
    <3>2. OpenIn(n) = {id}
      BY <2>3, <3>1
    <3>3. Emitted(n) = {}
      BY <2>2, <3>1 DEF Emitted, Apart
    <3>4. Cardinality(OpenIn(n)) = 1 /\ Cardinality(Emitted(n)) = 0
      BY <3>2, <3>3, FS_EmptySet, FS_Singleton
    <3>. QED BY <3>4
  <2>5. CASE \E i \in DOMAIN out : out[i].line = n
    <3>1. PICK i \in DOMAIN out : out[i].line = n
      BY <2>5
    <3>2. Emitted(n) = {i}
      BY <2>2, <3>1 DEF Emitted, NoneTwice
    <3>3. OpenIn(n) = {}
      BY <2>2, <2>3, <3>1 DEF Apart
    <3>4. Cardinality(Emitted(n)) = 1 /\ Cardinality(OpenIn(n)) = 0
      BY <3>2, <3>3, FS_EmptySet, FS_Singleton
    <3>. QED BY <3>4
  <2>. QED BY <2>1, <2>2, <2>4, <2>5 DEF Complete
<1>. QED BY <1>1, ReportInvariant, PTL

\* THEOREM: every record says what the lines of its own event say, however the
\* lines of other events lie between them.
THEOREM RecordsFaithful == Spec => []Faithful
<1>1. ReportInv => Faithful
  BY DEF ReportInv, Reported, Accounts, Told, Faithful
<1>. QED BY <1>1, ReportInvariant, PTL

\* THEOREM: the two totals count the records without a rule number, and the
\* events with a decision and no object path, each event once.
THEOREM TotalsRight == Spec => []Totals
<1>1. ReportInv => Totals
  <2>. SUFFICES ASSUME ReportInv PROVE Totals
    OBVIOUS
  <2>1. /\ out \in Seq(Records) /\ noRule = NumberOf(out, RuleLess)
        /\ noPath = Cardinality(OpenersOf(out))
    BY DEF ReportInv, Reported
  <2>2. Positions(out, RuleLess) = {i \in DOMAIN out : out[i].rule = 0}
    <3>1. \A i \in DOMAIN out : out[i] \in Records
      BY <2>1
    <3>. QED BY <3>1 DEF Positions, RuleLess
  <2>. QED BY <2>1, <2>2 DEF Totals, NumberOf, OpenersOf
<1>. QED BY <1>1, ReportInvariant, PTL

\* THEOREM: batch reports events in the order they were first seen, and the
\* decisions of one event in the order they arrived.
THEOREM BatchOrder == Spec => []FirstSeenOrder
<1>1. ReportInv => FirstSeenOrder
  BY DEF ReportInv, Reported, InOrderOfEvents, FirstSeenOrder
<1>. QED BY <1>1, ReportInvariant, PTL
================================================================================
