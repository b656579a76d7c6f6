------------------------------- MODULE FollowRun -------------------------------
(***************************************************************************)
(* `rulesteward fapolicyd ... --follow`: the main loop of src/main.rs, the *)
(* thread that reads stdin for it, the bounded channel between the two,    *)
(* the SIGINT flag, and stdout, which may break at any write.              *)
(*                                                                         *)
(* The analyzer appears here only as what a line makes it return.  A line  *)
(* is a record naming the notes and the text its Step carries, whether it  *)
(* counts as content and as parsed (exit 2), and whether the analyzer      *)
(* keeps it open for CloseAfter more lines, as it does an audit event.     *)
(***************************************************************************)
EXTENDS Naturals, Sequences, FiniteSets, SequencesExt

CONSTANTS
    Cap,          \* capacity of the sync_channel (64 in the code)
    MaxItems,     \* bound: items that ever arrive on stdin
    CloseAfter,   \* FOLLOW_CLOSE_AFTER: lines an event may go without a record
    Lines,        \* the lines a producer may write
    Err,          \* a read error, the last thing stdin ever yields
    Kept,         \* the messages `kept` lets this action's reader see
    HostNotes,    \* messages due before line 1
    SourceNotes,  \* messages of Finish::source_notes
    RunNotes,     \* messages of Finish::run_notes
    HasReport     \* TRUE for why and check, whose end of run is a report

ASSUME CapAssumption == Cap \in Nat \ {0}
ASSUME BoundAssumption == MaxItems \in Nat /\ CloseAfter \in Nat
\* A line that parsed was content, and the record of an audit event, whose
\* field names are the reader's own, is never a corrupt one.
ASSUME LinesAssumption ==
    \A l \in Lines : (l.parsed => l.content) /\ ~(l.opens /\ l.corrupt)
ASSUME NotesAssumption ==
    /\ \A l \in Lines : l.notes \in Seq(ToSet(l.notes))
    /\ \A notes \in {HostNotes, SourceNotes, RunNotes} : notes \in Seq(ToSet(notes))
ASSUME ErrAssumption == Err \notin Lines

VARIABLES
    \* the world: what a producer has written and nobody has read, whether
    \* it has closed its end, the SIGINT flag and the state of stdout
    pipe, eof, stop, sink,
    \* the reader thread: its state and the item it holds, and the channel
    reader, hand, chan,
    \* the main thread: where it is, the pieces of the current write, the
    \* repeat totals, and how the run ended
    main, todo, totals, exit,
    \* the analyzer: lines fed so far, and what it counts
    fed, warned, content, parsed,
    \* history: everything that ever arrived, everything written, and how
    \* many lines were fed after SIGINT
    stream, out, late

world   == <<pipe, eof, stop, sink, stream>>
thread  == <<reader, hand, chan>>
analyzer == <<fed, warned, content, parsed>>
output  == <<todo, totals, out>>
vars == <<world, thread, main, exit, analyzer, output, late>>

--------------------------------------------------------------------------------
(* What is written.  A piece is one write to stdout that is not empty.     *)

Piece(what, line, msg) == [what |-> what, line |-> line, msg |-> msg, n |-> 1]

\* What x contributes to a sequence, when it does.
When(condition, x) == IF condition THEN <<x>> ELSE << >>

Comments(what, line, msgs) ==
    FlattenSeq([i \in DOMAIN msgs |-> When(msgs[i] \in Kept, Piece(what, line, msgs[i]))])

\* A record's notes, then its text; a corrupt record has neither.
NotePieces(n, l) == IF l.corrupt THEN << >> ELSE Comments("note", n, l.notes)
TextPieces(n, l) == When(l.text /\ ~l.corrupt, Piece("text", n, "text"))

\* The records the analyzer releases, as <<line number, line>> pairs, become
\* one Step: the first corrupt record's warning, every note, then the text.
StepPieces(records, quiet) ==
    When(~quiet /\ \E i \in DOMAIN records : records[i][2].corrupt,
         Piece("corrupt", 0, "corrupt"))
    \o FlattenSeq([i \in DOMAIN records |-> NotePieces(records[i][1], records[i][2])])
    \o FlattenSeq([i \in DOMAIN records |-> TextPieces(records[i][1], records[i][2])])

\* Line i of the input is still held open after line n.
StillOpen(l, i, n) == l.opens /\ n - i <= CloseAfter

\* The events still open after line n, in the order they were opened.
OpenAfter(lines, n) ==
    FlattenSeq([i \in 1..n |-> When(StillOpen(lines[i], i, n), <<i, lines[i]>>)])

\* MUTANT: an event is closed one line late.
ReleasedLate(lines) ==
    LET n == Len(lines)
        k == n - (CloseAfter + 2)
    IN  (IF n > CloseAfter + 2 /\ lines[k].opens
         THEN <<<<k, lines[k]>>>> ELSE << >>)
        \o (IF lines[n].opens THEN << >> ELSE <<<<n, lines[n]>>>>)

\* What feeding the last of `lines` releases: the event it is one line too
\* far from, then the line itself unless it only opens an event.
Released(lines) ==
    LET n == Len(lines)
        k == n - (CloseAfter + 1)
    IN  (IF n > CloseAfter + 1 /\ lines[k].opens
         THEN <<<<k, lines[k]>>>> ELSE << >>)
        \o (IF lines[n].opens THEN << >> ELSE <<<<n, lines[n]>>>>)

\* analyze::count: the entry with the same message, or a new one at the end.
Counted(ts, m) ==
    IF \E i \in DOMAIN ts : ts[i].msg = m
    THEN [i \in DOMAIN ts |->
            IF ts[i].msg = m THEN [ts[i] EXCEPT !.n = @ + 1] ELSE ts[i]]
    ELSE Append(ts, [msg |-> m, n |-> 1])

\* MUTANT: a total for every note, repeated or not.
AllTotals(ts) ==
    [i \in DOMAIN ts |-> [what |-> "total", line |-> 0, msg |-> ts[i].msg, n |-> ts[i].n]]

TotalPiece(t) == [what |-> "total", line |-> 0, msg |-> t.msg, n |-> t.n]

TotalPieces(ts) == FlattenSeq([i \in DOMAIN ts |-> When(ts[i].n > 1, TotalPiece(ts[i]))])

EndPieces(lines, quiet) ==
    Comments("source", 0, SourceNotes)
    \o StepPieces(OpenAfter(lines, Len(lines)), quiet)
    \o Comments("run", 0, RunNotes)

ReportPieces == IF HasReport THEN <<Piece("report", 0, "report")>> ELSE << >>

--------------------------------------------------------------------------------
Init ==
    /\ pipe = << >> /\ stream = << >> /\ eof = FALSE
    /\ stop = FALSE /\ sink = "open"
    /\ reader = "unborn" /\ hand = << >> /\ chan = << >>
    /\ main = "register" /\ exit = "none"
    /\ fed = << >> /\ warned = FALSE /\ content = FALSE /\ parsed = FALSE
    /\ todo = << >> /\ totals = << >> /\ out = << >>
    /\ late = 0

Running == main # "exited"

--------------------------------------------------------------------------------
(* The world                                                               *)

Arrive(item) ==
    /\ Running /\ ~eof /\ Len(stream) < MaxItems
    /\ pipe' = Append(pipe, item)
    /\ stream' = Append(stream, item)
    /\ eof' = (item = Err)
    /\ UNCHANGED <<stop, sink, thread, main, exit, analyzer, output, late>>

CloseStdin ==
    /\ Running /\ ~eof
    /\ eof' = TRUE
    /\ UNCHANGED <<pipe, stream, stop, sink, thread, main, exit, analyzer, output, late>>

\* Ctrl+C: the flag once the handler is registered, the default action before.
Sigint ==
    /\ Running /\ ~stop
    /\ \/ /\ main = "register"
          /\ main' = "exited" /\ exit' = "killed"
       \/ /\ main # "register"
          /\ UNCHANGED <<main, exit>>
    /\ stop' = TRUE
    /\ UNCHANGED <<pipe, stream, eof, sink, thread, analyzer, output, late>>

\* stdout's reader goes away, or the disk it is on fills up.
BreakStdout(how) ==
    /\ Running /\ sink = "open"
    /\ sink' = how
    /\ UNCHANGED <<pipe, stream, eof, stop, thread, main, exit, analyzer, output, late>>

--------------------------------------------------------------------------------
(* The reader thread                                                       *)

\* MUTANT: the reader takes everything there is at once.
ReadBlock ==
    /\ Running /\ reader = "reading" /\ pipe # << >>
    /\ hand' = pipe
    /\ pipe' = << >>
    /\ reader' = "sending"
    /\ UNCHANGED <<stream, eof, stop, sink, chan, main, exit, analyzer, output, late>>

\* MUTANT: the reader waits for the end of stdin before it hands a line over.
ReadToEnd ==
    /\ Running /\ reader = "reading" /\ pipe # << >> /\ eof
    /\ hand' = <<Head(pipe)>>
    /\ pipe' = Tail(pipe)
    /\ reader' = "sending"
    /\ UNCHANGED <<stream, eof, stop, sink, chan, main, exit, analyzer, output, late>>

ReadItem ==
    /\ Running /\ reader = "reading" /\ pipe # << >>
    /\ hand' = <<Head(pipe)>>
    /\ pipe' = Tail(pipe)
    /\ reader' = "sending"
    /\ UNCHANGED <<stream, eof, stop, sink, chan, main, exit, analyzer, output, late>>

\* MUTANT: a read of no bytes is tried again.
ReadEofAgain ==
    /\ Running /\ reader = "reading" /\ pipe = << >> /\ eof
    /\ UNCHANGED vars

ReadEof ==
    /\ Running /\ reader = "reading" /\ pipe = << >> /\ eof
    /\ reader' = "done"
    /\ UNCHANGED <<world, hand, chan, main, exit, analyzer, output, late>>

\* MUTANT: the channel has no bound.
SendUnbounded ==
    /\ Running /\ reader = "sending" /\ main # "returned"
    /\ chan' = chan \o hand
    /\ hand' = << >>
    /\ reader' = IF hand = <<Err>> THEN "done" ELSE "reading"
    /\ UNCHANGED <<world, main, exit, analyzer, output, late>>

\* MUTANT: a full channel drops the line instead of making the send wait.
SendOrDrop ==
    /\ Running /\ reader = "sending" /\ main # "returned"
    /\ chan' = IF Len(chan) < Cap THEN chan \o hand ELSE chan
    /\ hand' = << >>
    /\ reader' = IF hand = <<Err>> THEN "done" ELSE "reading"
    /\ UNCHANGED <<world, main, exit, analyzer, output, late>>

\* A full channel makes the send wait.
Send ==
    /\ Running /\ reader = "sending" /\ main # "returned" /\ Len(chan) < Cap
    /\ chan' = chan \o hand
    /\ hand' = << >>
    /\ reader' = IF hand = <<Err>> THEN "done" ELSE "reading"
    /\ UNCHANGED <<world, main, exit, analyzer, output, late>>

\* The receiver is gone: the thread returns and its line is dropped with it.
SendFails ==
    /\ Running /\ reader = "sending" /\ main = "returned"
    /\ reader' = "done"
    /\ UNCHANGED <<world, hand, chan, main, exit, analyzer, output, late>>

ReaderStep == ReadItem \/ ReadEof \/ Send \/ SendFails

--------------------------------------------------------------------------------
(* The main thread                                                         *)

Return(code) == main' = "returned" /\ exit' = code

RegisterFails ==
    /\ main = "register"
    /\ Return("usage")
    /\ UNCHANGED <<world, thread, analyzer, output, late>>

Register ==
    /\ main = "register"
    /\ main' = "notes"
    /\ todo' = Comments("host", 0, HostNotes)
    /\ UNCHANGED <<world, thread, exit, analyzer, totals, out, late>>

\* MUTANT: the notes of the records the end releases are not counted.
WriteCountsLive ==
    /\ main \in {"notes", "write", "ending", "totals"}
    /\ todo # << >> /\ sink = "open"
    /\ out' = Append(out, Head(todo))
    /\ todo' = Tail(todo)
    /\ totals' = IF Head(todo).what = "note" /\ main = "write"
                 THEN Counted(totals, Head(todo).msg) ELSE totals
    /\ UNCHANGED <<world, thread, main, exit, analyzer, late>>

\* One write.  A note of a Step is counted once it is written.
Write ==
    /\ main \in {"notes", "write", "ending", "totals"}
    /\ todo # << >> /\ sink = "open"
    /\ out' = Append(out, Head(todo))
    /\ todo' = Tail(todo)
    /\ totals' = IF Head(todo).what = "note" THEN Counted(totals, Head(todo).msg)
                 ELSE totals
    /\ UNCHANGED <<world, thread, main, exit, analyzer, late>>

\* MUTANT: every failed write is taken for a closed pipe.
WriteFailsQuietly ==
    /\ main \in {"notes", "write", "ending", "totals"}
    /\ todo # << >> /\ sink # "open"
    /\ Return("ok")
    /\ UNCHANGED <<world, thread, analyzer, output, late>>

\* A write that fails ends the run: quietly when the pipe is closed.
WriteFails ==
    /\ main \in {"notes", "write", "ending", "totals"}
    /\ todo # << >> /\ sink # "open"
    /\ Return(IF sink = "closed" THEN "ok" ELSE "usage")
    /\ UNCHANGED <<world, thread, analyzer, output, late>>

\* The early notes are out: the thread is spawned and the loop begins.
Spawn ==
    /\ main = "notes" /\ todo = << >>
    /\ main' = "check"
    /\ reader' = "reading"
    /\ UNCHANGED <<world, hand, chan, exit, analyzer, output, late>>

\* MUTANT: the flag is looked at after a timeout only.
LoopUnchecked ==
    /\ main = "write" /\ todo = << >>
    /\ main' = "recv"
    /\ UNCHANGED <<world, thread, exit, analyzer, output, late>>

LoopAgain ==
    /\ main = "write" /\ todo = << >>
    /\ main' = "check"
    /\ UNCHANGED <<world, thread, exit, analyzer, output, late>>

CheckFlag ==
    /\ main = "check" /\ ~stop
    /\ main' = "recv"
    /\ UNCHANGED <<world, thread, exit, analyzer, output, late>>

\* recv_timeout yields a line: it is fed, and its step is what to write next.
RecvLine ==
    /\ main = "recv" /\ chan # << >> /\ Head(chan) # Err
    /\ chan' = Tail(chan)
    /\ fed' = Append(fed, Head(chan))
    /\ content' = (content \/ Head(chan).content)
    /\ parsed' = (parsed \/ Head(chan).parsed)
    /\ warned' = (warned \/ Head(chan).corrupt)
    /\ todo' = StepPieces(Released(fed'), warned)
    /\ main' = "write"
    /\ late' = IF stop THEN late + 1 ELSE late
    /\ UNCHANGED <<world, reader, hand, exit, totals, out>>

\* MUTANT: the thread reports a read error past the lines still queued.
ErrorOvertakes ==
    /\ main = "recv" /\ Err \in ToSet(hand \o chan)
    /\ Return("usage")
    /\ UNCHANGED <<world, thread, analyzer, output, late>>

RecvError ==
    /\ main = "recv" /\ chan # << >> /\ Head(chan) = Err
    /\ chan' = Tail(chan)
    /\ Return("usage")
    /\ UNCHANGED <<world, reader, hand, analyzer, output, late>>

\* MUTANT: recv instead of recv_timeout: the wait has no end.
RecvForEver == FALSE /\ UNCHANGED vars

RecvTimeout ==
    /\ main = "recv" /\ chan = << >> /\ reader # "done"
    /\ main' = "check"
    /\ UNCHANGED <<world, thread, exit, analyzer, output, late>>
\* The end of the run, after SIGINT or once the channel is disconnected.
Finish ==
    /\ \/ main = "check" /\ stop
       \/ main = "recv" /\ chan = << >> /\ reader = "done"
    /\ todo' = EndPieces(fed, warned)
    /\ main' = "ending"
    /\ UNCHANGED <<world, thread, exit, analyzer, totals, out, late>>

FinishTotals ==
    /\ main = "ending" /\ todo = << >>
    /\ todo' = TotalPieces(totals) \o ReportPieces
    /\ main' = "totals"
    /\ UNCHANGED <<world, thread, exit, analyzer, totals, out, late>>

\* MUTANT: with the receiver dropped, the reader thread is joined as well.
FinishedJoin ==
    /\ main = "totals" /\ todo = << >> /\ reader # "reading"
    /\ Return(IF content /\ ~parsed THEN "unparseable" ELSE "ok")
    /\ UNCHANGED <<world, thread, analyzer, output, late>>

Finished ==
    /\ main = "totals" /\ todo = << >>
    /\ Return(IF content /\ ~parsed THEN "unparseable" ELSE "ok")
    /\ UNCHANGED <<world, thread, analyzer, output, late>>

\* Returning from main ends the process, whatever the reader is blocked on.
Exit ==
    /\ main = "returned"
    /\ main' = "exited"
    /\ UNCHANGED <<world, thread, exit, analyzer, output, late>>

MainStep ==
    \/ RegisterFails \/ Register \/ Write \/ WriteFails \/ Spawn \/ LoopAgain
    \/ CheckFlag \/ RecvLine \/ RecvError \/ RecvTimeout
    \/ Finish \/ FinishTotals \/ Finished \/ Exit

Environment ==
    \/ \E item \in Lines \cup {Err} : Arrive(item)
    \/ CloseStdin
    \/ Sigint
    \/ \E how \in {"closed", "full"} : BreakStdout(how)

\* The process is gone and stays gone.
Gone == ~Running /\ UNCHANGED vars

Next == Environment \/ ReaderStep \/ MainStep \/ Gone

\* Both threads are scheduled; nothing is assumed of the environment, except
\* that an open stdout accepts a write sooner or later.
Spec == Init /\ [][Next]_vars /\ WF_vars(ReaderStep) /\ WF_vars(MainStep)

--------------------------------------------------------------------------------
(* Types                                                                   *)

\* Every variable has the shape the code gives it.
TypeOK ==
    /\ stream \in Seq(Lines \cup {Err}) /\ pipe \in Seq(Lines \cup {Err})
    /\ hand \in Seq(Lines \cup {Err}) /\ Len(hand) <= 1
    /\ chan \in Seq(Lines \cup {Err})
    /\ eof \in BOOLEAN /\ stop \in BOOLEAN
    /\ sink \in {"open", "closed", "full"}
    /\ reader \in {"unborn", "reading", "sending", "done"}
    /\ main \in {"register", "notes", "check", "recv", "write", "ending", "totals",
                 "returned", "exited"}
    /\ exit \in {"none", "ok", "usage", "unparseable", "killed"}
    /\ fed \in Seq(Lines)
    /\ warned \in BOOLEAN /\ content \in BOOLEAN /\ parsed \in BOOLEAN
    /\ late \in Nat

--------------------------------------------------------------------------------
(* Safety                                                                  *)

Over == main \in {"returned", "exited"}

\* What has arrived and was not fed, wherever it is, oldest first.
Queue == chan \o hand \o pipe

\* No line is lost, repeated or overtaken between stdin and the analyzer,
\* whichever thread holds it; a read error is never acted on before a line
\* that arrived ahead of it.
Conserved ==
    \/ stream = fed \o Queue
    \/ exit = "usage" /\ stream = Append(fed, Err)

\* The producer waits instead of the run queueing its input: what is read
\* and not yet analysed is bounded by the channel and the one line in hand.
Backpressure == Len(chan) <= Cap /\ Len(chan \o hand) <= Cap + 1

Written(what, i) == Cardinality({k \in DOMAIN out : out[k].what = what /\ out[k].line = i})
KeptNotes(l) == Cardinality({k \in DOMAIN l.notes : l.notes[k] \in Kept})

\* What line i owes the output once its record is decided.
Owes(i) == [note |-> IF fed[i].corrupt THEN 0 ELSE KeptNotes(fed[i]),
            text |-> IF fed[i].text /\ ~fed[i].corrupt THEN 1 ELSE 0]
Has(i) == [note |-> Written("note", i), text |-> Written("text", i)]

\* A line's notes and result are written before the loop looks for another
\* line, an event's once CloseAfter more lines have passed, and never twice:
\* a watcher who has seen line n has seen every answer due by then.
Prompt ==
    /\ main \in {"check", "recv"} =>
          \A i \in DOMAIN fed :
             ~StillOpen(fed[i], i, Len(fed)) => Has(i) = Owes(i)
    /\ \A i \in DOMAIN fed :
          Has(i).note <= Owes(i).note /\ Has(i).text <= Owes(i).text

\* The end of the run has been written in full.
Complete == Over /\ exit \in {"ok", "unparseable"} /\ todo = << >>

\* A run that ends by itself, or by SIGINT, has answered every line it fed:
\* an event still open is not lost, and every repeated note has one total,
\* which is the number of times the note was written.
Answered ==
    Complete =>
      /\ \A i \in DOMAIN fed : Has(i) = Owes(i)
      /\ \A m \in Kept :
            LET live == Cardinality({k \in DOMAIN out : out[k].what = "note" /\ out[k].msg = m})
                sums == {k \in DOMAIN out : out[k].what = "total" /\ out[k].msg = m}
            IN  IF live > 1 THEN Cardinality(sums) = 1 /\ \A k \in sums : out[k].n = live
                ELSE sums = {}
      /\ Written("corrupt", 0) = IF \E i \in DOMAIN fed : fed[i].corrupt THEN 1 ELSE 0

\* The status is the one the run earned: 2 exactly when what was fed looked
\* like input and held no field, 0 only for a complete run or a closed pipe,
\* 1 only for a read error in its place, a full disk or no handler; and a run
\* that nobody interrupted and whose output held has left no line behind.
ExitStatus ==
    LET unparseable == /\ \E i \in DOMAIN fed : fed[i].content
                       /\ \A i \in DOMAIN fed : ~fed[i].parsed
    IN  /\ Over <=> exit # "none"
        /\ Complete => (exit = "unparseable" <=> unparseable)
        /\ exit = "ok" /\ todo # << >> => sink = "closed"
        /\ exit = "usage" =>
              \/ stream = Append(fed, Err)
              \/ sink = "full"
              \/ reader = "unborn" /\ out = << >>
        /\ exit = "killed" => reader = "unborn" /\ out = << >>
        /\ Complete /\ ~stop => fed = stream /\ eof

\* SIGINT ends the reading: at most the line already being waited for is fed
\* after it, however fast the producer writes.
PromptStop == late <= 1

--------------------------------------------------------------------------------
(* Liveness                                                                *)

\* After SIGINT the run ends, with stdin still open and nothing on it.
SigintEnds == stop ~> (main = "exited")

\* A closed stdin ends the run too.
EofEnds == eof ~> (main = "exited")

\* A line that has arrived is analysed although stdin stays open, unless the
\* run ends first.
LinesFlow ==
    \A n \in 1..MaxItems :
       (Len(stream) >= n /\ ~Over) ~> (Len(fed) >= n \/ stop \/ Over)

--------------------------------------------------------------------------------
(* The promise: the two threads and the channel are one sequential loop.   *)

Phase ==
    CASE main \in {"register", "notes"}      -> "starting"
      [] main \in {"check", "recv", "write"} -> "reading"
      [] main \in {"ending", "totals"}       -> "closing"
      [] OTHER                               -> "over"

Seq1 == INSTANCE SequentialFollow
          WITH input <- Queue, broken <- (sink # "open"), phase <- Phase

Sequential == Seq1!Safety
SequentialLive == Seq1!Live
================================================================================
