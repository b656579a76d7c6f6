--------------------------- MODULE SequentialFollow ---------------------------
(***************************************************************************)
(* What `--follow` promises, with no thread and no channel in it: one loop *)
(* takes the items of stdin in the order they arrive, each once, until the *)
(* input is exhausted, SIGINT is seen, a read fails, or the output breaks. *)
(* FollowRun is shown to implement this module.                            *)
(***************************************************************************)
EXTENDS Naturals, Sequences

CONSTANTS Lines, Err

VARIABLES
    input,   \* items that arrived and were not taken
    eof,     \* nothing more will arrive
    stop,    \* SIGINT was received
    broken,  \* stdout cannot be written any more
    fed,     \* the lines taken, in order
    phase    \* "starting", "reading", "closing" or "over"

seqVars == <<input, eof, stop, broken, fed, phase>>

Init ==
    /\ input = << >> /\ eof = FALSE /\ stop = FALSE /\ broken = FALSE
    /\ fed = << >> /\ phase = "starting"

\* The world: input, Ctrl+C, a broken stdout.
Arrive ==
    /\ ~eof
    /\ \E item \in Lines \cup {Err} :
          /\ input' = Append(input, item)
          /\ eof' = (item = Err)
    /\ UNCHANGED <<stop, broken, fed, phase>>

Close ==
    /\ ~eof /\ eof' = TRUE
    /\ UNCHANGED <<input, stop, broken, fed, phase>>

Interrupt ==
    /\ ~stop /\ stop' = TRUE
    /\ phase' \in {phase} \cup {p \in {"over"} : phase = "starting"}
    /\ UNCHANGED <<input, eof, broken, fed>>

Break ==
    /\ ~broken /\ broken' = TRUE
    /\ UNCHANGED <<input, eof, stop, fed, phase>>

Begin ==
    /\ phase = "starting" /\ phase' = "reading"
    /\ UNCHANGED <<input, eof, stop, broken, fed>>

Take ==
    /\ phase = "reading" /\ input # << >> /\ Head(input) # Err
    /\ fed' = Append(fed, Head(input))
    /\ input' = Tail(input)
    /\ UNCHANGED <<eof, stop, broken, phase>>

\* Reading ends for SIGINT or for an input with nothing left to come.
Wind ==
    /\ phase = "reading"
    /\ stop \/ (eof /\ input = << >>)
    /\ phase' = "closing"
    /\ UNCHANGED <<input, eof, stop, broken, fed>>

\* A read error is acted on in its place: after every line before it.
Fail ==
    /\ phase = "reading" /\ input # << >> /\ Head(input) = Err
    /\ input' = Tail(input)
    /\ phase' = "over"
    /\ UNCHANGED <<eof, stop, broken, fed>>

\* The end of the run has been written, or nothing ever started.
Complete ==
    /\ phase \in {"starting", "closing"}
    /\ phase' = "over"
    /\ UNCHANGED <<input, eof, stop, broken, fed>>

\* stdout is found broken by a write, and by nothing else: a run with nothing
\* to write goes on reading.
GiveUp ==
    /\ broken /\ phase = "reading"
    /\ phase' = "over"
    /\ UNCHANGED <<input, eof, stop, broken, fed>>

Next ==
    \/ Arrive \/ Close \/ Interrupt \/ Break
    \/ Begin \/ Take \/ Wind \/ Fail \/ Complete \/ GiveUp

Safety == Init /\ [][Next]_seqVars

\* Whatever has arrived is taken and the run ends when it is told to,
\* although the input may go on for ever.
Live == Safety /\ WF_seqVars(Take \/ Fail \/ Wind) /\ WF_seqVars(phase = "closing" /\ Complete)
================================================================================
