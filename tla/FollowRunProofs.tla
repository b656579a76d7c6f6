---------------------------- MODULE FollowRunProofs ----------------------------
(***************************************************************************)
(* Proofs about FollowRun, for every channel capacity, every set of lines  *)
(* and every length of input: nothing is lost, repeated or overtaken       *)
(* between stdin and the analyzer, the queue is bounded, SIGINT lets at    *)
(* most one more line through, the threads together implement the          *)
(* sequential loop of SequentialFollow, the exit status is the one the run *)
(* earned, every line fed has its notes and its result written once and in *)
(* time, and the totals are those of what was written.                     *)
(***************************************************************************)
EXTENDS FollowRun, DataLemmas

Items == Lines \cup {Err}

--------------------------------------------------------------------------------
(* Sequences                                                               *)

\* Taking the head of a non-empty front takes the head of the whole.
LEMMA HeadOfConcat ==
    ASSUME NEW S, NEW s \in Seq(S), NEW t \in Seq(S), s # << >>
    PROVE  /\ Head(s \o t) = Head(s)
           /\ Tail(s \o t) = Tail(s) \o t
           /\ s \o t # << >>
<1>1. Len(s) \in Nat /\ Len(s) # 0 /\ s \o t \in Seq(S) /\ Len(s \o t) = Len(s) + Len(t)
  OBVIOUS
<1>2. Head(s \o t) = Head(s) /\ s \o t # << >>
  BY <1>1
<1>3. Tail(s) \in Seq(S) /\ Len(Tail(s)) = Len(s) - 1
  BY <1>1
<1>4. Len(Tail(s \o t)) = Len(Tail(s) \o t)
  BY <1>1, <1>3
<1>5. ASSUME NEW i \in 1..Len(Tail(s) \o t)
      PROVE  Tail(s \o t)[i] = (Tail(s) \o t)[i]
  BY <1>1, <1>3
<1>6. Tail(s \o t) = Tail(s) \o t
  <2>1. Tail(s \o t) \in Seq(S) /\ Tail(s) \o t \in Seq(S)
    BY <1>1, <1>2, <1>3
  <2>. QED BY <2>1, <1>4, <1>5, SeqEqual
<1>. QED BY <1>2, <1>6

\* Moving one item from the front of the second to the back of the first.
LEMMA MoveItem ==
    ASSUME NEW S, NEW s \in Seq(S), NEW t \in Seq(S), t # << >>
    PROVE  Append(s, Head(t)) \o Tail(t) = s \o t
<1>1. Head(t) \in S /\ Tail(t) \in Seq(S) /\ Len(Tail(t)) = Len(t) - 1 /\ Len(t) \in Nat \ {0}
  OBVIOUS
<1>2. Append(s, Head(t)) \in Seq(S) /\ Len(Append(s, Head(t))) = Len(s) + 1
  BY <1>1
<1>3. Append(s, Head(t)) \o Tail(t) \in Seq(S) /\ s \o t \in Seq(S)
  BY <1>1, <1>2
<1>4. Len(Append(s, Head(t)) \o Tail(t)) = Len(s \o t)
  BY <1>1, <1>2
<1>5. ASSUME NEW i \in 1..Len(s \o t)
      PROVE  (Append(s, Head(t)) \o Tail(t))[i] = (s \o t)[i]
  BY <1>1, <1>2
<1>. QED BY <1>3, <1>4, <1>5, SeqEqual

\* An item put at the back of the last part is at the back of the whole.
LEMMA AppendToConcat ==
    ASSUME NEW S, NEW s \in Seq(S), NEW t \in Seq(S), NEW x \in S
    PROVE  s \o Append(t, x) = Append(s \o t, x)
<1>1. s \o Append(t, x) \in Seq(S) /\ Append(s \o t, x) \in Seq(S)
  OBVIOUS
<1>2. Len(s \o Append(t, x)) = Len(Append(s \o t, x))
  OBVIOUS
<1>3. ASSUME NEW i \in 1..Len(Append(s \o t, x))
      PROVE  (s \o Append(t, x))[i] = Append(s \o t, x)[i]
  OBVIOUS
<1>. QED BY <1>1, <1>2, <1>3, SeqEqual

--------------------------------------------------------------------------------
(* The inductive invariant                                                 *)

\* A read error is the last item there is, wherever it is.
ErrIsLast == \A i \in DOMAIN Queue : Queue[i] = Err => i = Len(Queue) /\ eof

\* What the reader's state says of its hand: it holds an item exactly while
\* it sends, and once it is done with a run still going nothing is left.
Reader ==
    /\ reader \in {"unborn", "reading"} => hand = << >>
    /\ main \in {"register", "notes"} => reader = "unborn"
    /\ reader = "sending" => Len(hand) = 1
    /\ reader = "done" /\ ~Over => hand = << >> /\ pipe = << >> /\ eof

Capacity == Len(chan) <= Cap

\* One line at most is fed after SIGINT, and then the flag is looked at.
AfterSigint ==
    /\ late \in {0, 1}
    /\ late = 1 => stop /\ main \notin {"register", "notes", "recv"}

\* Conserved, with what a read error leaves behind it.
Account ==
    \/ stream = fed \o Queue
    \/ Over /\ exit = "usage" /\ eof /\ stream = Append(fed, Err)

IInv == TypeOK /\ ErrIsLast /\ Reader /\ Capacity /\ AfterSigint /\ Account

LEMMA QueueType == TypeOK => Queue \in Seq(Items)
BY DEF TypeOK, Queue, Items

LEMMA InitInv == Init => IInv
<1>. SUFFICES ASSUME Init PROVE IInv
  OBVIOUS
<1>1. Queue = << >> /\ fed \o Queue = << >>
  BY DEF Init, Queue
<1>2. TypeOK
  <2>1. << >> \in Seq(Items) /\ << >> \in Seq(Lines) /\ Len(<< >>) = 0
    OBVIOUS
  <2>2. /\ stream \in Seq(Items) /\ pipe \in Seq(Items) /\ hand \in Seq(Items)
        /\ chan \in Seq(Items) /\ fed \in Seq(Lines) /\ Len(hand) <= 1
    BY <2>1 DEF Init
  <2>3. /\ sink \in {"open", "closed", "full"}
        /\ reader \in {"unborn", "reading", "sending", "done"}
        /\ main = "register" /\ exit = "none" /\ late = 0
    BY DEF Init
  <2>4. /\ eof \in BOOLEAN /\ stop \in BOOLEAN
        /\ warned \in BOOLEAN /\ content \in BOOLEAN /\ parsed \in BOOLEAN
    BY Zenon DEF Init
  <2>. QED BY <2>2, <2>3, <2>4 DEF TypeOK, Items
<1>3. ErrIsLast /\ Reader /\ AfterSigint /\ Account
  BY <1>1 DEF Init, ErrIsLast, Reader, AfterSigint, Account, Over
<1>4. Capacity
  BY CapAssumption DEF Init, Capacity
<1>. QED BY <1>2, <1>3, <1>4 DEF IInv

\* Types are kept by every step.
LEMMA TypeStep == TypeOK /\ [Next]_vars => TypeOK'
<1>. SUFFICES ASSUME TypeOK, [Next]_vars PROVE TypeOK'
  OBVIOUS
<1>. USE DEF world, thread, analyzer, output
<1>1. CASE UNCHANGED vars
  BY <1>1 DEF vars, TypeOK
<1>2. CASE \E item \in Lines \cup {Err} : Arrive(item)
  BY <1>2 DEF Arrive, TypeOK
<1>3. CASE CloseStdin
  BY <1>3 DEF CloseStdin, TypeOK
<1>4. CASE Sigint
  BY <1>4 DEF Sigint, TypeOK
<1>5. CASE \E how \in {"closed", "full"} : BreakStdout(how)
  BY <1>5 DEF BreakStdout, TypeOK
<1>6. CASE ReaderStep
  <2>1. CASE ReadItem
    BY <2>1 DEF ReadItem, TypeOK
  <2>2. CASE ReadEof
    BY <2>2 DEF ReadEof, TypeOK
  <2>3. CASE Send
    BY <2>3 DEF Send, TypeOK
  <2>4. CASE SendFails
    BY <2>4 DEF SendFails, TypeOK
  <2>. QED BY <1>6, <2>1, <2>2, <2>3, <2>4 DEF ReaderStep
<1>7. CASE MainStep
  <2>1. CASE RegisterFails
    BY <2>1 DEF RegisterFails, Return, TypeOK
  <2>2. CASE Register
    BY <2>2 DEF Register, TypeOK
  <2>3. CASE Write
    BY <2>3 DEF Write, TypeOK
  <2>4. CASE WriteFails
    BY <2>4 DEF WriteFails, Return, TypeOK
  <2>5. CASE Spawn \/ LoopAgain \/ CheckFlag \/ RecvTimeout
    BY <2>5 DEF Spawn, LoopAgain, CheckFlag, RecvTimeout, TypeOK
  <2>6. CASE RecvLine
    <3>1. chan # << >> /\ chan \in Seq(Items) /\ Head(chan) # Err
      BY <2>6 DEF RecvLine, TypeOK, Items
    <3>2. Head(chan) \in Lines /\ Tail(chan) \in Seq(Items)
      BY <3>1 DEF Items
    <3>3. fed' \in Seq(Lines) /\ chan' \in Seq(Items)
      BY <2>6, <3>2 DEF RecvLine, TypeOK
    <3>4. warned' \in BOOLEAN /\ content' \in BOOLEAN /\ parsed' \in BOOLEAN
      BY <2>6 DEF RecvLine, TypeOK
    <3>5. late' \in Nat
      BY <2>6 DEF RecvLine, TypeOK
    <3>. QED BY <2>6, <3>3, <3>4, <3>5 DEF RecvLine, TypeOK, Items
  <2>7. CASE RecvError
    BY <2>7 DEF RecvError, Return, TypeOK
  <2>8. CASE Finish \/ FinishTotals
    BY <2>8 DEF Finish, FinishTotals, TypeOK
  <2>9. CASE Finished
    BY <2>9 DEF Finished, Return, TypeOK
  <2>10. CASE Exit
    BY <2>10 DEF Exit, TypeOK
  <2>. QED BY <1>7, <2>1, <2>2, <2>3, <2>4, <2>5, <2>6, <2>7, <2>8, <2>9, <2>10 DEF MainStep
<1>. QED BY <1>1, <1>2, <1>3, <1>4, <1>5, <1>6, <1>7 DEF Next, Environment, Gone

\* THEOREM: the type invariant holds of every run, whatever the capacity, the
\* lines and the length of the input.
THEOREM TypeCorrect == Spec => []TypeOK
<1>1. Init => TypeOK
  BY InitInv DEF IInv
<1>. QED BY <1>1, TypeStep, PTL DEF Spec

--------------------------------------------------------------------------------
(* What a step does to the queue                                           *)

\* An arrival goes to the back of the whole queue.
LEMMA ArriveQueue ==
    ASSUME TypeOK, NEW item \in Items, Arrive(item)
    PROVE  Queue' = Append(Queue, item)
<1>1. chan \o hand \in Seq(Items) /\ pipe \in Seq(Items)
  BY DEF TypeOK, Items
<1>2. Queue' = (chan \o hand) \o Append(pipe, item)
  BY DEF Arrive, Queue, thread
<1>. QED BY <1>1, <1>2, AppendToConcat DEF Queue

\* The reader moves items along the queue and changes nothing about it.
LEMMA ReaderQueue ==
    ASSUME TypeOK, Reader, ReaderStep
    PROVE  Queue' = Queue
<1>1. chan \in Seq(Items) /\ hand \in Seq(Items) /\ pipe \in Seq(Items)
  BY DEF TypeOK, Items
<1>2. CASE ReadItem
  <2>1. hand = << >> /\ pipe # << >>
    BY <1>2 DEF ReadItem, Reader
  <2>2. Queue' = (chan \o <<Head(pipe)>>) \o Tail(pipe)
    BY <1>2 DEF ReadItem, Queue
  <2>3. chan \o <<Head(pipe)>> = Append(chan, Head(pipe)) /\ chan \o hand = chan
    BY <1>1, <2>1, AppendIsConcat, ConcatEmptySeq
  <2>4. Append(chan, Head(pipe)) \o Tail(pipe) = chan \o pipe
    BY <1>1, <2>1, MoveItem
  <2>. QED BY <2>2, <2>3, <2>4 DEF Queue
<1>3. CASE Send
  <2>1. Queue' = ((chan \o hand) \o << >>) \o pipe
    BY <1>3 DEF Send, Queue, world
  <2>2. chan \o hand \in Seq(Items)
    BY <1>1
  <2>3. (chan \o hand) \o << >> = chan \o hand
    BY <2>2, ConcatEmptySeq
  <2>. QED BY <2>1, <2>3 DEF Queue
<1>4. CASE ReadEof
  BY <1>4 DEF ReadEof, Queue, world
<1>5. CASE SendFails
  BY <1>5 DEF SendFails, Queue, world
<1>. QED BY <1>2, <1>3, <1>4, <1>5 DEF ReaderStep

\* What the main thread receives is the head of the whole queue.
LEMMA RecvQueue ==
    ASSUME TypeOK, RecvLine \/ RecvError
    PROVE  Queue # << >> /\ Head(Queue) = Head(chan) /\ Queue' = Tail(Queue)
<1>1. chan \in Seq(Items) /\ hand \in Seq(Items) /\ pipe \in Seq(Items) /\ chan # << >>
  BY DEF TypeOK, Items, RecvLine, RecvError
<1>2. chan \o hand # << >> /\ Head(chan \o hand) = Head(chan)
      /\ Tail(chan \o hand) = Tail(chan) \o hand /\ chan \o hand \in Seq(Items)
  BY <1>1, HeadOfConcat
<1>3. Queue # << >> /\ Head(Queue) = Head(chan) /\ Tail(Queue) = (Tail(chan) \o hand) \o pipe
  BY <1>1, <1>2, HeadOfConcat DEF Queue
<1>4. Queue' = (Tail(chan) \o hand) \o pipe
  BY DEF RecvLine, RecvError, Queue, world
<1>. QED BY <1>3, <1>4

\* The main thread's other steps do not touch it.
OtherMainStep ==
    \/ RegisterFails \/ Register \/ Write \/ WriteFails \/ Spawn \/ LoopAgain
    \/ CheckFlag \/ RecvTimeout \/ Finish \/ FinishTotals \/ Finished \/ Exit

LEMMA OtherQueue ==
    ASSUME OtherMainStep
    PROVE  Queue' = Queue /\ UNCHANGED <<world, hand, chan, fed, late>>
BY DEF OtherMainStep, RegisterFails, Register, Write, WriteFails, Spawn, LoopAgain, CheckFlag,
       RecvTimeout, Finish, FinishTotals, Finished, Exit, Queue, world, thread, analyzer

--------------------------------------------------------------------------------
(* The invariant is inductive                                              *)

\* The parts that speak of the queue, for a step that leaves it alone.
LEMMA QueueSame ==
    ASSUME ErrIsLast, Account, Queue' = Queue, UNCHANGED <<fed, stream>>,
           eof => eof', Over => Over' /\ exit' = exit
    PROVE  ErrIsLast' /\ Account'
<1>1. ErrIsLast'
  BY DEF ErrIsLast
<1>2. Account'
  BY DEF Account
<1>. QED BY <1>1, <1>2

LEMMA ArriveInv ==
    ASSUME IInv, NEW item \in Items, Arrive(item)
    PROVE  ErrIsLast' /\ Reader' /\ Capacity' /\ AfterSigint' /\ Account'
<1>. USE DEF IInv
<1>1. Queue' = Append(Queue, item) /\ Queue \in Seq(Items)
  BY ArriveQueue, QueueType
<1>2. ~eof /\ eof' = (item = Err) /\ stream' = Append(stream, item) /\ fed' = fed
      /\ pipe' = Append(pipe, item)
      /\ UNCHANGED <<reader, hand, chan, main, exit, stop, late>>
  BY DEF Arrive, analyzer, thread
<1>3. ErrIsLast'
  <2>1. \A i \in DOMAIN Queue : Queue[i] # Err
    BY <1>2 DEF ErrIsLast
  <2>2. Len(Queue') = Len(Queue) + 1 /\ DOMAIN Queue' = 1..Len(Queue')
    BY <1>1
  <2>3. ASSUME NEW i \in DOMAIN Queue', Queue'[i] = Err
        PROVE  i = Len(Queue') /\ eof'
    <3>1. i # Len(Queue') => i \in DOMAIN Queue /\ Queue'[i] = Queue[i]
      BY <1>1, <2>2, <2>3
    <3>2. i = Len(Queue')
      BY <3>1, <2>1, <2>3
    <3>3. Queue'[i] = item
      BY <1>1, <2>2, <3>2
    <3>. QED BY <1>2, <2>3, <3>2, <3>3
  <2>. QED BY <2>3 DEF ErrIsLast
<1>4. Account'
  <2>1. fed \in Seq(Items) /\ stream = fed \o Queue
    BY <1>2 DEF TypeOK, Items, Account
  <2>2. fed \o Append(Queue, item) = Append(fed \o Queue, item)
    BY <1>1, <2>1, AppendToConcat
  <2>. QED BY <1>1, <1>2, <2>1, <2>2 DEF Account
<1>5. Reader'
  BY <1>2 DEF Reader, Over
<1>6. Capacity' /\ AfterSigint'
  BY <1>2 DEF Capacity, AfterSigint
<1>. QED BY <1>3, <1>4, <1>5, <1>6

LEMMA ReaderInv ==
    ASSUME IInv, ReaderStep
    PROVE  ErrIsLast' /\ Reader' /\ Capacity' /\ AfterSigint' /\ Account'
<1>. USE DEF IInv
<1>1. UNCHANGED <<eof, stop, stream, main, exit, fed, late>>
  BY DEF ReaderStep, ReadItem, ReadEof, Send, SendFails, world, analyzer
<1>2. ErrIsLast' /\ Account'
  BY <1>1, ReaderQueue, QueueSame DEF Over
<1>3. Capacity'
  <2>1. CASE Send
    <3>1. Len(chan) < Cap /\ Len(hand) <= 1 /\ chan' = chan \o hand
      BY <2>1 DEF Send, TypeOK
    <3>2. Len(chan \o hand) = Len(chan) + Len(hand) /\ Len(chan) \in Nat /\ Len(hand) \in Nat
      BY DEF TypeOK
    <3>. QED BY <3>1, <3>2, CapAssumption DEF Capacity
  <2>2. CASE ~Send
    BY <2>2 DEF ReaderStep, ReadItem, ReadEof, SendFails, Capacity
  <2>. QED BY <2>1, <2>2
<1>4. AfterSigint'
  BY <1>1 DEF AfterSigint
<1>5. Reader'
  <2>1. CASE ReadItem
    <3>1. hand' = <<Head(pipe)>> /\ reader' = "sending"
      BY <2>1 DEF ReadItem
    <3>2. Len(<<Head(pipe)>>) = 1
      OBVIOUS
    <3>3. main' = main /\ main \notin {"register", "notes"}
      BY <2>1 DEF ReadItem, Reader
    <3>. QED BY <3>1, <3>2, <3>3 DEF Reader
  <2>2. CASE ReadEof
    BY <2>2 DEF ReadEof, Reader, world
  <2>3. CASE Send
    <3>1. hand' = << >> /\ reader' \in {"reading", "done"} /\ pipe' = pipe /\ eof' = eof
      BY <2>3 DEF Send, world
    <3>2. ASSUME reader' = "done" PROVE pipe = << >> /\ eof
      <4>1. hand = <<Err>>
        BY <2>3, <3>2 DEF Send
      <4>2. chan \in Seq(Items) /\ hand \in Seq(Items) /\ pipe \in Seq(Items) /\ Len(hand) = 1
        BY <4>1 DEF TypeOK, Items
      <4>3. Len(Queue) = Len(chan) + 1 + Len(pipe) /\ Len(chan) + 1 \in DOMAIN Queue
            /\ Queue[Len(chan) + 1] = hand[1]
        <5>1. chan \o hand \in Seq(Items) /\ Len(chan \o hand) = Len(chan) + 1
              /\ (chan \o hand)[Len(chan) + 1] = hand[1]
          <6>1. chan \o hand \in Seq(Items) /\ Len(chan \o hand) = Len(chan) + Len(hand)
            BY <4>2, ConcatProperties
          <6>2. Len(chan) \in Nat /\ Len(chan) + 1 \in 1..(Len(chan) + Len(hand))
            BY <4>2
          <6>3. (chan \o hand)[Len(chan) + 1] = hand[(Len(chan) + 1) - Len(chan)]
            BY <4>2, <6>2, ConcatProperties
          <6>. QED BY <4>2, <6>1, <6>2, <6>3
        <5>2. Len(Queue) = Len(chan \o hand) + Len(pipe) /\ DOMAIN Queue = 1..Len(Queue)
          BY <4>2, <5>1 DEF Queue
        <5>3. Queue[Len(chan) + 1] = (chan \o hand)[Len(chan) + 1]
          BY <4>2, <5>1 DEF Queue
        <5>4. Len(chan) \in Nat /\ Len(pipe) \in Nat
          BY <4>2
        <5>. QED BY <5>1, <5>2, <5>3, <5>4
      <4>4. Len(chan) + 1 = Len(Queue) /\ eof
        BY <4>1, <4>3 DEF ErrIsLast
      <4>5. Len(pipe) = 0
        BY <4>2, <4>3, <4>4
      <4>. QED BY <4>2, <4>4, <4>5
    <3>3. main' = main /\ main \notin {"register", "notes"}
      BY <2>3 DEF Send, Reader
    <3>. QED BY <3>1, <3>2, <3>3 DEF Reader, Over
  <2>4. CASE SendFails
    BY <2>4, <1>1 DEF SendFails, Reader, Over
  <2>. QED BY <2>1, <2>2, <2>3, <2>4 DEF ReaderStep
<1>. QED BY <1>2, <1>3, <1>4, <1>5

LEMMA RecvInv ==
    ASSUME IInv, RecvLine \/ RecvError
    PROVE  ErrIsLast' /\ Reader' /\ Capacity' /\ AfterSigint' /\ Account'
<1>. USE DEF IInv
<1>1. main = "recv" /\ chan # << >> /\ chan' = Tail(chan)
      /\ UNCHANGED <<pipe, eof, stop, stream, reader, hand>>
  BY DEF RecvLine, RecvError, world
<1>2. Queue \in Seq(Items) /\ Queue # << >> /\ Head(Queue) = Head(chan) /\ Queue' = Tail(Queue)
  BY QueueType, RecvQueue
<1>3. stream = fed \o Queue
  BY <1>1 DEF Account, Over
<1>4. ErrIsLast'
  <2>1. Len(Queue') = Len(Queue) - 1 /\ DOMAIN Queue' = 1..Len(Queue') /\ Len(Queue) \in Nat \ {0}
        /\ DOMAIN Queue = 1..Len(Queue)
    BY <1>2
  <2>2. ASSUME NEW i \in DOMAIN Queue', Queue'[i] = Err
        PROVE  i = Len(Queue') /\ eof'
    <3>1. i + 1 \in DOMAIN Queue /\ Queue'[i] = Queue[i + 1]
      BY <1>2, <2>1
    <3>2. i + 1 = Len(Queue) /\ eof
      BY <2>2, <3>1 DEF ErrIsLast
    <3>. QED BY <1>1, <2>1, <3>2
  <2>. QED BY <2>2 DEF ErrIsLast
<1>5. Capacity'
  <2>1. chan \in Seq(Items) /\ Len(Tail(chan)) = Len(chan) - 1 /\ Len(chan) \in Nat
    BY <1>1 DEF TypeOK, Items
  <2>. QED BY <1>1, <2>1, CapAssumption DEF Capacity
<1>6. CASE RecvLine
  <2>1. fed' = Append(fed, Head(Queue)) /\ main' = "write" /\ late' = IF stop THEN late + 1 ELSE late
    BY <1>2, <1>6 DEF RecvLine
  <2>2. Account'
    <3>1. fed \in Seq(Items)
      BY DEF TypeOK, Items
    <3>2. Append(fed, Head(Queue)) \o Tail(Queue) = fed \o Queue
      BY <1>2, <3>1, MoveItem
    <3>. QED BY <1>1, <1>2, <1>3, <2>1, <3>2 DEF Account
  <2>3. AfterSigint'
    BY <1>1, <2>1 DEF AfterSigint
  <2>4. Reader'
    BY <1>1, <2>1 DEF Reader, Over
  <2>. QED BY <1>4, <1>5, <2>2, <2>3, <2>4
<1>7. CASE RecvError
  <2>1. fed' = fed /\ main' = "returned" /\ exit' = "usage" /\ late' = late /\ Head(Queue) = Err
    BY <1>2, <1>7 DEF RecvError, Return, analyzer
  <2>2. Account'
    <3>1. 1 \in DOMAIN Queue /\ Queue[1] = Err
      BY <1>2, <2>1
    <3>2. Len(Queue) = 1 /\ eof
      BY <3>1 DEF ErrIsLast
    <3>3. Queue = <<Err>>
      BY <1>2, <3>1, <3>2, SeqEqual
    <3>4. fed \in Seq(Items) /\ Err \in Items
      BY DEF TypeOK, Items
    <3>5. Append(fed, Err) = fed \o <<Err>>
      BY <3>4, AppendIsConcat
    <3>. QED BY <1>1, <1>3, <2>1, <3>2, <3>3, <3>5 DEF Account, Over
  <2>3. AfterSigint'
    BY <1>1, <2>1 DEF AfterSigint
  <2>4. Reader'
    BY <1>1, <2>1 DEF Reader, Over
  <2>. QED BY <1>4, <1>5, <2>2, <2>3, <2>4
<1>. QED BY <1>6, <1>7

LEMMA OtherInv ==
    ASSUME IInv, OtherMainStep
    PROVE  ErrIsLast' /\ Reader' /\ Capacity' /\ AfterSigint' /\ Account'
<1>. USE DEF IInv
<1>1. Queue' = Queue /\ UNCHANGED <<pipe, eof, stop, stream, hand, chan, fed, late>>
  BY OtherQueue DEF world
<1>2. Over => Over' /\ exit' = exit
  BY DEF OtherMainStep, RegisterFails, Register, Write, WriteFails, Spawn, LoopAgain, CheckFlag,
         RecvTimeout, Finish, FinishTotals, Finished, Exit, Over
<1>3. ErrIsLast' /\ Account'
  BY <1>1, <1>2, QueueSame
<1>4. reader' = reader \/ (main = "notes" /\ reader' = "reading")
  BY DEF OtherMainStep, RegisterFails, Register, Write, WriteFails, Spawn, LoopAgain, CheckFlag,
         RecvTimeout, Finish, FinishTotals, Finished, Exit, thread
<1>5. main' \in {"register", "notes"} => main \in {"register", "notes"} /\ reader' = reader
  BY DEF OtherMainStep, RegisterFails, Register, Write, WriteFails, Spawn, LoopAgain, CheckFlag,
         RecvTimeout, Finish, FinishTotals, Finished, Exit, Return, thread
<1>8. Reader'
  BY <1>1, <1>2, <1>4, <1>5 DEF Reader, Over
<1>6. AfterSigint'
  BY <1>1 DEF AfterSigint, OtherMainStep, RegisterFails, Register, Write, WriteFails, Spawn,
         LoopAgain, CheckFlag, RecvTimeout, Finish, FinishTotals, Finished, Exit, Return
<1>7. Capacity'
  BY <1>1 DEF Capacity
<1>. QED BY <1>3, <1>6, <1>7, <1>8

\* Every step keeps the invariant.
LEMMA InvStep == IInv /\ [Next]_vars => IInv'
<1>. SUFFICES ASSUME IInv, [Next]_vars PROVE IInv'
  OBVIOUS
<1>. USE DEF IInv
<1>1. TypeOK'
  BY TypeStep
<1>2. CASE \E item \in Items : Arrive(item)
  BY <1>1, <1>2, ArriveInv
<1>3. CASE CloseStdin \/ Sigint \/ (\E how \in {"closed", "full"} : BreakStdout(how))
  <2>1. Queue' = Queue /\ UNCHANGED <<pipe, stream, reader, hand, chan, fed, late>>
        /\ (eof => eof') /\ (stop => stop')
    BY <1>3 DEF CloseStdin, Sigint, BreakStdout, Queue, thread, analyzer
  <2>2. \/ UNCHANGED <<main, exit>>
        \/ ~Over /\ main' = "exited"
    BY <1>3 DEF CloseStdin, Sigint, BreakStdout, Over
  <2>3. Over => Over' /\ exit' = exit
    BY <2>2 DEF Over
  <2>4. ErrIsLast' /\ Account'
    BY <2>1, <2>3, QueueSame
  <2>5. Reader' /\ Capacity'
    BY <2>1, <2>2 DEF Reader, Capacity, Over
  <2>6. AfterSigint'
    BY <2>1, <2>2 DEF AfterSigint
  <2>. QED BY <1>1, <2>4, <2>5, <2>6
<1>4. CASE ReaderStep
  BY <1>1, <1>4, ReaderInv
<1>5. CASE RecvLine \/ RecvError
  BY <1>1, <1>5, RecvInv
<1>6. CASE OtherMainStep
  BY <1>1, <1>6, OtherInv
<1>7. CASE UNCHANGED vars
  BY <1>1, <1>7 DEF vars, world, thread, analyzer, output, ErrIsLast, Reader, Capacity,
         AfterSigint, Account, Queue, Over
<1>. QED BY <1>2, <1>3, <1>4, <1>5, <1>6, <1>7
         DEF Next, Environment, MainStep, OtherMainStep, Gone, Items

LEMMA Invariant == Spec => []IInv
BY InitInv, InvStep, PTL DEF Spec

--------------------------------------------------------------------------------
(* The theorems                                                            *)

\* THEOREM: whichever thread holds a line, none is lost, repeated or
\* overtaken on its way from stdin to the analyzer.
THEOREM NothingLost == Spec => []Conserved
<1>1. IInv => Conserved
  BY DEF IInv, Account, Conserved
<1>. QED BY <1>1, Invariant, PTL

\* THEOREM: what is read and not yet analysed never exceeds the channel and
\* the one line the reader holds.
THEOREM QueueBounded == Spec => []Backpressure
<1>1. IInv => Backpressure
  <2>. SUFFICES ASSUME IInv PROVE Backpressure
    OBVIOUS
  <2>1. Len(chan \o hand) = Len(chan) + Len(hand) /\ Len(chan) \in Nat /\ Len(hand) \in Nat
        /\ Len(hand) <= 1
    BY DEF IInv, TypeOK
  <2>. QED BY <2>1, CapAssumption DEF IInv, Capacity, Backpressure
<1>. QED BY <1>1, Invariant, PTL

\* THEOREM: SIGINT lets at most the line already waited for through.
THEOREM StopIsPrompt == Spec => []PromptStop
<1>1. IInv => PromptStop
  BY DEF IInv, AfterSigint, PromptStop
<1>. QED BY <1>1, Invariant, PTL

\* THEOREM: reader thread, channel and main loop together are one sequential
\* loop that takes the items of stdin in the order they arrive, each once, and
\* stops reading only for SIGINT, for an exhausted input, for a read error in
\* its place, or for a broken stdout.
THEOREM ImplementsSequential == Spec => Sequential
<1>1. Init => Seq1!Init
  BY DEF Init, Seq1!Init, Queue, Phase
<1>2. IInv /\ [Next]_vars => [Seq1!Next]_(Seq1!seqVars)
  <2>. SUFFICES ASSUME IInv, [Next]_vars
               PROVE  Seq1!Next \/ UNCHANGED <<Queue, eof, stop, sink # "open", fed, Phase>>
    BY DEF Seq1!seqVars
  <2>. USE DEF IInv
  <2>1. CASE \E item \in Items : Arrive(item)
    <3>1. PICK item \in Items : Arrive(item)
      BY <2>1
    <3>2. Queue' = Append(Queue, item)
      BY <3>1, ArriveQueue
    <3>3. ~eof /\ eof' = (item = Err) /\ UNCHANGED <<stop, sink, fed, main>>
      BY <3>1 DEF Arrive, analyzer
    <3>4. Seq1!Arrive
      BY <3>2, <3>3 DEF Seq1!Arrive, Phase, Items
    <3>. QED BY <3>4 DEF Seq1!Next
  <2>2. CASE CloseStdin
    <3>1. Seq1!Close
      BY <2>2 DEF CloseStdin, Seq1!Close, Queue, Phase, thread, analyzer
    <3>. QED BY <3>1 DEF Seq1!Next
  <2>3. CASE Sigint
    <3>1. Seq1!Interrupt
      BY <2>3 DEF Sigint, Seq1!Interrupt, Queue, Phase, thread, analyzer
    <3>. QED BY <3>1 DEF Seq1!Next
  <2>4. CASE \E how \in {"closed", "full"} : BreakStdout(how)
    <3>1. Seq1!Break
      BY <2>4 DEF BreakStdout, Seq1!Break, Queue, Phase, thread, analyzer
    <3>. QED BY <3>1 DEF Seq1!Next
  <2>5. CASE ReaderStep
    <3>1. UNCHANGED <<eof, stop, sink, fed, main>>
      BY <2>5 DEF ReaderStep, ReadItem, ReadEof, Send, SendFails, world, analyzer
    <3>. QED BY <2>5, <3>1, ReaderQueue DEF Phase
  <2>6. CASE RecvLine
    <3>1. Queue # << >> /\ Head(Queue) = Head(chan) /\ Queue' = Tail(Queue)
      BY <2>6, RecvQueue
    <3>2. Seq1!Take
      BY <2>6, <3>1 DEF RecvLine, Seq1!Take, Phase, world
    <3>. QED BY <3>2 DEF Seq1!Next
  <2>7. CASE RecvError
    <3>1. Queue # << >> /\ Head(Queue) = Head(chan) /\ Queue' = Tail(Queue)
      BY <2>7, RecvQueue
    <3>2. Seq1!Fail
      BY <2>7, <3>1 DEF RecvError, Return, Seq1!Fail, Phase, world, analyzer
    <3>. QED BY <3>2 DEF Seq1!Next
  <2>8. CASE OtherMainStep
    <3>1. Queue' = Queue /\ UNCHANGED <<eof, stop, sink, fed>>
      BY <2>8, OtherQueue DEF world
    <3>2. CASE RegisterFails \/ Finished
      <4>1. Seq1!Complete
        BY <3>1, <3>2 DEF RegisterFails, Finished, Return, Seq1!Complete, Phase
      <4>. QED BY <4>1 DEF Seq1!Next
    <3>3. CASE Spawn
      <4>1. Seq1!Begin
        BY <3>1, <3>3 DEF Spawn, Seq1!Begin, Phase
      <4>. QED BY <4>1 DEF Seq1!Next
    <3>4. CASE WriteFails
      <4>1. Phase' = "over" /\ sink # "open" /\ Phase \in {"starting", "reading", "closing"}
        BY <3>4 DEF WriteFails, Return, Phase
      <4>2. Seq1!Complete \/ Seq1!GiveUp
        BY <3>1, <4>1 DEF Seq1!Complete, Seq1!GiveUp
      <4>. QED BY <4>2 DEF Seq1!Next
    <3>5. CASE Finish
      <4>1. stop \/ (eof /\ Queue = << >>)
        <5>1. CASE main = "recv" /\ chan = << >> /\ reader = "done"
          <6>1. chan = << >> /\ hand = << >> /\ pipe = << >> /\ eof
            BY <5>1 DEF Reader, Over
          <6>2. Queue = << >>
            BY <6>1 DEF Queue
          <6>. QED BY <6>1, <6>2
        <5>. QED BY <3>5, <5>1 DEF Finish
      <4>2. Seq1!Wind
        BY <3>1, <3>5, <4>1 DEF Finish, Seq1!Wind, Phase
      <4>. QED BY <4>2 DEF Seq1!Next
    <3>6. CASE Register \/ Write \/ LoopAgain \/ CheckFlag \/ RecvTimeout \/ FinishTotals \/ Exit
      BY <3>1, <3>6 DEF Register, Write, LoopAgain, CheckFlag, RecvTimeout, FinishTotals, Exit, Phase
    <3>. QED BY <2>8, <3>2, <3>3, <3>4, <3>5, <3>6 DEF OtherMainStep
  <2>9. CASE UNCHANGED vars
    BY <2>9 DEF vars, world, thread, analyzer, Queue, Phase
  <2>. QED BY <2>1, <2>2, <2>3, <2>4, <2>5, <2>6, <2>7, <2>8, <2>9
           DEF Next, Environment, MainStep, OtherMainStep, Gone, Items
<1>. QED BY <1>1, <1>2, Invariant, PTL DEF Spec, Sequential, Seq1!Safety
--------------------------------------------------------------------------------
(* The exit status                                                         *)

FedContent == \E i \in DOMAIN fed : fed[i].content
FedParsed == \E i \in DOMAIN fed : fed[i].parsed

\* What each status needs of the run that returned it, and what the end of a
\* run that was not interrupted knows of its input.
StatusInv ==
    /\ content <=> FedContent
    /\ parsed <=> FedParsed
    /\ Over <=> exit # "none"
    /\ main = "register" => out = << >>
    /\ main \in {"ending", "totals"} \/ Complete => stop \/ (eof /\ fed = stream)
    /\ Complete => (exit = "unparseable" <=> content /\ ~parsed)
    /\ exit = "ok" /\ todo # << >> => sink = "closed"
    /\ exit = "usage" => \/ stream = Append(fed, Err) /\ eof
                         \/ sink = "full"
                         \/ reader = "unborn" /\ out = << >>
    /\ exit = "killed" => reader = "unborn" /\ out = << >>

LEMMA StatusInit == Init => StatusInv
BY DEF Init, StatusInv, FedContent, FedParsed, Over, Complete

\* A step of the world: more input, SIGINT, a broken stdout.
LEMMA StatusWorld ==
    ASSUME IInv, StatusInv, Environment
    PROVE  StatusInv'
<1>1. UNCHANGED <<hand, chan, reader, fed, warned, content, parsed, todo, totals, out, late>>
  BY DEF Environment, Arrive, CloseStdin, Sigint, BreakStdout, thread, analyzer, output
<1>2. FedContent' = FedContent /\ FedParsed' = FedParsed
  BY <1>1 DEF FedContent, FedParsed
<1>3. CASE \E item \in Lines \cup {Err} : Arrive(item)
  BY <1>1, <1>2, <1>3 DEF Arrive, StatusInv, Over, Complete
<1>4. CASE CloseStdin
  BY <1>1, <1>2, <1>4 DEF CloseStdin, StatusInv, Over, Complete
<1>5. CASE Sigint
  BY <1>1, <1>2, <1>5 DEF Sigint, StatusInv, Over, Complete, IInv, Reader, Running
<1>6. CASE \E how \in {"closed", "full"} : BreakStdout(how)
  BY <1>1, <1>2, <1>6 DEF BreakStdout, StatusInv, Over, Complete, Running
<1>. QED BY <1>3, <1>4, <1>5, <1>6 DEF Environment

LEMMA StatusReader ==
    ASSUME IInv, StatusInv, ReaderStep
    PROVE  StatusInv'
<1>1. /\ UNCHANGED <<stream, eof, stop, sink, main, exit, fed, content, parsed, todo, out>>
      /\ reader # "unborn"
  BY DEF ReaderStep, ReadItem, ReadEof, Send, SendFails, world, analyzer, output
<1>2. FedContent' = FedContent /\ FedParsed' = FedParsed
  BY <1>1 DEF FedContent, FedParsed
<1>. QED BY <1>1, <1>2 DEF StatusInv, Over, Complete

LEMMA StatusMain ==
    ASSUME IInv, StatusInv, MainStep
    PROVE  StatusInv'
<1>. USE DEF world, thread, analyzer, output
<1>1. CASE RecvLine
  <2>1. fed \in Seq(Lines) /\ Head(chan) \in Lines /\ fed' = Append(fed, Head(chan))
    BY <1>1 DEF RecvLine, IInv, TypeOK
  <2>2. DOMAIN fed' = DOMAIN fed \cup {Len(fed) + 1} /\ fed'[Len(fed) + 1] = Head(chan)
        /\ \A i \in DOMAIN fed : fed'[i] = fed[i]
    BY <2>1, Appended
  <2>3. /\ FedContent' <=> FedContent \/ Head(chan).content
        /\ FedParsed' <=> FedParsed \/ Head(chan).parsed
    BY <2>2 DEF FedContent, FedParsed
  <2>4. /\ content' <=> content \/ Head(chan).content
        /\ parsed' <=> parsed \/ Head(chan).parsed
    BY <1>1 DEF RecvLine
  <2>5. main = "recv" /\ main' = "write" /\ exit' = exit
    BY <1>1 DEF RecvLine
  <2>. QED BY <2>3, <2>4, <2>5 DEF StatusInv, Over, Complete
<1>2. CASE RecvError
  <2>1. stream = fed \o Queue
    BY <1>2 DEF IInv, Account, RecvError, Over
  <2>2. Queue \in Seq(Items) /\ Queue # << >> /\ Head(Queue) = Err
    BY <1>2, QueueType, RecvQueue DEF IInv, RecvError
  <2>3. Len(Queue) = 1 /\ Queue[1] = Err /\ eof
    <3>1. 1 \in DOMAIN Queue /\ Queue[1] = Err
      BY <2>2
    <3>. QED BY <3>1 DEF IInv, ErrIsLast
  <2>4. stream = Append(fed, Err)
    <3>1. fed \in Seq(Items) /\ Err \in Items /\ Queue = <<Err>>
      BY <2>2, <2>3, SeqEqual DEF IInv, TypeOK, Items
    <3>. QED BY <2>1, <3>1, AppendIsConcat
  <2>5. UNCHANGED <<stream, eof, fed, content, parsed>> /\ main' = "returned" /\ exit' = "usage"
    BY <1>2 DEF RecvError, Return
  <2>6. FedContent' = FedContent /\ FedParsed' = FedParsed
    BY <2>5 DEF FedContent, FedParsed
  <2>. QED BY <2>3, <2>4, <2>5, <2>6 DEF StatusInv, Over, Complete
<1>3. CASE OtherMainStep
  <2>1. UNCHANGED <<pipe, eof, stop, sink, stream, fed, content, parsed>>
    BY <1>3 DEF OtherMainStep, RegisterFails, Register, Write, WriteFails, Spawn, LoopAgain,
         CheckFlag, RecvTimeout, Finish, FinishTotals, Finished, Exit
  <2>2. FedContent' = FedContent /\ FedParsed' = FedParsed
    BY <2>1 DEF FedContent, FedParsed
  <2>3. CASE RegisterFails \/ Register
    BY <2>1, <2>2, <2>3 DEF RegisterFails, Register, Return, StatusInv, Over, Complete, IInv, Reader
  <2>4. CASE Write
    BY <2>1, <2>2, <2>4 DEF Write, StatusInv, Over, Complete
  <2>5. CASE WriteFails
    BY <2>1, <2>2, <2>5 DEF WriteFails, Return, StatusInv, Over, Complete, IInv, TypeOK
  <2>6. CASE Spawn \/ LoopAgain \/ CheckFlag \/ RecvTimeout
    BY <2>1, <2>2, <2>6 DEF Spawn, LoopAgain, CheckFlag, RecvTimeout, StatusInv, Over, Complete
  <2>7. CASE Finish
    <3>1. stop \/ (eof /\ fed = stream)
      <4>1. CASE main = "recv" /\ chan = << >> /\ reader = "done"
        <5>1. hand = << >> /\ pipe = << >> /\ eof /\ stream = fed \o Queue
          BY <4>1 DEF IInv, Reader, Account, Over
        <5>2. Queue = << >> /\ fed \in Seq(Lines)
          BY <4>1, <5>1 DEF Queue, IInv, TypeOK
        <5>. QED BY <5>1, <5>2, ConcatEmptySeq
      <4>. QED BY <2>7, <4>1 DEF Finish
    <3>. QED BY <2>1, <2>2, <2>7, <3>1 DEF Finish, StatusInv, Over, Complete
  <2>8. CASE FinishTotals
    BY <2>1, <2>2, <2>8 DEF FinishTotals, StatusInv, Over, Complete
  <2>9. CASE Finished
    BY <2>1, <2>2, <2>9 DEF Finished, Return, StatusInv, Over, Complete
  <2>10. CASE Exit
    BY <2>1, <2>2, <2>10 DEF Exit, StatusInv, Over, Complete
  <2>. QED BY <1>3, <2>3, <2>4, <2>5, <2>6, <2>7, <2>8, <2>9, <2>10 DEF OtherMainStep
<1>. QED BY <1>1, <1>2, <1>3 DEF MainStep, OtherMainStep

LEMMA StatusStep == IInv /\ StatusInv /\ [Next]_vars => StatusInv'
<1>. SUFFICES ASSUME IInv, StatusInv, [Next]_vars PROVE StatusInv'
  OBVIOUS
<1>1. CASE UNCHANGED vars
  BY <1>1 DEF vars, world, thread, analyzer, output, StatusInv, Over, Complete, FedContent, FedParsed
<1>. QED BY <1>1, StatusWorld, StatusReader, StatusMain DEF Next, Gone

\* THEOREM: the status is the one the run earned, whatever the interleaving of
\* the two threads, SIGINT, and the moment stdout breaks: 2 exactly for input
\* that held no field, 0 for a complete run or a closed pipe, 1 for a read
\* error in its place, a full disk or no handler.
THEOREM StatusEarned == Spec => []ExitStatus
<1>1. IInv /\ StatusInv => ExitStatus
  <2>. SUFFICES ASSUME IInv, StatusInv PROVE ExitStatus
    OBVIOUS
  <2>1. FedParsed <=> ~ \A i \in DOMAIN fed : ~fed[i].parsed
    BY DEF FedParsed
  <2>. QED BY <2>1 DEF StatusInv, ExitStatus, FedContent
<1>. QED BY <1>1, StatusInit, StatusStep, Invariant, PTL DEF Spec

--------------------------------------------------------------------------------
(* Pieces                                                                  *)

Messages ==
    (UNION {ToSet(l.notes) : l \in Lines})
    \cup ToSet(HostNotes) \cup ToSet(SourceNotes) \cup ToSet(RunNotes)
    \cup {"text", "corrupt", "report"}
Kinds == {"host", "note", "text", "corrupt", "source", "run", "report", "total"}
Pieces == [what : Kinds, line : Nat, msg : Messages, n : Nat]
Totals == [msg : Messages, n : Nat]

\* The pieces of a kind about a line, and those of a kind with a message.
At(what, i) == {p \in Pieces : p.what = what /\ p.line = i}
Saying(what, m) == {p \in Pieces : p.what = what /\ p.msg = m}

LEMMA NotesTyped ==
    /\ \A l \in Lines : l.notes \in Seq(Messages)
    /\ HostNotes \in Seq(Messages) /\ SourceNotes \in Seq(Messages) /\ RunNotes \in Seq(Messages)
<1>1. ASSUME NEW s, s \in Seq(ToSet(s)), ToSet(s) \subseteq Messages PROVE s \in Seq(Messages)
  <2>1. Len(s) \in Nat /\ DOMAIN s = 1..Len(s) /\ s = [i \in 1..Len(s) |-> s[i]]
    BY <1>1
  <2>2. \A i \in 1..Len(s) : s[i] \in Messages
    BY <1>1, <2>1
  <2>. QED BY <2>1, <2>2
<1>2. \A l \in Lines : ToSet(l.notes) \subseteq Messages
  BY DEF Messages
<1>3. \A s \in {HostNotes, SourceNotes, RunNotes} : ToSet(s) \subseteq Messages
  BY DEF Messages
<1>. QED BY <1>1, <1>2, <1>3, NotesAssumption

LEMMA PieceTyped ==
    ASSUME NEW what \in Kinds, NEW line \in Nat, NEW m \in Messages
    PROVE  Piece(what, line, m) \in Pieces
BY DEF Piece, Pieces

LEMMA WhenCount ==
    ASSUME NEW S, NEW c, NEW x \in S, NEW U
    PROVE  /\ When(c, x) \in Seq(S)
           /\ NumberOf(When(c, x), U) = IF c /\ x \in U THEN 1 ELSE 0
<1>1. << >> \in Seq(S) /\ <<x>> \in Seq(S)
  OBVIOUS
<1>2. NumberOf(<< >>, U) = 0 /\ NumberOf(<<x>>, U) = IF x \in U THEN 1 ELSE 0
  BY <1>1, NumberSmall
<1>3. CASE c
  BY <1>1, <1>2, <1>3 DEF When
<1>4. CASE ~c
  BY <1>1, <1>2, <1>4 DEF When
<1>. QED BY <1>3, <1>4

\* LEMMA: comments are those of the messages that are kept.
LEMMA CommentsCount ==
    ASSUME NEW what \in Kinds, NEW line \in Nat, NEW msgs \in Seq(Messages), NEW U
    PROVE  /\ Comments(what, line, msgs) \in Seq(Pieces)
           /\ (\A m \in Messages : Piece(what, line, m) \notin U)
                 => NumberOf(Comments(what, line, msgs), U) = 0
           /\ (\A m \in Messages : Piece(what, line, m) \in U)
                 => NumberOf(Comments(what, line, msgs), U) = NumberOf(msgs, Kept)
<1>. DEFINE one(i) == When(msgs[i] \in Kept, Piece(what, line, msgs[i]))
            ss == [i \in DOMAIN msgs |-> one(i)]
<1>1. \A i \in DOMAIN msgs : msgs[i] \in Messages
  OBVIOUS
<1>2. \A i \in DOMAIN msgs :
         /\ one(i) \in Seq(Pieces)
         /\ NumberOf(one(i), U)
               = IF msgs[i] \in Kept /\ Piece(what, line, msgs[i]) \in U THEN 1 ELSE 0
  <2>1. ASSUME NEW i \in DOMAIN msgs PROVE Piece(what, line, msgs[i]) \in Pieces
    BY <1>1, PieceTyped
  <2>2. ASSUME NEW i \in DOMAIN msgs, NEW x \in Pieces, NEW c
        PROVE  /\ When(c, x) \in Seq(Pieces)
               /\ NumberOf(When(c, x), U) = IF c /\ x \in U THEN 1 ELSE 0
    BY WhenCount
  <2>. QED BY <2>1, <2>2, Zenon
<1>. HIDE DEF one
<1>3. DOMAIN msgs = 1..Len(msgs) /\ Len(msgs) \in Nat
  OBVIOUS
<1>4. ss \in Seq(Seq(Pieces)) /\ Len(ss) = Len(msgs) /\ DOMAIN ss = DOMAIN msgs
      /\ \A i \in DOMAIN msgs : ss[i] = one(i)
  BY <1>2, <1>3
<1>5. Comments(what, line, msgs) = FlattenSeq(ss)
  BY DEF Comments, one
<1>. HIDE DEF ss
<1>6. FlattenSeq(ss) \in Seq(Pieces)
  <2>1. \A i \in DOMAIN ss : NumberOf(ss[i], {}) = 0
    <3>1. \A i \in DOMAIN ss : ss[i] \in Seq(Pieces) /\ \A k \in DOMAIN ss[i] : ss[i][k] \notin {}
      BY <1>2, <1>4
    <3>. QED BY <3>1, NumberSmall
  <2>. QED BY <1>4, <2>1, FlattenNone
<1>7. ASSUME \A m \in Messages : Piece(what, line, m) \notin U PROVE NumberOf(FlattenSeq(ss), U) = 0
  <2>1. \A i \in DOMAIN ss : NumberOf(ss[i], U) = 0
    BY <1>1, <1>2, <1>4, <1>7
  <2>. QED BY <1>4, <2>1, FlattenNone
<1>8. ASSUME \A m \in Messages : Piece(what, line, m) \in U
      PROVE  NumberOf(FlattenSeq(ss), U) = NumberOf(msgs, Kept)
  <2>1. \A i \in DOMAIN msgs : NumberOf(ss[i], U) = IF msgs[i] \in Kept THEN 1 ELSE 0
    BY <1>1, <1>2, <1>4, <1>8
  <2>2. Len(msgs) = Len(ss) /\ ss \in Seq(Seq(Pieces)) /\ msgs \in Seq(Messages)
    BY <1>4
  <2>3. ASSUME NEW V, \A i \in DOMAIN msgs : NumberOf(ss[i], U) = IF msgs[i] \in V THEN 1 ELSE 0
        PROVE  NumberOf(FlattenSeq(ss), U) = NumberOf(msgs, V)
    <3>1. /\ ss \in Seq(Seq(Pieces)) /\ msgs \in Seq(Messages) /\ Len(msgs) = Len(ss)
          /\ \A i \in DOMAIN msgs : NumberOf(ss[i], U) = IF msgs[i] \in V THEN 1 ELSE 0
      BY <2>2, <2>3
    <3>2. PICK w, s : w = ss /\ s = msgs
      OBVIOUS
    <3>3. w \in Seq(Seq(Pieces)) /\ s \in Seq(Messages) /\ Alike(w, U, s, V)
      BY <3>1, <3>2 DEF Alike
    <3>4. NumberOf(FlattenSeq(w), U) = NumberOf(s, V)
      BY <3>3, FlattenLike
    <3>. QED BY <3>2, <3>4
  <2>. QED BY <2>1, <2>3, Zenon
<1>. QED BY <1>5, <1>6, <1>7, <1>8

--------------------------------------------------------------------------------
(* The pieces of a step                                                    *)

OwedNotes(l) == IF l.corrupt THEN 0 ELSE KeptNotes(l)
OwedText(l) == IF l.text /\ ~l.corrupt THEN 1 ELSE 0

LEMMA NotePiecesCount ==
    ASSUME NEW n \in Nat, NEW l \in Lines, NEW U
    PROVE  /\ NotePieces(n, l) \in Seq(Pieces)
           /\ (\A m \in Messages : Piece("note", n, m) \notin U) => NumberOf(NotePieces(n, l), U) = 0
           /\ (\A m \in Messages : Piece("note", n, m) \in U)
                 => NumberOf(NotePieces(n, l), U) = OwedNotes(l)
<1>1. l.notes \in Seq(Messages) /\ "note" \in Kinds
  BY NotesTyped DEF Kinds
<1>2. KeptNotes(l) = NumberOf(l.notes, Kept)
  BY DEF KeptNotes, NumberOf, Positions
<1>3. << >> \in Seq(Pieces) /\ NumberOf(<< >>, U) = 0
  <2>1. << >> \in Seq(Pieces)
    OBVIOUS
  <2>. QED BY <2>1, NumberSmall
<1>4. CASE l.corrupt
  BY <1>3, <1>4 DEF NotePieces, OwedNotes
<1>5. CASE ~l.corrupt
  <2>1. NotePieces(n, l) = Comments("note", n, l.notes) /\ OwedNotes(l) = NumberOf(l.notes, Kept)
    BY <1>2, <1>5 DEF NotePieces, OwedNotes
  <2>. QED BY <1>1, <2>1, CommentsCount
<1>. QED BY <1>4, <1>5

LEMMA TextPiecesCount ==
    ASSUME NEW n \in Nat, NEW l \in Lines, NEW U
    PROVE  /\ TextPieces(n, l) \in Seq(Pieces)
           /\ Piece("text", n, "text") \notin U => NumberOf(TextPieces(n, l), U) = 0
           /\ Piece("text", n, "text") \in U => NumberOf(TextPieces(n, l), U) = OwedText(l)
<1>1. Piece("text", n, "text") \in Pieces
  BY PieceTyped DEF Kinds, Messages
<1>2. /\ TextPieces(n, l) \in Seq(Pieces)
      /\ NumberOf(TextPieces(n, l), U)
            = IF (l.text /\ ~l.corrupt) /\ Piece("text", n, "text") \in U THEN 1 ELSE 0
  <2>1. PICK c \in BOOLEAN : c <=> l.text /\ ~l.corrupt
    OBVIOUS
  <2>2. TextPieces(n, l) = When(c, Piece("text", n, "text"))
    BY <2>1 DEF TextPieces, When
  <2>. QED BY <1>1, <2>1, <2>2, WhenCount
<1>. QED BY <1>2 DEF OwedText

\* The three parts of a step.
Warning(records, quiet) ==
    When(~quiet /\ \E i \in DOMAIN records : records[i][2].corrupt, Piece("corrupt", 0, "corrupt"))
NotesOf(records) ==
    FlattenSeq([i \in DOMAIN records |-> NotePieces(records[i][1], records[i][2])])
TextsOf(records) ==
    FlattenSeq([i \in DOMAIN records |-> TextPieces(records[i][1], records[i][2])])

Records == Seq(Nat \X Lines)

LEMMA RecordParts ==
    ASSUME NEW records \in Records
    PROVE  /\ [i \in DOMAIN records |-> NotePieces(records[i][1], records[i][2])] \in Seq(Seq(Pieces))
           /\ [i \in DOMAIN records |-> TextPieces(records[i][1], records[i][2])] \in Seq(Seq(Pieces))
           /\ \A i \in DOMAIN records : records[i][1] \in Nat /\ records[i][2] \in Lines
<1>1. /\ DOMAIN records = 1..Len(records) /\ Len(records) \in Nat
      /\ \A i \in DOMAIN records : records[i][1] \in Nat /\ records[i][2] \in Lines
  BY DEF Records
<1>2. \A i \in DOMAIN records : /\ NotePieces(records[i][1], records[i][2]) \in Seq(Pieces)
                                /\ TextPieces(records[i][1], records[i][2]) \in Seq(Pieces)
  BY <1>1, NotePiecesCount, TextPiecesCount
<1>. QED BY <1>1, <1>2

\* LEMMA: nothing to count where no record's line is counted.
LEMMA RecordsNone ==
    ASSUME NEW records \in Records, NEW U,
           \A i \in DOMAIN records :
              /\ \A m \in Messages : Piece("note", records[i][1], m) \notin U
              /\ Piece("text", records[i][1], "text") \notin U
    PROVE  /\ NotesOf(records) \in Seq(Pieces) /\ NumberOf(NotesOf(records), U) = 0
           /\ TextsOf(records) \in Seq(Pieces) /\ NumberOf(TextsOf(records), U) = 0
<1>. DEFINE ns == [i \in DOMAIN records |-> NotePieces(records[i][1], records[i][2])]
            ts == [i \in DOMAIN records |-> TextPieces(records[i][1], records[i][2])]
<1>1. /\ ns \in Seq(Seq(Pieces)) /\ ts \in Seq(Seq(Pieces))
      /\ \A i \in DOMAIN records : records[i][1] \in Nat /\ records[i][2] \in Lines
  BY RecordParts
<1>2. \A i \in DOMAIN ns : NumberOf(ns[i], U) = 0
  BY <1>1, NotePiecesCount
<1>3. \A i \in DOMAIN ts : NumberOf(ts[i], U) = 0
  BY <1>1, TextPiecesCount
<1>4. NotesOf(records) = FlattenSeq(ns) /\ TextsOf(records) = FlattenSeq(ts)
  BY DEF NotesOf, TextsOf
<1>. HIDE DEF ns, ts
<1>. QED BY <1>1, <1>2, <1>3, <1>4, FlattenNone

\* LEMMA: the one record about a line gives the step what that line owes.
LEMMA RecordsOne ==
    ASSUME NEW records \in Records, NEW n \in Nat,
           NEW j, \A k \in DOMAIN records : records[k][1] = n <=> k = j
    PROVE  /\ NumberOf(NotesOf(records), At("note", n))
                 = IF j \in DOMAIN records THEN OwedNotes(records[j][2]) ELSE 0
           /\ NumberOf(NotesOf(records), At("text", n)) = 0
           /\ NumberOf(TextsOf(records), At("note", n)) = 0
           /\ NumberOf(TextsOf(records), At("text", n))
                 = IF j \in DOMAIN records THEN OwedText(records[j][2]) ELSE 0
<1>. DEFINE ns == [i \in DOMAIN records |-> NotePieces(records[i][1], records[i][2])]
            ts == [i \in DOMAIN records |-> TextPieces(records[i][1], records[i][2])]
<1>1. /\ ns \in Seq(Seq(Pieces)) /\ ts \in Seq(Seq(Pieces))
      /\ \A i \in DOMAIN records : records[i][1] \in Nat /\ records[i][2] \in Lines
  BY RecordParts
<1>2. \A k \in Nat, m \in Messages :
         /\ Piece("note", k, m) \notin At("text", n) /\ Piece("text", k, "text") \notin At("note", n)
         /\ k # n => /\ Piece("note", k, m) \notin At("note", n)
                     /\ Piece("text", k, "text") \notin At("text", n)
         /\ k = n => /\ Piece("note", k, m) \in At("note", n)
                     /\ Piece("text", k, "text") \in At("text", n)
  <2>1. ASSUME NEW k \in Nat, NEW m \in Messages
        PROVE  Piece("note", k, m) \in Pieces /\ Piece("text", k, "text") \in Pieces
    BY PieceTyped DEF Kinds, Messages
  <2>. QED BY <2>1 DEF At, Piece
<1>3. "text" \in Messages
  BY DEF Messages
<1>4. \A i \in DOMAIN ns : /\ NumberOf(ns[i], At("text", n)) = 0
                           /\ i # j => NumberOf(ns[i], At("note", n)) = 0
                           /\ i = j => NumberOf(ns[i], At("note", n)) = OwedNotes(records[i][2])
  BY <1>1, <1>2, NotePiecesCount
<1>5. \A i \in DOMAIN ts : /\ NumberOf(ts[i], At("note", n)) = 0
                           /\ i # j => NumberOf(ts[i], At("text", n)) = 0
                           /\ i = j => NumberOf(ts[i], At("text", n)) = OwedText(records[i][2])
  BY <1>1, <1>2, <1>3, TextPiecesCount
<1>6. NotesOf(records) = FlattenSeq(ns) /\ TextsOf(records) = FlattenSeq(ts)
      /\ DOMAIN ns = DOMAIN records /\ DOMAIN ts = DOMAIN records
  BY DEF NotesOf, TextsOf
<1>. HIDE DEF ns, ts
<1>7. NumberOf(FlattenSeq(ns), At("text", n)) = 0 /\ NumberOf(FlattenSeq(ts), At("note", n)) = 0
  BY <1>1, <1>4, <1>5, FlattenNone
<1>8. NumberOf(FlattenSeq(ns), At("note", n))
         = IF j \in DOMAIN ns THEN NumberOf(ns[j], At("note", n)) ELSE 0
  BY <1>1, <1>4, FlattenOne
<1>9. NumberOf(FlattenSeq(ts), At("text", n))
         = IF j \in DOMAIN ts THEN NumberOf(ts[j], At("text", n)) ELSE 0
  BY <1>1, <1>5, FlattenOne
<1>. QED BY <1>4, <1>5, <1>6, <1>7, <1>8, <1>9

LEMMA StepCount ==
    ASSUME NEW records \in Records, NEW quiet, NEW U
    PROVE  /\ StepPieces(records, quiet) \in Seq(Pieces)
           /\ NumberOf(NotesOf(records), U) \in Nat /\ NumberOf(TextsOf(records), U) \in Nat
           /\ NumberOf(StepPieces(records, quiet), U)
                 = (IF /\ ~quiet /\ \E i \in DOMAIN records : records[i][2].corrupt
                       /\ Piece("corrupt", 0, "corrupt") \in U THEN 1 ELSE 0)
                   + NumberOf(NotesOf(records), U) + NumberOf(TextsOf(records), U)
<1>1. Piece("corrupt", 0, "corrupt") \in Pieces
  BY PieceTyped DEF Kinds, Messages
<1>2. /\ Warning(records, quiet) \in Seq(Pieces)
      /\ NumberOf(Warning(records, quiet), U)
            = IF (~quiet /\ \E i \in DOMAIN records : records[i][2].corrupt)
                 /\ Piece("corrupt", 0, "corrupt") \in U THEN 1 ELSE 0
  <2>1. PICK c \in BOOLEAN : c <=> ~quiet /\ \E i \in DOMAIN records : records[i][2].corrupt
    OBVIOUS
  <2>2. Warning(records, quiet) = When(c, Piece("corrupt", 0, "corrupt"))
    BY <2>1 DEF Warning, When
  <2>. QED BY <1>1, <2>1, <2>2, WhenCount
<1>3. NotesOf(records) \in Seq(Pieces) /\ TextsOf(records) \in Seq(Pieces)
  <2>1. PICK V : V = {}
    OBVIOUS
  <2>2. \A x : x \notin V
    BY <2>1
  <2>. QED BY <2>2, RecordsNone
<1>4. NumberOf(NotesOf(records), U) \in Nat /\ NumberOf(TextsOf(records), U) \in Nat
  BY <1>3, NumberSmall
<1>5. PICK first : first = Warning(records, quiet) \o NotesOf(records)
  OBVIOUS
<1>6. /\ first \in Seq(Pieces)
      /\ NumberOf(first, U) = NumberOf(Warning(records, quiet), U) + NumberOf(NotesOf(records), U)
  BY <1>2, <1>3, <1>5, NumberConcat
<1>7. StepPieces(records, quiet) = first \o TextsOf(records)
  BY <1>5 DEF StepPieces, Warning, NotesOf, TextsOf
<1>8. /\ first \o TextsOf(records) \in Seq(Pieces)
      /\ NumberOf(first \o TextsOf(records), U) = NumberOf(first, U) + NumberOf(TextsOf(records), U)
  BY <1>3, <1>6, NumberConcat
<1>. QED BY <1>2, <1>4, <1>6, <1>7, <1>8

--------------------------------------------------------------------------------
(* The records a step is made of                                           *)

\* Records of these lines, and a line with one record, or with none.
About(records, lines) ==
    /\ records \in Records
    /\ \A k \in DOMAIN records : /\ records[k][1] \in DOMAIN lines
                                 /\ records[k][2] = lines[records[k][1]]
Once(records, i) == \E j \in DOMAIN records : \A k \in DOMAIN records : records[k][1] = i <=> k = j
Never(records, i) == \A k \in DOMAIN records : records[k][1] # i

\* LEMMA: at the end the open events are released, each once.
LEMMA OpenRecords ==
    ASSUME NEW lines \in Seq(Lines)
    PROVE  /\ About(OpenAfter(lines, Len(lines)), lines)
           /\ \A k \in DOMAIN OpenAfter(lines, Len(lines)) : OpenAfter(lines, Len(lines))[k][2].opens
           /\ \A i \in DOMAIN lines :
                 IF StillOpen(lines[i], i, Len(lines)) THEN Once(OpenAfter(lines, Len(lines)), i)
                 ELSE Never(OpenAfter(lines, Len(lines)), i)
<1>. DEFINE R == Nat \X Lines
            one(i) == When(StillOpen(lines[i], i, Len(lines)), <<i, lines[i]>>)
            ss == [i \in 1..Len(lines) |-> one(i)]
<1>1. Len(lines) \in Nat /\ DOMAIN lines = 1..Len(lines)
      /\ \A i \in 1..Len(lines) : lines[i] \in Lines /\ i \in Nat
  OBVIOUS
<1>2. ASSUME NEW U, NEW i \in 1..Len(lines)
      PROVE  /\ one(i) \in Seq(R)
             /\ NumberOf(one(i), U)
                   = IF StillOpen(lines[i], i, Len(lines)) /\ <<i, lines[i]>> \in U THEN 1 ELSE 0
  <2>1. <<i, lines[i]>> \in R
    BY <1>1
  <2>2. PICK c \in BOOLEAN : c <=> StillOpen(lines[i], i, Len(lines))
    OBVIOUS
  <2>3. one(i) = When(c, <<i, lines[i]>>)
    BY <2>2 DEF When
  <2>. HIDE DEF one, R
  <2>. QED BY <2>1, <2>2, <2>3, WhenCount
<1>3. OpenAfter(lines, Len(lines)) = FlattenSeq(ss)
  BY DEF OpenAfter
<1>. HIDE DEF one
<1>4. ss \in Seq(Seq(R)) /\ DOMAIN ss = 1..Len(lines) /\ \A i \in 1..Len(lines) : ss[i] = one(i)
  <2>1. \A i \in 1..Len(lines) : one(i) \in Seq(R)
    BY <1>2, Zenon
  <2>. HIDE DEF R
  <2>. QED BY <1>1, <2>1
<1>. HIDE DEF ss
<1>5. PICK r : r = FlattenSeq(ss)
  OBVIOUS
<1>6. ASSUME NEW U, \A i \in 1..Len(lines) : StillOpen(lines[i], i, Len(lines)) => <<i, lines[i]>> \notin U
      PROVE  r \in Seq(R) /\ \A k \in DOMAIN r : r[k] \notin U
  <2>1. \A i \in DOMAIN ss : NumberOf(ss[i], U) = 0
    BY <1>2, <1>4, <1>6
  <2>2. r \in Seq(R) /\ NumberOf(r, U) = 0
    BY <1>4, <1>5, <2>1, FlattenNone
  <2>. QED BY <2>2, NumberSmall
<1>7. /\ r \in Seq(R)
      /\ \A k \in DOMAIN r : /\ r[k][1] \in 1..Len(lines) /\ r[k][2] = lines[r[k][1]]
                             /\ r[k][2].opens
  <2>. DEFINE Good(x) == x[1] \in 1..Len(lines) /\ x[2] = lines[x[1]] /\ x[2].opens
              Bad == {x \in R : ~Good(x)}
  <2>1. ASSUME NEW i \in 1..Len(lines), StillOpen(lines[i], i, Len(lines)) PROVE <<i, lines[i]>> \notin Bad
    BY <2>1 DEF StillOpen
  <2>2. PICK B : B = Bad
    OBVIOUS
  <2>3. r \in Seq(R) /\ \A k \in DOMAIN r : r[k] \notin B
    BY <1>6, <2>1, <2>2
  <2>4. \A k \in DOMAIN r : r[k] \in R /\ r[k] \notin Bad
    BY <2>2, <2>3
  <2>. QED BY <2>3, <2>4
<1>8. ASSUME NEW i \in DOMAIN lines PROVE IF StillOpen(lines[i], i, Len(lines)) THEN Once(r, i) ELSE Never(r, i)
  <2>. DEFINE U == {x \in R : x[1] = i}
  <2>1. \A k \in 1..Len(lines) : <<k, lines[k]>> \in U <=> k = i
    BY <1>1
  <2>2. \A k \in DOMAIN r : r[k] \in U <=> r[k][1] = i
    BY <1>7
  <2>. HIDE DEF U
  <2>3. \A k \in DOMAIN ss : k # i => NumberOf(ss[k], U) = 0
    BY <1>2, <1>4, <2>1
  <2>4. NumberOf(r, U) = IF StillOpen(lines[i], i, Len(lines)) THEN 1 ELSE 0
    <3>1. NumberOf(r, U) = IF i \in DOMAIN ss THEN NumberOf(ss[i], U) ELSE 0
      BY <1>4, <1>5, <2>3, FlattenOne
    <3>2. i \in DOMAIN ss /\ NumberOf(ss[i], U) = IF StillOpen(lines[i], i, Len(lines)) THEN 1 ELSE 0
      BY <1>1, <1>2, <1>4, <2>1
    <3>. QED BY <3>1, <3>2
  <2>5. CASE StillOpen(lines[i], i, Len(lines))
    <3>1. PICK j \in DOMAIN r : \A k \in DOMAIN r : r[k] \in U <=> k = j
      BY <1>7, <2>4, <2>5, NumberOne
    <3>. QED BY <2>2, <2>5, <3>1 DEF Once
  <2>6. CASE ~StillOpen(lines[i], i, Len(lines))
    <3>1. \A k \in DOMAIN r : r[k] \notin U
      BY <1>7, <2>4, <2>6, NumberSmall
    <3>. QED BY <2>2, <2>6, <3>1 DEF Never
  <2>. QED BY <2>5, <2>6
<1>. QED BY <1>1, <1>3, <1>5, <1>7, <1>8 DEF About, Records

\* LEMMA: a line releases the event it is too far from, and itself.
LEMMA ReleasedRecords ==
    ASSUME NEW lines \in Seq(Lines), NEW x \in Lines, NEW after, after = Append(lines, x)
    PROVE  /\ About(Released(after), after)
           /\ \A i \in DOMAIN lines :
                 IF StillOpen(lines[i], i, Len(lines)) /\ ~StillOpen(after[i], i, Len(after))
                 THEN Once(Released(after), i) ELSE Never(Released(after), i)
           /\ IF StillOpen(x, Len(after), Len(after)) THEN Never(Released(after), Len(after))
              ELSE Once(Released(after), Len(after))
           /\ (\E k \in DOMAIN Released(after) : Released(after)[k][2].corrupt) <=> x.corrupt
<1>1. PICK n \in Nat : n = Len(lines)
  OBVIOUS
<1>2. /\ after \in Seq(Lines) /\ Len(after) = n + 1 /\ DOMAIN after = 1..(n + 1) /\ DOMAIN lines = 1..n
      /\ after[n + 1] = x /\ \A i \in 1..n : after[i] = lines[i] /\ lines[i] \in Lines
  BY <1>1
<1>3. PICK k : k = (n + 1) - (CloseAfter + 1)
  OBVIOUS
<1>4. CloseAfter \in Nat /\ k \in Int /\ k = n - CloseAfter /\ n + 1 # k
  BY <1>3, BoundAssumption
<1>5. PICK shut \in BOOLEAN : shut <=> n + 1 > CloseAfter + 1 /\ after[k].opens
  OBVIOUS
<1>6. shut => k \in 1..n /\ lines[k] \in Lines /\ lines[k].opens /\ ~lines[k].corrupt /\ after[k] = lines[k]
  BY <1>2, <1>4, <1>5, LinesAssumption
<1>7. x.opens => ~x.corrupt
  BY LinesAssumption
<1>8. Released(after) = (IF shut THEN <<<<k, after[k]>>>> ELSE << >>)
                        \o (IF x.opens THEN << >> ELSE <<<<n + 1, x>>>>)
  BY <1>2, <1>3, <1>5 DEF Released
<1>9. /\ \A i \in 1..n : StillOpen(lines[i], i, n) /\ ~StillOpen(after[i], i, n + 1) <=> shut /\ i = k
      /\ ~StillOpen(x, n + 1, n + 1) <=> ~x.opens
  BY <1>2, <1>4, <1>5 DEF StillOpen
<1>10. PICK r : r = Released(after)
  OBVIOUS
<1>11. PICK a : a = <<k, after[k]>>
  OBVIOUS
<1>12. PICK b : b = <<n + 1, x>>
  OBVIOUS
<1>13. /\ shut => a \in Nat \X Lines /\ a[1] = k /\ a[2] = after[k] /\ ~a[2].corrupt
       /\ b \in Nat \X Lines /\ b[1] = n + 1 /\ b[2] = x
  <2>1. ASSUME shut PROVE k \in Nat /\ after[k] \in Lines /\ ~after[k].corrupt
    BY <1>1, <1>6, <2>1
  <2>2. n + 1 \in Nat
    BY <1>1
  <2>. QED BY <1>5, <1>11, <1>12, <2>1, <2>2
<1>14. r = (IF shut THEN <<a>> ELSE << >>) \o (IF x.opens THEN << >> ELSE <<b>>)
  BY <1>8, <1>10, <1>11, <1>12
<1>15. /\ r \in Records /\ 0 \notin DOMAIN r
       /\ shut => 1 \in DOMAIN r /\ r[1] = a
       /\ ~x.opens => Len(r) \in DOMAIN r /\ r[Len(r)] = b
       /\ \A m \in DOMAIN r : (shut /\ m = 1 /\ r[m] = a) \/ (~x.opens /\ m = Len(r) /\ r[m] = b)
  <2>. DEFINE R == Nat \X Lines
  <2>. HIDE DEF R
  <2>1. b \in R /\ (shut => a \in R)
    BY <1>13 DEF R
  <2>2. CASE shut /\ x.opens
    <3>1. r = <<a>>
      BY <1>14, <2>2
    <3>. QED BY <2>1, <2>2, <3>1 DEF Records, R
  <2>3. CASE shut /\ ~x.opens
    <3>1. r = <<a>> \o <<b>>
      BY <1>14, <2>3
    <3>2. <<a>> \in Seq(R) /\ <<b>> \in Seq(R)
      BY <2>1, <2>3
    <3>3. r \in Seq(R) /\ Len(r) = 2 /\ r[1] = a /\ r[2] = b
      BY <3>1, <3>2
    <3>. QED BY <2>3, <3>3 DEF Records, R
  <2>4. CASE ~shut /\ x.opens
    <3>1. r = << >>
      BY <1>14, <2>4
    <3>. QED BY <2>4, <3>1 DEF Records, R
  <2>5. CASE ~shut /\ ~x.opens
    <3>1. r = <<b>>
      BY <1>14, <2>5
    <3>. QED BY <2>1, <2>5, <3>1 DEF Records, R
  <2>. QED BY <2>2, <2>3, <2>4, <2>5
<1>16. About(r, after)
  <2>1. ASSUME NEW m \in DOMAIN r PROVE r[m][1] \in DOMAIN after /\ r[m][2] = after[r[m][1]]
    <3>1. CASE shut /\ r[m] = a
      <4>1. k \in DOMAIN after
        BY <1>2, <1>6, <3>1
      <4>. QED BY <1>13, <3>1, <4>1
    <3>2. CASE r[m] = b
      BY <1>2, <1>13, <3>2
    <3>. QED BY <1>15, <3>1, <3>2
  <2>. QED BY <1>15, <2>1 DEF About
<1>17. (\E m \in DOMAIN r : r[m][2].corrupt) <=> x.corrupt
  BY <1>7, <1>13, <1>15
<1>18. ASSUME NEW i \in 1..n PROVE IF shut /\ i = k THEN Once(r, i) ELSE Never(r, i)
  <2>1. i # n + 1
    BY <1>1
  <2>2. CASE shut /\ i = k
    <3>1. \A m \in DOMAIN r : r[m][1] = i <=> m = 1
      <4>1. \A m \in DOMAIN r : r[m] = b => r[m][1] # i
        BY <1>13, <2>1
      <4>. QED BY <1>13, <1>15, <2>2, <4>1
    <3>. QED BY <1>15, <2>2, <3>1 DEF Once
  <2>3. CASE ~(shut /\ i = k)
    <3>1. \A m \in DOMAIN r : r[m][1] # i
      BY <1>13, <1>15, <2>1, <2>3
    <3>. QED BY <2>3, <3>1 DEF Never
  <2>. QED BY <2>2, <2>3
<1>19. IF x.opens THEN Never(r, n + 1) ELSE Once(r, n + 1)
  <2>1. \A m \in DOMAIN r : shut /\ r[m] = a => r[m][1] # n + 1
    BY <1>4, <1>13
  <2>2. CASE ~x.opens
    <3>1. \A m \in DOMAIN r : r[m][1] = n + 1 <=> m = Len(r)
      BY <1>13, <1>15, <2>1, <2>2
    <3>. QED BY <1>15, <2>2, <3>1 DEF Once
  <2>3. CASE x.opens
    <3>1. \A m \in DOMAIN r : r[m][1] # n + 1
      BY <1>15, <2>1, <2>3
    <3>. QED BY <2>3, <3>1 DEF Never
  <2>. QED BY <2>2, <2>3
<1>20. \A i \in DOMAIN lines :
          IF StillOpen(lines[i], i, Len(lines)) /\ ~StillOpen(after[i], i, Len(after))
          THEN Once(r, i) ELSE Never(r, i)
  BY <1>1, <1>2, <1>9, <1>18
<1>21. IF StillOpen(x, Len(after), Len(after)) THEN Never(r, Len(after)) ELSE Once(r, Len(after))
  BY <1>2, <1>9, <1>19
<1>. QED BY <1>10, <1>16, <1>17, <1>20, <1>21

--------------------------------------------------------------------------------
(* What a step, the end of the run and its totals put on stdout            *)

\* The pieces that are about no line: none of them is a note or a result.
OtherKinds == Kinds \ {"note", "text", "total"}

LEMMA StepOne ==
    ASSUME NEW lines \in Seq(Lines), NEW records, About(records, lines), NEW quiet,
           NEW i \in DOMAIN lines, Once(records, i) \/ Never(records, i)
    PROVE  /\ NumberOf(StepPieces(records, quiet), At("note", i))
                 = IF Once(records, i) THEN OwedNotes(lines[i]) ELSE 0
           /\ NumberOf(StepPieces(records, quiet), At("text", i))
                 = IF Once(records, i) THEN OwedText(lines[i]) ELSE 0
<1>1. records \in Records /\ i \in Nat /\ 0 \notin DOMAIN records
      /\ \A k \in DOMAIN records : records[k][2] = lines[records[k][1]]
  BY DEF About, Records
<1>2. PICK j : /\ \A k \in DOMAIN records : records[k][1] = i <=> k = j
               /\ j \in DOMAIN records <=> Once(records, i)
  <2>1. CASE Once(records, i)
    BY <2>1 DEF Once
  <2>2. CASE Never(records, i) /\ ~Once(records, i)
    <3>1. \A k \in DOMAIN records : records[k][1] = i <=> k = 0
      BY <1>1, <2>2 DEF Never
    <3>. QED BY <1>1, <2>2, <3>1
  <2>. QED BY <2>1, <2>2
<1>3. Piece("corrupt", 0, "corrupt") \notin At("note", i) /\ Piece("corrupt", 0, "corrupt") \notin At("text", i)
  BY DEF At, Piece
<1>4. j \in DOMAIN records => records[j][2] = lines[i]
  BY <1>1, <1>2
<1>5. /\ NumberOf(NotesOf(records), At("note", i)) = IF Once(records, i) THEN OwedNotes(lines[i]) ELSE 0
      /\ NumberOf(NotesOf(records), At("text", i)) = 0
      /\ NumberOf(TextsOf(records), At("note", i)) = 0
      /\ NumberOf(TextsOf(records), At("text", i)) = IF Once(records, i) THEN OwedText(lines[i]) ELSE 0
  <2>1. /\ NumberOf(NotesOf(records), At("note", i))
              = IF j \in DOMAIN records THEN OwedNotes(records[j][2]) ELSE 0
        /\ NumberOf(NotesOf(records), At("text", i)) = 0
        /\ NumberOf(TextsOf(records), At("note", i)) = 0
        /\ NumberOf(TextsOf(records), At("text", i))
              = IF j \in DOMAIN records THEN OwedText(records[j][2]) ELSE 0
    BY <1>1, <1>2, RecordsOne
  <2>. QED BY <1>2, <1>4, <2>1
<1>6. ASSUME NEW U, Piece("corrupt", 0, "corrupt") \notin U
      PROVE  /\ NumberOf(NotesOf(records), U) \in Nat /\ NumberOf(TextsOf(records), U) \in Nat
             /\ NumberOf(StepPieces(records, quiet), U)
                   = NumberOf(NotesOf(records), U) + NumberOf(TextsOf(records), U)
  BY <1>1, <1>6, StepCount
<1>. QED BY <1>3, <1>5, <1>6

\* LEMMA: a line has not both one record and none.
LEMMA OnceOrNever == \A records, i : ~(Once(records, i) /\ Never(records, i))
BY DEF Once, Never

LEMMA StepRest ==
    ASSUME NEW lines \in Seq(Lines), NEW records, About(records, lines), NEW quiet
    PROVE  /\ StepPieces(records, quiet) \in Seq(Pieces)
           /\ \A k \in DOMAIN StepPieces(records, quiet) :
                 LET p == StepPieces(records, quiet)[k]
                 IN  p.what \in OtherKinds \/ (p.what \in {"note", "text"} /\ p.line \in DOMAIN lines)
           /\ NumberOf(StepPieces(records, quiet), At("corrupt", 0))
                 = IF ~quiet /\ \E i \in DOMAIN records : records[i][2].corrupt THEN 1 ELSE 0
<1>1. records \in Records /\ \A k \in DOMAIN records : records[k][1] \in DOMAIN lines
  BY DEF About
<1>2. PICK s : s = StepPieces(records, quiet)
  OBVIOUS
<1>3. s \in Seq(Pieces)
  BY <1>1, <1>2, StepCount
<1>4. ASSUME NEW k \in DOMAIN s
      PROVE  s[k].what \in OtherKinds \/ (s[k].what \in {"note", "text"} /\ s[k].line \in DOMAIN lines)
  <2>. DEFINE Good(p) == \/ p.what \in OtherKinds
                         \/ p.what \in {"note", "text"} /\ p.line \in DOMAIN lines
  <2>1. PICK Bad : Bad = {p \in Pieces : ~Good(p)}
    OBVIOUS
  <2>2. /\ Piece("corrupt", 0, "corrupt") \notin Bad
        /\ \A i \in DOMAIN records :
              /\ \A m \in Messages : Piece("note", records[i][1], m) \notin Bad
              /\ Piece("text", records[i][1], "text") \notin Bad
    BY <1>1, <2>1 DEF Piece, OtherKinds, Kinds
  <2>3. NumberOf(NotesOf(records), Bad) = 0 /\ NumberOf(TextsOf(records), Bad) = 0
    BY <1>1, <2>2, RecordsNone
  <2>4. NumberOf(s, Bad) = 0
    BY <1>1, <1>2, <2>2, <2>3, StepCount
  <2>5. s[k] \notin Bad /\ s[k] \in Pieces
    BY <1>3, <2>4, NumberSmall
  <2>. QED BY <2>1, <2>5
<1>5. NumberOf(s, At("corrupt", 0))
         = IF ~quiet /\ \E i \in DOMAIN records : records[i][2].corrupt THEN 1 ELSE 0
  <2>1. /\ Piece("corrupt", 0, "corrupt") \in At("corrupt", 0)
        /\ \A i \in DOMAIN records :
              /\ \A m \in Messages : Piece("note", records[i][1], m) \notin At("corrupt", 0)
              /\ Piece("text", records[i][1], "text") \notin At("corrupt", 0)
    <3>1. Piece("corrupt", 0, "corrupt") \in Pieces
      BY PieceTyped DEF Kinds, Messages
    <3>. QED BY <3>1 DEF At, Piece
  <2>2. /\ NumberOf(NotesOf(records), At("corrupt", 0)) = 0
        /\ NumberOf(TextsOf(records), At("corrupt", 0)) = 0
    BY <1>1, <2>1, RecordsNone
  <2>3. PICK U : U = At("corrupt", 0)
    OBVIOUS
  <2>4. /\ Piece("corrupt", 0, "corrupt") \in U
        /\ NumberOf(NotesOf(records), U) = 0 /\ NumberOf(TextsOf(records), U) = 0
    BY <2>1, <2>2, <2>3
  <2>5. NumberOf(s, U) = IF ~quiet /\ \E i \in DOMAIN records : records[i][2].corrupt THEN 1 ELSE 0
    BY <1>1, <1>2, <2>4, StepCount
  <2>. QED BY <2>3, <2>5
<1>. QED BY <1>2, <1>3, <1>4, <1>5

LEMMA CommentsRest ==
    ASSUME NEW what \in {"host", "source", "run"}, NEW msgs \in Seq(Messages)
    PROVE  /\ Comments(what, 0, msgs) \in Seq(Pieces)
           /\ \A k \in DOMAIN Comments(what, 0, msgs) :
                 Comments(what, 0, msgs)[k].what \in OtherKinds \ {"corrupt"}
<1>1. PICK s : s = Comments(what, 0, msgs)
  OBVIOUS
<1>2. what \in Kinds
  BY DEF Kinds
<1>3. PICK Bad : Bad = {p \in Pieces : p.what \notin OtherKinds \ {"corrupt"}}
  OBVIOUS
<1>4. \A m \in Messages : Piece(what, 0, m) \notin Bad
  BY <1>3 DEF Piece, OtherKinds, Kinds
<1>5. s \in Seq(Pieces) /\ NumberOf(s, Bad) = 0
  BY <1>1, <1>2, <1>4, CommentsCount
<1>6. \A k \in DOMAIN s : s[k] \notin Bad /\ s[k] \in Pieces
  BY <1>5, NumberSmall
<1>. QED BY <1>1, <1>3, <1>5, <1>6

\* Pieces that say nothing of a line, of corruption or of a total.
Quiet(s) == s \in Seq(Pieces) /\ \A k \in DOMAIN s : s[k].what \in OtherKinds \ {"corrupt"}

LEMMA QuietCount ==
    ASSUME NEW s, Quiet(s)
    PROVE  /\ \A i : NumberOf(s, At("note", i)) = 0 /\ NumberOf(s, At("text", i)) = 0
           /\ NumberOf(s, At("corrupt", 0)) = 0
           /\ \A m : NumberOf(s, Saying("note", m)) = 0 /\ NumberOf(s, Saying("total", m)) = 0
<1>1. s \in Seq(Pieces)
      /\ \A k \in DOMAIN s : s[k].what \notin {"note", "text", "total", "corrupt"}
  BY DEF Quiet, OtherKinds
<1>2. ASSUME NEW U, \A p \in U : p.what \in {"note", "text", "total", "corrupt"}
      PROVE  NumberOf(s, U) = 0
  <2>1. \A k \in DOMAIN s : s[k] \notin U
    BY <1>1, <1>2
  <2>. QED BY <1>1, <2>1, NumberSmall
<1>3. ASSUME NEW what \in {"note", "text", "total", "corrupt"}, NEW i
      PROVE  /\ \A p \in At(what, i) : p.what \in {"note", "text", "total", "corrupt"}
             /\ \A p \in Saying(what, i) : p.what \in {"note", "text", "total", "corrupt"}
  BY DEF At, Saying
<1>. QED BY <1>2, <1>3

LEMMA EndCount ==
    ASSUME NEW lines \in Seq(Lines), NEW quiet
    PROVE  /\ EndPieces(lines, quiet) \in Seq(Pieces)
           /\ \A i \in DOMAIN lines :
                 /\ NumberOf(EndPieces(lines, quiet), At("note", i))
                       = IF StillOpen(lines[i], i, Len(lines)) THEN OwedNotes(lines[i]) ELSE 0
                 /\ NumberOf(EndPieces(lines, quiet), At("text", i))
                       = IF StillOpen(lines[i], i, Len(lines)) THEN OwedText(lines[i]) ELSE 0
           /\ NumberOf(EndPieces(lines, quiet), At("corrupt", 0)) = 0
           /\ \A k \in DOMAIN EndPieces(lines, quiet) :
                 LET p == EndPieces(lines, quiet)[k]
                 IN  p.what \in OtherKinds \/ (p.what \in {"note", "text"} /\ p.line \in DOMAIN lines)
<1>1. PICK a : a = Comments("source", 0, SourceNotes)
  OBVIOUS
<1>2. PICK c : c = Comments("run", 0, RunNotes)
  OBVIOUS
<1>3. PICK records : records = OpenAfter(lines, Len(lines))
  OBVIOUS
<1>4. PICK b : b = StepPieces(records, quiet)
  OBVIOUS
<1>5. /\ About(records, lines) /\ \A k \in DOMAIN records : records[k][2].opens
      /\ \A i \in DOMAIN lines :
            IF StillOpen(lines[i], i, Len(lines)) THEN Once(records, i) ELSE Never(records, i)
  BY <1>3, OpenRecords
<1>6. ~ \E k \in DOMAIN records : records[k][2].corrupt
  <2>1. \A k \in DOMAIN records : records[k][2] \in Lines
    BY <1>5 DEF About
  <2>. QED BY <1>5, <2>1, LinesAssumption
<1>7. Quiet(a) /\ Quiet(c)
  BY <1>1, <1>2, NotesTyped, CommentsRest DEF Quiet
<1>8. /\ b \in Seq(Pieces) /\ NumberOf(b, At("corrupt", 0)) = 0
      /\ \A k \in DOMAIN b :
            b[k].what \in OtherKinds \/ (b[k].what \in {"note", "text"} /\ b[k].line \in DOMAIN lines)
  BY <1>4, <1>5, <1>6, StepRest
<1>9. \A i \in DOMAIN lines :
         /\ NumberOf(b, At("note", i)) = IF StillOpen(lines[i], i, Len(lines)) THEN OwedNotes(lines[i]) ELSE 0
         /\ NumberOf(b, At("text", i)) = IF StillOpen(lines[i], i, Len(lines)) THEN OwedText(lines[i]) ELSE 0
  <2>1. ASSUME NEW i \in DOMAIN lines, Once(records, i) \/ Never(records, i)
        PROVE  /\ NumberOf(b, At("note", i)) = IF Once(records, i) THEN OwedNotes(lines[i]) ELSE 0
               /\ NumberOf(b, At("text", i)) = IF Once(records, i) THEN OwedText(lines[i]) ELSE 0
    BY <1>4, <1>5, <2>1, StepOne
  <2>. QED BY <1>5, <2>1, OnceOrNever
<1>10. PICK all : all = (a \o b) \o c
  OBVIOUS
<1>11. a \in Seq(Pieces) /\ b \in Seq(Pieces) /\ c \in Seq(Pieces) /\ a \o b \in Seq(Pieces) /\ all \in Seq(Pieces)
  BY <1>7, <1>8, <1>10 DEF Quiet
<1>12. ASSUME NEW U PROVE NumberOf(all, U) = NumberOf(a, U) + NumberOf(b, U) + NumberOf(c, U)
  <2>1. NumberOf(a \o b, U) = NumberOf(a, U) + NumberOf(b, U)
    BY <1>11, NumberConcat
  <2>2. PICK ab : ab = a \o b
    OBVIOUS
  <2>3. NumberOf(ab \o c, U) = NumberOf(ab, U) + NumberOf(c, U)
    BY <1>11, <2>2, NumberConcat
  <2>. QED BY <1>10, <2>1, <2>2, <2>3
<1>13. EndPieces(lines, quiet) = all
  BY <1>1, <1>2, <1>3, <1>4, <1>10 DEF EndPieces
<1>14. ASSUME NEW U, NumberOf(a, U) = 0, NumberOf(c, U) = 0 PROVE NumberOf(all, U) = NumberOf(b, U)
  <2>1. NumberOf(b, U) \in Nat
    BY <1>11, NumberSmall
  <2>. QED BY <1>12, <1>14, <2>1
<1>15. NumberOf(all, At("corrupt", 0)) = 0
  BY <1>7, <1>8, <1>14, QuietCount
<1>16. \A i \in DOMAIN lines : /\ NumberOf(all, At("note", i)) = NumberOf(b, At("note", i))
                               /\ NumberOf(all, At("text", i)) = NumberOf(b, At("text", i))
  BY <1>7, <1>14, QuietCount
<1>17. ASSUME NEW k \in DOMAIN all
       PROVE  all[k].what \in OtherKinds \/ (all[k].what \in {"note", "text"} /\ all[k].line \in DOMAIN lines)
  <2>1. PICK G : G = {p \in Pieces : \/ p.what \in OtherKinds
                                     \/ p.what \in {"note", "text"} /\ p.line \in DOMAIN lines}
    OBVIOUS
  <2>2. /\ \A i \in DOMAIN a : a[i] \in Pieces
        /\ \A i \in DOMAIN b : b[i] \in Pieces
        /\ \A i \in DOMAIN c : c[i] \in Pieces
    BY <1>11
  <2>3. /\ \A i \in DOMAIN a : a[i] \in G
        /\ \A i \in DOMAIN b : b[i] \in G
        /\ \A i \in DOMAIN c : c[i] \in G
    BY <1>7, <1>8, <2>1, <2>2 DEF Quiet
  <2>4. \A i \in DOMAIN (a \o b) : (a \o b)[i] \in G
    BY <1>11, <2>3, ConcatAll
  <2>5. \A i \in DOMAIN all : all[i] \in G
    BY <1>10, <1>11, <2>3, <2>4, ConcatAll
  <2>. QED BY <2>1, <2>5
<1>. QED BY <1>9, <1>11, <1>13, <1>15, <1>16, <1>17

--------------------------------------------------------------------------------
(* The invariant                                                           *)

\* What is written, then what is still to be.
Whole == out \o todo

\* Line i is answered in full, or not yet at all.
Due(i) == /\ NumberOf(Whole, At("note", i)) = OwedNotes(fed[i])
          /\ NumberOf(Whole, At("text", i)) = OwedText(fed[i])
Nothing(i) == /\ NumberOf(Whole, At("note", i)) = 0
              /\ NumberOf(Whole, At("text", i)) = 0

\* The analyzer's end of the run has been asked for.
Ended == main \in {"ending", "totals"} \/ Complete

PiecesOK ==
    /\ out \in Seq(Pieces) /\ todo \in Seq(Pieces) /\ totals \in Seq(Totals)
    /\ main \in {"register", "check", "recv"} => todo = << >>
    /\ main = "register" => out = << >>
    /\ main \in {"register", "notes"} => fed = << >> /\ warned = FALSE

\* A line's answer is due in one piece: with the line, with the line that
\* closes its event, or with the end of the run.
OwesInv ==
    /\ \A k \in DOMAIN Whole : Whole[k].what \in {"note", "text"} => Whole[k].line \in DOMAIN fed
    /\ \A i \in DOMAIN fed :
          /\ Ended \/ ~StillOpen(fed[i], i, Len(fed)) => Due(i)
          /\ StillOpen(fed[i], i, Len(fed)) /\ main \in {"check", "recv", "write"} => Nothing(i)
          /\ Due(i) \/ Nothing(i)

\* One warning, with the first corrupt record.
CorruptInv ==
    /\ warned <=> \E i \in DOMAIN fed : fed[i].corrupt
    /\ NumberOf(Whole, At("corrupt", 0)) = IF warned THEN 1 ELSE 0

\* A step that writes nothing and has nothing new to write.
Idle ==
    /\ UNCHANGED <<out, todo, totals, fed, warned>>
    /\ Ended' => Ended
    /\ main' = "totals" => main = "totals"
    /\ Complete' => main = "totals" \/ Complete
    /\ main' \in {"check", "recv", "write"} => main \in {"notes", "check", "recv", "write"}
    /\ main' \notin {"totals", "returned", "exited"} => main \notin {"totals", "returned", "exited"}
    /\ main' \in {"register", "check", "recv"} => todo = << >>
    /\ main' \in {"register", "notes"} => main' = main

\* LEMMA: few steps matter to what is written.
LEMMA Moves ==
    ASSUME IInv, PiecesOK, [Next]_vars
    PROVE  Idle \/ Register \/ Write \/ RecvLine \/ Finish \/ FinishTotals
<1>. USE DEF world, thread, analyzer, output
<1>1. CASE UNCHANGED vars
  BY <1>1 DEF vars, Idle, Ended, Complete, Over, PiecesOK
<1>2. CASE ReaderStep
  <2>1. UNCHANGED <<main, exit, out, todo, totals, fed, warned>>
    BY <1>2 DEF ReaderStep, ReadItem, ReadEof, Send, SendFails
  <2>. QED BY <2>1 DEF Idle, Ended, Complete, Over, PiecesOK
<1>3. CASE Environment
  <2>1. UNCHANGED <<out, todo, totals, fed, warned>>
    BY <1>3 DEF Environment, Arrive, CloseStdin, Sigint, BreakStdout
  <2>2. UNCHANGED <<main, exit>> \/ (main' = "exited" /\ exit' = "killed")
    BY <1>3 DEF Environment, Arrive, CloseStdin, Sigint, BreakStdout
  <2>. QED BY <2>1, <2>2 DEF Idle, Ended, Complete, Over, PiecesOK
<1>4. CASE RegisterFails \/ RecvError \/ WriteFails
  BY <1>4 DEF RegisterFails, RecvError, WriteFails, Return, Idle, Ended, Complete, Over
<1>5. CASE Spawn \/ LoopAgain \/ CheckFlag \/ RecvTimeout
  BY <1>5 DEF Spawn, LoopAgain, CheckFlag, RecvTimeout, Idle, Ended, Complete, Over, PiecesOK
<1>6. CASE Finished \/ Exit
  BY <1>6 DEF Finished, Exit, Return, Idle, Ended, Complete, Over
<1>. QED BY <1>1, <1>2, <1>3, <1>4, <1>5, <1>6 DEF Next, MainStep, Gone

LEMMA PiecesInit == Init => PiecesOK /\ OwesInv /\ CorruptInv
<1>. SUFFICES ASSUME Init PROVE PiecesOK /\ OwesInv /\ CorruptInv
  OBVIOUS
<1>1. /\ out = << >> /\ todo = << >> /\ totals = << >> /\ fed = << >> /\ warned = FALSE
      /\ Whole = << >> /\ Whole \in Seq(Pieces) /\ main = "register"
  BY DEF Init, Whole
<1>2. NumberOf(Whole, At("corrupt", 0)) = 0
  BY <1>1, NumberSmall
<1>. QED BY <1>1, <1>2 DEF PiecesOK, OwesInv, CorruptInv

\* What is put into todo at once, with nothing left in it before.
LEMMA ReportPiece == ReportPieces \in Seq(Pieces) /\ Quiet(ReportPieces)
<1>1. Piece("report", 0, "report") \in Pieces
  BY PieceTyped DEF Kinds, Messages
<1>2. << >> \in Seq(Pieces) /\ <<Piece("report", 0, "report")>> \in Seq(Pieces)
  BY <1>1
<1>3. Piece("report", 0, "report").what = "report"
  BY DEF Piece
<1>. QED BY <1>2, <1>3 DEF ReportPieces, Quiet, OtherKinds, Kinds

LEMMA TotalsTyped ==
    ASSUME NEW ts \in Seq(Totals)
    PROVE  /\ TotalPieces(ts) \in Seq(Pieces)
           /\ \A k \in DOMAIN TotalPieces(ts) : \E j \in DOMAIN ts :
                 ts[j].n > 1 /\ TotalPieces(ts)[k] = TotalPiece(ts[j])
           /\ \A j, m : /\ j \in DOMAIN ts
                        /\ \A k \in DOMAIN ts : ts[k].msg = m <=> k = j
                        => NumberOf(TotalPieces(ts), Saying("total", m)) = IF ts[j].n > 1 THEN 1 ELSE 0
           /\ \A m : (\A k \in DOMAIN ts : ts[k].msg # m)
                        => NumberOf(TotalPieces(ts), Saying("total", m)) = 0
<1>. DEFINE one(i) == When(ts[i].n > 1, TotalPiece(ts[i]))
            ss == [i \in DOMAIN ts |-> one(i)]
<1>1. DOMAIN ts = 1..Len(ts) /\ Len(ts) \in Nat /\ \A i \in DOMAIN ts : ts[i] \in Totals
  OBVIOUS
<1>2. \A i \in DOMAIN ts : /\ TotalPiece(ts[i]) \in Pieces
                           /\ TotalPiece(ts[i]).what = "total" /\ TotalPiece(ts[i]).msg = ts[i].msg
  BY <1>1 DEF Totals, TotalPiece, Pieces, Kinds
<1>3. ASSUME NEW U, NEW i \in DOMAIN ts
      PROVE  /\ one(i) \in Seq(Pieces)
             /\ NumberOf(one(i), U) = IF ts[i].n > 1 /\ TotalPiece(ts[i]) \in U THEN 1 ELSE 0
  <2>1. PICK c \in BOOLEAN : c <=> ts[i].n > 1
    OBVIOUS
  <2>2. one(i) = When(c, TotalPiece(ts[i]))
    BY <2>1 DEF When
  <2>. HIDE DEF one
  <2>. QED BY <1>2, <2>1, <2>2, WhenCount
<1>4. TotalPieces(ts) = FlattenSeq(ss)
  BY DEF TotalPieces
<1>. HIDE DEF one
<1>5. ss \in Seq(Seq(Pieces)) /\ DOMAIN ss = DOMAIN ts /\ \A i \in DOMAIN ts : ss[i] = one(i)
  <2>1. \A i \in DOMAIN ts : one(i) \in Seq(Pieces)
    BY <1>3, Zenon
  <2>. QED BY <1>1, <2>1
<1>. HIDE DEF ss
<1>6. PICK t : t = FlattenSeq(ss)
  OBVIOUS
<1>7. ASSUME NEW U, \A i \in DOMAIN ts : ts[i].n > 1 => TotalPiece(ts[i]) \notin U
      PROVE  t \in Seq(Pieces) /\ NumberOf(t, U) = 0
  <2>1. \A i \in DOMAIN ss : NumberOf(ss[i], U) = 0
    BY <1>3, <1>5, <1>7
  <2>. QED BY <1>5, <1>6, <2>1, FlattenNone
<1>8. t \in Seq(Pieces)
      /\ \A k \in DOMAIN t : \E j \in DOMAIN ts : ts[j].n > 1 /\ t[k] = TotalPiece(ts[j])
  <2>1. PICK Bad : Bad = {p \in Pieces : ~ \E j \in DOMAIN ts : ts[j].n > 1 /\ p = TotalPiece(ts[j])}
    OBVIOUS
  <2>2. t \in Seq(Pieces) /\ NumberOf(t, Bad) = 0
    BY <1>7, <2>1
  <2>3. \A k \in DOMAIN t : t[k] \in Pieces /\ t[k] \notin Bad
    BY <2>2, NumberSmall
  <2>. QED BY <2>1, <2>2, <2>3
<1>9. ASSUME NEW j \in DOMAIN ts, NEW m, \A k \in DOMAIN ts : ts[k].msg = m <=> k = j
      PROVE  NumberOf(t, Saying("total", m)) = IF ts[j].n > 1 THEN 1 ELSE 0
  <2>1. \A k \in DOMAIN ts : TotalPiece(ts[k]) \in Saying("total", m) <=> k = j
    BY <1>2, <1>9 DEF Saying
  <2>2. PICK U : U = Saying("total", m)
    OBVIOUS
  <2>3. \A k \in DOMAIN ss : k # j => NumberOf(ss[k], U) = 0
    BY <1>3, <1>5, <2>1, <2>2
  <2>4. NumberOf(ss[j], U) = IF ts[j].n > 1 THEN 1 ELSE 0
    BY <1>3, <1>5, <2>1, <2>2
  <2>5. NumberOf(t, U) = IF j \in DOMAIN ss THEN NumberOf(ss[j], U) ELSE 0
    BY <1>5, <1>6, <2>3, FlattenOne
  <2>. QED BY <1>5, <2>2, <2>4, <2>5
<1>10. ASSUME NEW m, \A k \in DOMAIN ts : ts[k].msg # m
       PROVE  NumberOf(t, Saying("total", m)) = 0
  <2>1. \A k \in DOMAIN ts : TotalPiece(ts[k]) \notin Saying("total", m)
    BY <1>2, <1>10 DEF Saying
  <2>. QED BY <1>7, <2>1
<1>. QED BY <1>4, <1>6, <1>8, <1>9, <1>10

\* LEMMA: counting a message once more.
LEMMA CountedOnce ==
    ASSUME NEW ts \in Seq(Totals), NEW m \in Messages, NEW c, c = Counted(ts, m)
    PROVE  /\ c \in Seq(Totals)
           /\ \A k \in DOMAIN ts : /\ k \in DOMAIN c /\ c[k].msg = ts[k].msg
                                   /\ c[k].n = ts[k].n + IF ts[k].msg = m THEN 1 ELSE 0
           /\ \A k \in DOMAIN c : k \notin DOMAIN ts =>
                 /\ c[k].msg = m /\ c[k].n = 1 /\ k = Len(ts) + 1
                 /\ \A j \in DOMAIN ts : ts[j].msg # m
           /\ \E k \in DOMAIN c : c[k].msg = m
<1>1. /\ DOMAIN ts = 1..Len(ts) /\ Len(ts) \in Nat
      /\ \A k \in DOMAIN ts : ts[k] \in Totals
  OBVIOUS
<1>2. \A t \in Totals : t.msg \in Messages /\ t.n \in Nat
  BY DEF Totals
<1>3. CASE \E i \in DOMAIN ts : ts[i].msg = m
  <2>1. c = [i \in DOMAIN ts |-> IF ts[i].msg = m THEN [ts[i] EXCEPT !.n = @ + 1] ELSE ts[i]]
    BY <1>3 DEF Counted
  <2>2. ASSUME NEW k \in DOMAIN ts
        PROVE  /\ c[k] \in Totals /\ c[k].msg = ts[k].msg
               /\ c[k].n = ts[k].n + IF ts[k].msg = m THEN 1 ELSE 0
    <3>1. CASE ts[k].msg = m
      <4>1. c[k] = [ts[k] EXCEPT !.n = @ + 1]
        BY <2>1, <3>1
      <4>. QED BY <1>1, <3>1, <4>1 DEF Totals
    <3>2. CASE ts[k].msg # m
      <4>1. c[k] = ts[k]
        BY <2>1, <3>2
      <4>. QED BY <1>1, <1>2, <3>2, <4>1
    <3>. QED BY <3>1, <3>2
  <2>3. DOMAIN c = DOMAIN ts
    BY <2>1
  <2>4. c \in Seq(Totals)
    <3>1. c = [i \in 1..Len(ts) |-> c[i]]
      BY <1>1, <2>1
    <3>. QED BY <1>1, <2>2, <3>1
  <2>. QED BY <1>3, <2>2, <2>3, <2>4
<1>4. CASE ~ \E i \in DOMAIN ts : ts[i].msg = m
  <2>1. PICK e : e = [msg |-> m, n |-> 1]
    OBVIOUS
  <2>2. e \in Totals /\ e.msg = m /\ e.n = 1
    BY <2>1 DEF Totals
  <2>3. c = Append(ts, e)
    BY <1>4, <2>1 DEF Counted
  <2>4. /\ c \in Seq(Totals) /\ DOMAIN c = DOMAIN ts \cup {Len(ts) + 1} /\ Len(ts) + 1 \notin DOMAIN ts
        /\ c[Len(ts) + 1] = e /\ \A k \in DOMAIN ts : c[k] = ts[k]
    BY <2>2, <2>3, Appended
  <2>5. \A k \in DOMAIN ts : ts[k].n \in Nat /\ ts[k].msg # m
    BY <1>1, <1>2, <1>4
  <2>. QED BY <2>2, <2>4, <2>5
<1>. QED BY <1>3, <1>4

\* LEMMA: the pieces a step adds, after those there were.
LEMMA Added ==
    ASSUME IInv, PiecesOK, totals \in Seq(Totals)
    PROVE  /\ Register => todo' \in Seq(Pieces) /\ Quiet(todo')
           /\ RecvLine => /\ todo' = StepPieces(Released(fed'), warned)
                          /\ fed' = Append(fed, Head(chan)) /\ Head(chan) \in Lines
                          /\ About(Released(fed'), fed') /\ fed' \in Seq(Lines) /\ fed \in Seq(Lines)
           /\ Finish => todo' = EndPieces(fed, warned) /\ fed \in Seq(Lines)
           /\ FinishTotals => todo' = TotalPieces(totals) \o ReportPieces
           /\ Register \/ RecvLine \/ Finish \/ FinishTotals =>
                 /\ todo' \in Seq(Pieces) /\ out' = out /\ totals' = totals /\ todo = << >>
                 /\ Whole = out /\ Whole' = Whole \o todo' /\ Whole \in Seq(Pieces)
           /\ Write => /\ Whole' = Whole /\ Whole \in Seq(Pieces)
                       /\ out' = Append(out, Head(todo)) /\ todo' = Tail(todo)
                       /\ Head(todo) \in Pieces /\ out' \in Seq(Pieces) /\ todo' \in Seq(Pieces)
<1>1. ASSUME Register PROVE todo' \in Seq(Pieces) /\ Quiet(todo')
  <2>1. todo' = Comments("host", 0, HostNotes)
    BY <1>1 DEF Register
  <2>. QED BY <2>1, NotesTyped, CommentsRest DEF Quiet
<1>2. ASSUME RecvLine
      PROVE  /\ todo' = StepPieces(Released(fed'), warned)
             /\ fed' = Append(fed, Head(chan)) /\ Head(chan) \in Lines
             /\ About(Released(fed'), fed') /\ fed' \in Seq(Lines) /\ fed \in Seq(Lines)
             /\ todo' \in Seq(Pieces)
  <2>1. fed \in Seq(Lines) /\ Head(chan) \in Lines
    BY <1>2 DEF IInv, TypeOK, RecvLine
  <2>2. fed' = Append(fed, Head(chan)) /\ todo' = StepPieces(Released(fed'), warned)
    BY <1>2 DEF RecvLine
  <2>3. fed' \in Seq(Lines)
    BY <2>1, <2>2
  <2>4. About(Released(fed'), fed')
    BY <2>1, <2>2, ReleasedRecords
  <2>. QED BY <2>1, <2>2, <2>3, <2>4, StepRest
<1>3. ASSUME Finish PROVE todo' = EndPieces(fed, warned) /\ fed \in Seq(Lines) /\ todo' \in Seq(Pieces)
  BY <1>3, EndCount DEF Finish, IInv, TypeOK
<1>4. ASSUME FinishTotals PROVE todo' = TotalPieces(totals) \o ReportPieces /\ todo' \in Seq(Pieces)
  <2>1. TotalPieces(totals) \in Seq(Pieces) /\ ReportPieces \in Seq(Pieces)
    BY TotalsTyped, ReportPiece
  <2>. QED BY <1>4, <2>1 DEF FinishTotals
<1>5. ASSUME Register \/ RecvLine \/ Finish \/ FinishTotals
      PROVE  out' = out /\ totals' = totals /\ todo = << >>
  BY <1>5 DEF Register, RecvLine, Finish, FinishTotals, PiecesOK, output
<1>6. ASSUME Register \/ RecvLine \/ Finish \/ FinishTotals
      PROVE  Whole = out /\ Whole' = Whole \o todo' /\ Whole \in Seq(Pieces)
  <2>1. out \in Seq(Pieces)
    BY DEF PiecesOK
  <2>2. out' = out /\ todo = << >>
    BY <1>5, <1>6
  <2>3. out \o << >> = out
    BY <2>1, ConcatEmptySeq
  <2>4. Whole = out
    BY <2>2, <2>3, Zenon DEF Whole
  <2>5. Whole' = out' \o todo'
    BY DEF Whole
  <2>. QED BY <2>1, <2>2, <2>4, <2>5
<1>7. ASSUME Write
      PROVE  /\ Whole' = Whole /\ Whole \in Seq(Pieces)
             /\ out' = Append(out, Head(todo)) /\ todo' = Tail(todo)
             /\ Head(todo) \in Pieces /\ out' \in Seq(Pieces) /\ todo' \in Seq(Pieces)
  <2>1. /\ out \in Seq(Pieces) /\ todo \in Seq(Pieces) /\ todo # << >>
        /\ out' = Append(out, Head(todo)) /\ todo' = Tail(todo)
    BY <1>7 DEF PiecesOK, Write
  <2>2. Whole' = Whole
    BY <2>1, MoveItem DEF Whole
  <2>3. Head(todo) \in Pieces /\ Tail(todo) \in Seq(Pieces) /\ out \o todo \in Seq(Pieces)
    BY <2>1
  <2>. QED BY <2>1, <2>2, <2>3 DEF Whole
<1>. QED BY <1>1, <1>2, <1>3, <1>4, <1>5, <1>6, <1>7

LEMMA PiecesStep ==
    ASSUME IInv, PiecesOK, [Next]_vars
    PROVE  PiecesOK'
<1>0. totals \in Seq(Totals)
  BY DEF PiecesOK
<1>1. CASE Idle
  BY <1>1 DEF Idle, PiecesOK
<1>2. CASE Register
  BY <1>0, <1>2, Added DEF Register, PiecesOK, analyzer
<1>3. CASE Write
  <2>1. totals' \in Seq(Totals)
    <3>1. CASE Head(todo).what = "note"
      <4>1. Head(todo).msg \in Messages
        BY <1>0, <1>3, Added DEF Pieces
      <4>2. totals' = Counted(totals, Head(todo).msg)
        BY <1>3, <3>1 DEF Write
      <4>. QED BY <1>0, <4>1, <4>2, CountedOnce
    <3>2. CASE Head(todo).what # "note"
      BY <1>0, <1>3, <3>2 DEF Write
    <3>. QED BY <3>1, <3>2
  <2>2. main' = main /\ main \in {"notes", "write", "ending", "totals"} /\ fed' = fed /\ warned' = warned
    BY <1>3 DEF Write, analyzer
  <2>. QED BY <1>0, <1>3, <2>1, <2>2, Added DEF PiecesOK
<1>4. CASE RecvLine \/ Finish \/ FinishTotals
  <2>1. main' \in {"write", "ending", "totals"}
    BY <1>4 DEF RecvLine, Finish, FinishTotals
  <2>. QED BY <1>0, <1>4, <2>1, Added DEF PiecesOK
<1>. QED BY <1>1, <1>2, <1>3, <1>4, Moves

--------------------------------------------------------------------------------
(* Every line is answered once                                             *)

\* LEMMA: what is due stays due while nothing is added for any line.
LEMMA OwesSame ==
    ASSUME OwesInv, Whole' = Whole, fed' = fed, Ended' => Ended,
           main' \in {"check", "recv", "write"} => main \in {"check", "recv", "write"} \/ fed = << >>
    PROVE  OwesInv'
<1>1. \A i \in DOMAIN fed : (Due(i)' <=> Due(i)) /\ (Nothing(i)' <=> Nothing(i))
  BY DEF Due, Nothing
<1>. QED BY <1>1 DEF OwesInv

\* LEMMA: the pieces of a line after a step that adds some.
LEMMA Counts ==
    ASSUME NEW w \in Seq(Pieces), NEW p \in Seq(Pieces)
    PROVE  \A U : /\ NumberOf(w \o p, U) = NumberOf(w, U) + NumberOf(p, U)
                  /\ NumberOf(w, U) \in Nat /\ NumberOf(p, U) \in Nat
BY NumberConcat, NumberSmall

\* LEMMA: no piece is about a line that was not fed.
LEMMA LinesFed ==
    ASSUME PiecesOK, OwesInv, Whole \in Seq(Pieces), NEW i, i \notin DOMAIN fed
    PROVE  Nothing(i)
<1>1. \A k \in DOMAIN Whole : Whole[k] \notin At("note", i) /\ Whole[k] \notin At("text", i)
  BY DEF OwesInv, At
<1>. QED BY <1>1, NumberSmall DEF Nothing

LEMMA OwesRecv ==
    ASSUME IInv, PiecesOK, OwesInv, RecvLine
    PROVE  OwesInv'
<1>1. /\ todo' = StepPieces(Released(fed'), warned)
      /\ fed' = Append(fed, Head(chan)) /\ Head(chan) \in Lines
      /\ About(Released(fed'), fed') /\ fed' \in Seq(Lines) /\ fed \in Seq(Lines)
      /\ todo' \in Seq(Pieces) /\ Whole' = Whole \o todo' /\ Whole \in Seq(Pieces)
  BY Added DEF PiecesOK
<1>2. main = "recv" /\ main' = "write" /\ ~Ended'
  BY DEF RecvLine, Ended, Complete, Over
<1>3. PICK n \in Nat : n = Len(fed)
  BY <1>1
<1>4. /\ DOMAIN fed' = DOMAIN fed \cup {n + 1} /\ Len(fed') = n + 1 /\ n + 1 \notin DOMAIN fed
      /\ fed'[n + 1] = Head(chan) /\ \A i \in DOMAIN fed : fed'[i] = fed[i] /\ i \in 1..n
  BY <1>1, <1>3, Appended
<1>5. CloseAfter \in Nat
  BY BoundAssumption
<1>6. PICK records : records = Released(fed')
  OBVIOUS
<1>7. PICK after : after = fed'
  OBVIOUS
<1>8. PICK added : added = todo'
  OBVIOUS
<1>9. ASSUME NEW i \in DOMAIN after, Once(records, i) \/ Never(records, i)
      PROVE  /\ NumberOf(added, At("note", i)) = IF Once(records, i) THEN OwedNotes(after[i]) ELSE 0
             /\ NumberOf(added, At("text", i)) = IF Once(records, i) THEN OwedText(after[i]) ELSE 0
  <2>1. added = StepPieces(records, warned) /\ About(records, after) /\ after \in Seq(Lines)
    BY <1>1, <1>6, <1>7, <1>8
  <2>. QED BY <1>9, <2>1, StepOne
<1>10. /\ \A i \in DOMAIN fed :
             IF StillOpen(fed[i], i, n) /\ ~StillOpen(after[i], i, n + 1)
             THEN Once(records, i) ELSE Never(records, i)
       /\ IF StillOpen(after[n + 1], n + 1, n + 1) THEN Never(records, n + 1) ELSE Once(records, n + 1)
  <2>1. PICK x : x = Head(chan)
    OBVIOUS
  <2>2. x \in Lines /\ fed \in Seq(Lines) /\ after = Append(fed, x) /\ after[n + 1] = x /\ Len(after) = n + 1
    BY <1>1, <1>4, <1>7, <2>1
  <2>3. /\ \A i \in DOMAIN fed :
              IF StillOpen(fed[i], i, Len(fed)) /\ ~StillOpen(after[i], i, Len(after))
              THEN Once(Released(after), i) ELSE Never(Released(after), i)
        /\ IF StillOpen(x, Len(after), Len(after)) THEN Never(Released(after), Len(after))
           ELSE Once(Released(after), Len(after))
    BY <2>2, ReleasedRecords
  <2>. QED BY <1>3, <1>6, <1>7, <2>2, <2>3
<1>11. ASSUME NEW i \in DOMAIN fed
       PROVE  /\ StillOpen(fed'[i], i, n + 1) => Nothing(i)'
              /\ ~StillOpen(fed'[i], i, n + 1) => Due(i)'
  <2>1. i \in DOMAIN after /\ after[i] = fed[i] /\ fed'[i] = fed[i]
    BY <1>4, <1>7
  <2>2. LET there == StillOpen(fed[i], i, n) /\ ~StillOpen(fed[i], i, n + 1)
        IN  /\ NumberOf(todo', At("note", i)) = IF there THEN OwedNotes(fed[i]) ELSE 0
            /\ NumberOf(todo', At("text", i)) = IF there THEN OwedText(fed[i]) ELSE 0
    BY <1>8, <1>9, <1>10, <2>1, OnceOrNever
  <2>3. StillOpen(fed[i], i, n + 1) => StillOpen(fed[i], i, n)
    BY <1>3, <1>4, <1>5 DEF StillOpen
  <2>4. /\ NumberOf(Whole', At("note", i)) = NumberOf(Whole, At("note", i)) + NumberOf(todo', At("note", i))
        /\ NumberOf(Whole', At("text", i)) = NumberOf(Whole, At("text", i)) + NumberOf(todo', At("text", i))
        /\ NumberOf(Whole, At("note", i)) \in Nat /\ NumberOf(Whole, At("text", i)) \in Nat
        /\ NumberOf(todo', At("note", i)) \in Nat /\ NumberOf(todo', At("text", i)) \in Nat
    BY <1>1, Counts
  <2>5. CASE StillOpen(fed[i], i, n)
    <3>1. Nothing(i)
      BY <1>2, <1>3, <2>5 DEF OwesInv
    <3>. QED BY <2>1, <2>2, <2>4, <2>5, <3>1 DEF Nothing, Due
  <2>6. CASE ~StillOpen(fed[i], i, n)
    <3>1. Due(i)
      BY <1>3, <2>6 DEF OwesInv
    <3>. QED BY <2>1, <2>2, <2>3, <2>4, <2>6, <3>1 DEF Due
  <2>. QED BY <2>5, <2>6
<1>12. /\ StillOpen(fed'[n + 1], n + 1, n + 1) => Nothing(n + 1)'
       /\ ~StillOpen(fed'[n + 1], n + 1, n + 1) => Due(n + 1)'
  <2>1. n + 1 \in DOMAIN after
    BY <1>4, <1>7
  <2>2. LET there == ~StillOpen(fed'[n + 1], n + 1, n + 1)
        IN  /\ NumberOf(todo', At("note", n + 1)) = IF there THEN OwedNotes(fed'[n + 1]) ELSE 0
            /\ NumberOf(todo', At("text", n + 1)) = IF there THEN OwedText(fed'[n + 1]) ELSE 0
    BY <1>7, <1>8, <1>9, <1>10, <2>1, OnceOrNever
  <2>3. Nothing(n + 1)
    BY <1>1, <1>4, LinesFed
  <2>4. \A U : /\ NumberOf(Whole', U) = NumberOf(Whole, U) + NumberOf(todo', U)
               /\ NumberOf(todo', U) \in Nat
    BY <1>1, Counts
  <2>5. /\ NumberOf(Whole', At("note", n + 1)) = NumberOf(todo', At("note", n + 1))
        /\ NumberOf(Whole', At("text", n + 1)) = NumberOf(todo', At("text", n + 1))
    <3>1. /\ NumberOf(Whole', At("note", n + 1)) = 0 + NumberOf(todo', At("note", n + 1))
          /\ NumberOf(Whole', At("text", n + 1)) = 0 + NumberOf(todo', At("text", n + 1))
          /\ NumberOf(todo', At("note", n + 1)) \in Nat /\ NumberOf(todo', At("text", n + 1)) \in Nat
      BY <2>3, <2>4 DEF Nothing
    <3>. QED BY <3>1
  <2>. QED BY <1>3, <2>2, <2>5 DEF Nothing, Due
<1>13. \A k \in DOMAIN Whole' : Whole'[k].what \in {"note", "text"} => Whole'[k].line \in DOMAIN fed'
  <2>1. PICK G : G = {p \in Pieces : p.what \in {"note", "text"} => p.line \in DOMAIN fed'}
    OBVIOUS
  <2>2. \A k \in DOMAIN Whole : Whole[k] \in G
    BY <1>1, <1>4, <2>1 DEF OwesInv
  <2>3. \A k \in DOMAIN todo' : todo'[k] \in G
    <3>1. \A k \in DOMAIN todo' : todo'[k] \in Pieces
      BY <1>1
    <3>2. \A k \in DOMAIN todo' :
             todo'[k].what \in OtherKinds \/ (todo'[k].what \in {"note", "text"} /\ todo'[k].line \in DOMAIN fed')
      BY <1>1, StepRest
    <3>. QED BY <2>1, <3>1, <3>2 DEF OtherKinds
  <2>4. \A k \in DOMAIN (Whole \o todo') : (Whole \o todo')[k] \in G
    BY <1>1, <2>2, <2>3, ConcatAll
  <2>. QED BY <1>1, <2>1, <2>4
<1>14. \A i \in DOMAIN fed' : /\ StillOpen(fed'[i], i, Len(fed')) => Nothing(i)'
                              /\ ~StillOpen(fed'[i], i, Len(fed')) => Due(i)'
  BY <1>4, <1>11, <1>12
<1>. QED BY <1>2, <1>13, <1>14 DEF OwesInv

LEMMA OwesFinish ==
    ASSUME IInv, PiecesOK, OwesInv, Finish
    PROVE  OwesInv'
<1>1. /\ todo' = EndPieces(fed, warned) /\ fed \in Seq(Lines)
      /\ todo' \in Seq(Pieces) /\ Whole' = Whole \o todo' /\ Whole \in Seq(Pieces)
  BY Added DEF PiecesOK
<1>2. main \in {"check", "recv"} /\ main' = "ending" /\ fed' = fed
  BY DEF Finish, analyzer
<1>3. ASSUME NEW i \in DOMAIN fed PROVE Due(i)'
  <2>1. /\ NumberOf(todo', At("note", i)) = IF StillOpen(fed[i], i, Len(fed)) THEN OwedNotes(fed[i]) ELSE 0
        /\ NumberOf(todo', At("text", i)) = IF StillOpen(fed[i], i, Len(fed)) THEN OwedText(fed[i]) ELSE 0
    BY <1>1, EndCount
  <2>2. /\ NumberOf(Whole', At("note", i)) = NumberOf(Whole, At("note", i)) + NumberOf(todo', At("note", i))
        /\ NumberOf(Whole', At("text", i)) = NumberOf(Whole, At("text", i)) + NumberOf(todo', At("text", i))
        /\ NumberOf(Whole, At("note", i)) \in Nat /\ NumberOf(Whole, At("text", i)) \in Nat
        /\ NumberOf(todo', At("note", i)) \in Nat /\ NumberOf(todo', At("text", i)) \in Nat
    BY <1>1, Counts
  <2>3. CASE StillOpen(fed[i], i, Len(fed))
    <3>1. Nothing(i)
      BY <1>2, <2>3 DEF OwesInv
    <3>. QED BY <1>2, <2>1, <2>2, <2>3, <3>1 DEF Nothing, Due
  <2>4. CASE ~StillOpen(fed[i], i, Len(fed))
    <3>1. Due(i)
      BY <2>4 DEF OwesInv
    <3>. QED BY <1>2, <2>1, <2>2, <2>4, <3>1 DEF Due
  <2>. QED BY <2>3, <2>4
<1>4. \A k \in DOMAIN Whole' : Whole'[k].what \in {"note", "text"} => Whole'[k].line \in DOMAIN fed
  <2>1. PICK G : G = {p \in Pieces : p.what \in {"note", "text"} => p.line \in DOMAIN fed}
    OBVIOUS
  <2>2. \A k \in DOMAIN Whole : Whole[k] \in G
    BY <1>1, <2>1 DEF OwesInv
  <2>3. \A k \in DOMAIN todo' : todo'[k] \in G
    <3>1. \A k \in DOMAIN todo' : todo'[k] \in Pieces
      BY <1>1
    <3>2. \A k \in DOMAIN todo' :
             todo'[k].what \in OtherKinds \/ (todo'[k].what \in {"note", "text"} /\ todo'[k].line \in DOMAIN fed)
      BY <1>1, EndCount
    <3>. QED BY <2>1, <3>1, <3>2 DEF OtherKinds
  <2>4. \A k \in DOMAIN (Whole \o todo') : (Whole \o todo')[k] \in G
    BY <1>1, <2>2, <2>3, ConcatAll
  <2>. QED BY <1>1, <2>1, <2>4
<1>. QED BY <1>2, <1>3, <1>4 DEF OwesInv

\* LEMMA: the totals and the report are about no line.
LEMMA OwesTotals ==
    ASSUME IInv, PiecesOK, OwesInv, FinishTotals
    PROVE  OwesInv'
<1>1. /\ todo' = TotalPieces(totals) \o ReportPieces /\ totals \in Seq(Totals)
      /\ todo' \in Seq(Pieces) /\ Whole' = Whole \o todo' /\ Whole \in Seq(Pieces)
  BY Added DEF PiecesOK
<1>2. main = "ending" /\ main' = "totals" /\ fed' = fed
  BY DEF FinishTotals, analyzer
<1>3. PICK G : G = {p \in Pieces : p.what \notin {"note", "text", "corrupt"}}
  OBVIOUS
<1>4. \A k \in DOMAIN todo' : todo'[k] \in G
  <2>1. TotalPieces(totals) \in Seq(Pieces) /\ ReportPieces \in Seq(Pieces)
    BY <1>1, TotalsTyped, ReportPiece
  <2>2. \A k \in DOMAIN TotalPieces(totals) : TotalPieces(totals)[k] \in G
    <3>1. \A k \in DOMAIN TotalPieces(totals) : TotalPieces(totals)[k] \in Pieces
      BY <2>1
    <3>2. \A k \in DOMAIN TotalPieces(totals) : TotalPieces(totals)[k].what = "total"
      BY <1>1, TotalsTyped DEF TotalPiece
    <3>. QED BY <1>3, <3>1, <3>2
  <2>3. \A k \in DOMAIN ReportPieces : ReportPieces[k] \in G
    <3>1. \A k \in DOMAIN ReportPieces : ReportPieces[k] \in Pieces
      BY <2>1
    <3>. QED BY <1>3, <3>1, ReportPiece DEF Quiet, OtherKinds
  <2>. QED BY <1>1, <2>1, <2>2, <2>3, ConcatAll
<1>5. \A i : NumberOf(todo', At("note", i)) = 0 /\ NumberOf(todo', At("text", i)) = 0
  <2>1. \A i : \A k \in DOMAIN todo' : todo'[k] \notin At("note", i) /\ todo'[k] \notin At("text", i)
    BY <1>3, <1>4 DEF At
  <2>2. PICK td : td = todo' /\ td \in Seq(Pieces)
    BY <1>1
  <2>3. ASSUME NEW U, \A k \in DOMAIN td : td[k] \notin U PROVE NumberOf(td, U) = 0
    BY <2>2, <2>3, NumberSmall
  <2>. QED BY <2>1, <2>2, <2>3, Zenon
<1>6. \A i : /\ NumberOf(Whole', At("note", i)) = NumberOf(Whole, At("note", i))
             /\ NumberOf(Whole', At("text", i)) = NumberOf(Whole, At("text", i))
  <2>1. \A U : NumberOf(Whole', U) = NumberOf(Whole, U) + NumberOf(todo', U) /\ NumberOf(Whole, U) \in Nat
    BY <1>1, Counts
  <2>. QED BY <1>5, <2>1
<1>7. \A i \in DOMAIN fed : Due(i)'
  <2>1. \A i \in DOMAIN fed : Due(i)
    BY <1>2 DEF OwesInv, Ended
  <2>. QED BY <1>2, <1>6, <2>1 DEF Due
<1>8. \A k \in DOMAIN Whole' : Whole'[k].what \in {"note", "text"} => Whole'[k].line \in DOMAIN fed
  <2>1. PICK H : H = {p \in Pieces : p.what \in {"note", "text"} => p.line \in DOMAIN fed}
    OBVIOUS
  <2>2. \A k \in DOMAIN Whole : Whole[k] \in H
    BY <1>1, <2>1 DEF OwesInv
  <2>3. \A k \in DOMAIN todo' : todo'[k] \in H
    BY <1>3, <1>4, <2>1
  <2>4. \A k \in DOMAIN (Whole \o todo') : (Whole \o todo')[k] \in H
    BY <1>1, <2>2, <2>3, ConcatAll
  <2>. QED BY <1>1, <2>1, <2>4
<1>. QED BY <1>2, <1>7, <1>8 DEF OwesInv

LEMMA OwesStep ==
    ASSUME IInv, PiecesOK, OwesInv, [Next]_vars
    PROVE  OwesInv'
<1>1. CASE Idle
  <2>1. Whole' = Whole /\ fed' = fed
    BY <1>1 DEF Idle, Whole
  <2>2. main = "notes" => fed = << >>
    BY DEF PiecesOK
  <2>. QED BY <1>1, <2>1, <2>2, OwesSame DEF Idle
<1>2. CASE Register
  <2>1. todo' \in Seq(Pieces) /\ Quiet(todo') /\ Whole' = Whole \o todo' /\ Whole = << >>
    BY <1>2, Added DEF PiecesOK, Register
  <2>2. Whole' = todo' /\ fed' = << >>
    BY <1>2, <2>1 DEF Register, PiecesOK, analyzer
  <2>. QED BY <2>1, <2>2 DEF OwesInv, Quiet, OtherKinds
<1>3. CASE Write
  <2>1. Whole' = Whole
    BY <1>3, Added DEF PiecesOK
  <2>2. fed' = fed /\ main' = main /\ (Ended' => Ended)
    BY <1>3 DEF Write, analyzer, Ended, Complete, Over
  <2>. QED BY <2>1, <2>2, OwesSame
<1>. QED BY <1>1, <1>2, <1>3, Moves, OwesRecv, OwesFinish, OwesTotals

--------------------------------------------------------------------------------
(* The warning                                                             *)

LEMMA CorruptStep ==
    ASSUME IInv, PiecesOK, CorruptInv, [Next]_vars
    PROVE  CorruptInv'
<1>. DEFINE K == At("corrupt", 0)
<1>1. ASSUME Whole' = Whole, fed' = fed, warned' = warned PROVE CorruptInv'
  BY <1>1 DEF CorruptInv
<1>2. ASSUME NEW p, p = todo', p \in Seq(Pieces), Whole \in Seq(Pieces), Whole' = Whole \o p,
             NumberOf(p, K) = 0, fed' = fed, warned' = warned
      PROVE  CorruptInv'
  <2>1. NumberOf(Whole', K) = NumberOf(Whole, K)
    <3>1. \A U : NumberOf(Whole \o p, U) = NumberOf(Whole, U) + NumberOf(p, U) /\ NumberOf(Whole, U) \in Nat
      BY <1>2, Counts
    <3>. QED BY <1>2, <3>1
  <2>. QED BY <1>2, <2>1 DEF CorruptInv
<1>3. CASE Idle
  BY <1>1, <1>3 DEF Idle, Whole
<1>4. CASE Write
  <2>1. Whole' = Whole
    BY <1>4, Added DEF PiecesOK
  <2>. QED BY <1>1, <1>4, <2>1 DEF Write, analyzer
<1>5. CASE Register
  <2>1. NumberOf(todo', K) = 0
    BY <1>5, Added, QuietCount DEF PiecesOK
  <2>2. todo' \in Seq(Pieces) /\ Whole \in Seq(Pieces) /\ Whole' = Whole \o todo'
    BY <1>5, Added DEF PiecesOK
  <2>. QED BY <1>2, <1>5, <2>1, <2>2 DEF Register, analyzer
<1>6. CASE Finish
  <2>1. NumberOf(todo', K) = 0
    BY <1>6, Added, EndCount DEF PiecesOK
  <2>2. todo' \in Seq(Pieces) /\ Whole \in Seq(Pieces) /\ Whole' = Whole \o todo'
    BY <1>6, Added DEF PiecesOK
  <2>. QED BY <1>2, <1>6, <2>1, <2>2 DEF Finish, analyzer
<1>7. CASE FinishTotals
  <2>1. /\ todo' = TotalPieces(totals) \o ReportPieces /\ totals \in Seq(Totals)
        /\ todo' \in Seq(Pieces) /\ Whole \in Seq(Pieces) /\ Whole' = Whole \o todo'
    BY <1>7, Added DEF PiecesOK
  <2>2. NumberOf(todo', K) = 0
    <3>1. TotalPieces(totals) \in Seq(Pieces) /\ ReportPieces \in Seq(Pieces)
      BY <2>1, TotalsTyped, ReportPiece
    <3>2. NumberOf(ReportPieces, K) = 0
      BY ReportPiece, QuietCount
    <3>3. \A k \in DOMAIN TotalPieces(totals) : TotalPieces(totals)[k].what = "total"
      BY <2>1, TotalsTyped DEF TotalPiece
    <3>4. \A k \in DOMAIN TotalPieces(totals) : TotalPieces(totals)[k] \notin K
      BY <3>3 DEF At
    <3>. HIDE DEF K
    <3>5. NumberOf(TotalPieces(totals), K) = 0
      BY <3>1, <3>4, NumberSmall
    <3>6. NumberOf(TotalPieces(totals) \o ReportPieces, K) = NumberOf(TotalPieces(totals), K) + NumberOf(ReportPieces, K)
      BY <3>1, Counts
    <3>. QED BY <2>1, <3>2, <3>5, <3>6
  <2>. QED BY <1>2, <1>7, <2>1, <2>2 DEF FinishTotals, analyzer
<1>8. CASE RecvLine
  <2>1. /\ todo' = StepPieces(Released(fed'), warned)
        /\ fed' = Append(fed, Head(chan)) /\ Head(chan) \in Lines
        /\ About(Released(fed'), fed') /\ fed' \in Seq(Lines) /\ fed \in Seq(Lines)
        /\ todo' \in Seq(Pieces) /\ Whole \in Seq(Pieces) /\ Whole' = Whole \o todo'
    BY <1>8, Added DEF PiecesOK
  <2>2. warned' <=> warned \/ Head(chan).corrupt
    BY <1>8 DEF RecvLine
  <2>3. (\E i \in DOMAIN fed' : fed'[i].corrupt) <=> (\E i \in DOMAIN fed : fed[i].corrupt) \/ Head(chan).corrupt
    <3>1. DOMAIN fed' = DOMAIN fed \cup {Len(fed) + 1} /\ fed'[Len(fed) + 1] = Head(chan)
          /\ \A i \in DOMAIN fed : fed'[i] = fed[i]
      BY <2>1, Appended
    <3>. QED BY <3>1
  <2>4. PICK p : p = todo'
    OBVIOUS
  <2>5. NumberOf(p, K) = IF ~warned /\ Head(chan).corrupt THEN 1 ELSE 0
    <3>1. PICK after : after = fed'
      OBVIOUS
    <3>2. (\E i \in DOMAIN Released(after) : Released(after)[i][2].corrupt) <=> Head(chan).corrupt
      BY <2>1, <3>1, ReleasedRecords
    <3>3. PICK records : records = Released(after)
      OBVIOUS
    <3>4. after \in Seq(Lines) /\ About(records, after)
      BY <2>1, <3>1, <3>3
    <3>5. NumberOf(StepPieces(records, warned), K)
             = IF ~warned /\ \E i \in DOMAIN records : records[i][2].corrupt THEN 1 ELSE 0
      BY <3>4, StepRest
    <3>6. p = StepPieces(records, warned)
      BY <2>1, <2>4, <3>1, <3>3
    <3>. HIDE DEF K
    <3>. QED BY <3>2, <3>3, <3>5, <3>6
  <2>6. NumberOf(Whole', K) = NumberOf(Whole, K) + NumberOf(p, K)
    BY <2>1, <2>4, Counts
  <2>7. NumberOf(Whole, K) = (IF warned THEN 1 ELSE 0) /\ (warned <=> \E i \in DOMAIN fed : fed[i].corrupt)
    BY DEF CorruptInv
  <2>. HIDE DEF K
  <2>8. NumberOf(Whole', K) = IF warned' THEN 1 ELSE 0
    BY <2>2, <2>5, <2>6, <2>7
  <2>. QED BY <2>2, <2>3, <2>7, <2>8 DEF CorruptInv, K
<1>. QED BY <1>3, <1>4, <1>5, <1>6, <1>7, <1>8, Moves

--------------------------------------------------------------------------------
(* The totals                                                              *)

\* How often a note was written.
Live(m) == NumberOf(out, Saying("note", m))

\* One entry for each message that was written, with the number of times.
TotalsInv ==
    /\ \A j, k \in DOMAIN totals : totals[j].msg = totals[k].msg => j = k
    /\ \A k \in DOMAIN totals : totals[k].n = Live(totals[k].msg)
    /\ \A m \in Messages : Live(m) # 0 => \E k \in DOMAIN totals : totals[k].msg = m

LEMMA TotalsInit == Init => TotalsInv
<1>. SUFFICES ASSUME Init PROVE TotalsInv
  OBVIOUS
<1>1. out = << >> /\ totals = << >> /\ out \in Seq(Pieces)
  BY DEF Init
<1>2. \A U : NumberOf(<< >>, U) = 0
  BY <1>1, NumberSmall
<1>. QED BY <1>1, <1>2 DEF TotalsInv, Live

LEMMA TotalsStep ==
    ASSUME IInv, PiecesOK, TotalsInv, [Next]_vars
    PROVE  TotalsInv'
<1>1. ASSUME out' = out, totals' = totals PROVE TotalsInv'
  BY <1>1 DEF TotalsInv, Live
<1>2. CASE ~Write
  <2>1. out' = out /\ totals' = totals
    BY <1>2, Moves, Added DEF Idle, PiecesOK
  <2>. QED BY <1>1, <2>1
<1>3. CASE Write
  <2>1. PICK e : e = Head(todo)
    OBVIOUS
  <2>2. out \in Seq(Pieces) /\ e \in Pieces /\ out' = Append(out, e) /\ totals \in Seq(Totals)
    BY <1>3, <2>1, Added DEF PiecesOK
  <2>3. \A m : /\ Live(m) \in Nat
               /\ Live(m)' = Live(m) + IF e \in Saying("note", m) THEN 1 ELSE 0
    <3>1. \A U : NumberOf(out, U) \in Nat /\ NumberOf(Append(out, e), U) = NumberOf(out, U) + IF e \in U THEN 1 ELSE 0
      BY <2>2, NumberAppend
    <3>. QED BY <2>2, <3>1 DEF Live
  <2>4. \A m : e \in Saying("note", m) <=> e.what = "note" /\ e.msg = m
    BY <2>2 DEF Saying
  <2>5. \A k \in DOMAIN totals : totals[k].msg \in Messages /\ totals[k].n \in Nat
    <3>1. \A k \in DOMAIN totals : totals[k] \in Totals
      BY <2>2
    <3>. QED BY <3>1 DEF Totals
  <2>6. CASE e.what # "note"
    <3>1. totals' = totals
      BY <1>3, <2>1, <2>6 DEF Write
    <3>2. \A m : Live(m)' = Live(m)
      BY <2>3, <2>4, <2>6
    <3>. QED BY <3>1, <3>2 DEF TotalsInv
  <2>7. CASE e.what = "note"
    <3>1. PICK c : c = totals'
      OBVIOUS
    <3>2. c = Counted(totals, e.msg) /\ e.msg \in Messages
      BY <1>3, <2>1, <2>2, <2>7, <3>1 DEF Write, Pieces
    <3>3. /\ \A k \in DOMAIN totals : /\ k \in DOMAIN c /\ c[k].msg = totals[k].msg
                                      /\ c[k].n = totals[k].n + IF totals[k].msg = e.msg THEN 1 ELSE 0
          /\ \A k \in DOMAIN c : k \notin DOMAIN totals =>
                /\ c[k].msg = e.msg /\ c[k].n = 1 /\ k = Len(totals) + 1
                /\ \A j \in DOMAIN totals : totals[j].msg # e.msg
          /\ \E k \in DOMAIN c : c[k].msg = e.msg
      BY <2>2, <3>2, CountedOnce, SMTT(30)
    <3>4. \A m : Live(m)' = Live(m) + IF m = e.msg THEN 1 ELSE 0
      BY <2>3, <2>4, <2>7
    <3>5. \A j, k \in DOMAIN c : c[j].msg = c[k].msg => j = k
      BY <3>3 DEF TotalsInv
    <3>6. ASSUME NEW k \in DOMAIN c PROVE c[k].n = Live(c[k].msg)'
      <4>1. CASE k \in DOMAIN totals
        BY <2>5, <3>3, <3>4, <4>1 DEF TotalsInv
      <4>2. CASE k \notin DOMAIN totals
        <5>1. Live(e.msg) = 0
          BY <3>2, <3>3, <4>2 DEF TotalsInv
        <5>. QED BY <3>3, <3>4, <4>2, <5>1
      <4>. QED BY <4>1, <4>2
    <3>7. ASSUME NEW m \in Messages, Live(m)' # 0 PROVE \E k \in DOMAIN c : c[k].msg = m
      <4>1. CASE m = e.msg
        BY <3>3, <4>1
      <4>2. CASE m # e.msg
        <5>1. Live(m) # 0
          BY <2>3, <3>4, <3>7, <4>2
        <5>. QED BY <3>3, <5>1 DEF TotalsInv
      <4>. QED BY <4>1, <4>2
    <3>. QED BY <3>1, <3>5, <3>6, <3>7 DEF TotalsInv
  <2>. QED BY <2>6, <2>7
<1>. QED BY <1>2, <1>3

\* A total is written once, for a note that was written more than once, and
\* after the last of them.
SumsInv ==
    /\ main \notin {"totals", "returned", "exited"} => \A k \in DOMAIN Whole : Whole[k].what # "total"
    /\ main = "totals" => \A k \in DOMAIN todo : todo[k].what # "note"
    /\ main = "totals" \/ Complete =>
         /\ \A m \in Messages : NumberOf(Whole, Saying("total", m)) = IF Live(m) > 1 THEN 1 ELSE 0
         /\ \A k \in DOMAIN Whole : Whole[k].what = "total" => Whole[k].n = Live(Whole[k].msg)

LEMMA SumsTotals ==
    ASSUME PiecesOK, TotalsInv, SumsInv, FinishTotals, NEW p, p = todo',
           p = TotalPieces(totals) \o ReportPieces, p \in Seq(Pieces), Whole \in Seq(Pieces),
           Whole' = Whole \o p, out' = out
    PROVE  SumsInv'
<1>1. main = "ending" /\ main' = "totals" /\ \A m : Live(m)' = Live(m)
  BY DEF FinishTotals, Live
<1>2. PICK ts : ts = totals
  OBVIOUS
<1>3. PICK sums : sums = TotalPieces(ts)
  OBVIOUS
<1>4. /\ ts \in Seq(Totals) /\ sums \in Seq(Pieces) /\ p = sums \o ReportPieces
      /\ \A k \in DOMAIN sums : \E j \in DOMAIN ts : ts[j].n > 1 /\ sums[k] = TotalPiece(ts[j])
      /\ \A j, m : /\ j \in DOMAIN ts
                   /\ \A k \in DOMAIN ts : ts[k].msg = m <=> k = j
                   => NumberOf(sums, Saying("total", m)) = IF ts[j].n > 1 THEN 1 ELSE 0
      /\ \A m : (\A k \in DOMAIN ts : ts[k].msg # m) => NumberOf(sums, Saying("total", m)) = 0
  <2>1. ts \in Seq(Totals)
    BY <1>2 DEF PiecesOK
  <2>2. p = sums \o ReportPieces
    BY <1>2, <1>3
  <2>3. /\ sums \in Seq(Pieces)
        /\ \A k \in DOMAIN sums : \E j \in DOMAIN ts : ts[j].n > 1 /\ sums[k] = TotalPiece(ts[j])
    BY <1>3, <2>1, TotalsTyped
  <2>4. \A j, m : /\ j \in DOMAIN ts
                  /\ \A k \in DOMAIN ts : ts[k].msg = m <=> k = j
                  => NumberOf(sums, Saying("total", m)) = IF ts[j].n > 1 THEN 1 ELSE 0
    <3>1. \A j, m : /\ j \in DOMAIN ts
                    /\ \A k \in DOMAIN ts : ts[k].msg = m <=> k = j
                    => NumberOf(TotalPieces(ts), Saying("total", m)) = IF ts[j].n > 1 THEN 1 ELSE 0
      BY <2>1, TotalsTyped, Zenon
    <3>. QED BY <1>3, <3>1
  <2>5. \A m : (\A k \in DOMAIN ts : ts[k].msg # m) => NumberOf(sums, Saying("total", m)) = 0
    BY <1>3, <2>1, TotalsTyped
  <2>. QED BY <2>1, <2>2, <2>3, <2>4, <2>5
<1>5. \A k \in DOMAIN sums : sums[k].what = "total" /\ sums[k].n = Live(sums[k].msg)
  <2>1. ASSUME NEW j \in DOMAIN ts
        PROVE  TotalPiece(ts[j]).what = "total" /\ TotalPiece(ts[j]).n = Live(TotalPiece(ts[j]).msg)
    BY <1>2 DEF TotalPiece, TotalsInv
  <2>. QED BY <1>4, <2>1
<1>6. ASSUME NEW m \in Messages
      PROVE  NumberOf(Whole', Saying("total", m)) = IF Live(m) > 1 THEN 1 ELSE 0
  <2>. DEFINE U == Saying("total", m)
  <2>1. NumberOf(Whole, U) = 0
    <3>1. \A k \in DOMAIN Whole : Whole[k] \notin U
      BY <1>1 DEF SumsInv, Saying
    <3>. HIDE DEF U
    <3>. QED BY <3>1, NumberSmall
  <2>2. NumberOf(ReportPieces, U) = 0
    BY ReportPiece, QuietCount
  <2>3. NumberOf(sums, U) = IF Live(m) > 1 THEN 1 ELSE 0
    <3>1. CASE \E j \in DOMAIN ts : ts[j].msg = m
      <4>1. PICK j \in DOMAIN ts : ts[j].msg = m
        BY <3>1
      <4>2. \A k \in DOMAIN ts : ts[k].msg = m <=> k = j
        BY <1>2, <4>1 DEF TotalsInv
      <4>3. ts[j].n = Live(m)
        BY <1>2, <4>1 DEF TotalsInv
      <4>. QED BY <1>4, <4>2, <4>3
    <3>2. CASE ~ \E j \in DOMAIN ts : ts[j].msg = m
      <4>1. Live(m) = 0
        BY <1>2, <3>2 DEF TotalsInv
      <4>2. NumberOf(sums, U) = 0
        BY <1>4, <3>2
      <4>. QED BY <4>1, <4>2
    <3>. QED BY <3>1, <3>2
  <2>4. ReportPieces \in Seq(Pieces)
    BY ReportPiece
  <2>. HIDE DEF U
  <2>5. NumberOf(p, U) = NumberOf(sums, U) + NumberOf(ReportPieces, U)
    BY <1>4, <2>4, Counts
  <2>6. NumberOf(Whole', U) = NumberOf(Whole, U) + NumberOf(p, U)
    BY Counts
  <2>7. NumberOf(Whole', U) = IF Live(m) > 1 THEN 1 ELSE 0
    BY <2>1, <2>2, <2>3, <2>5, <2>6
  <2>. QED BY <2>7 DEF U
<1>7. \A k \in DOMAIN Whole' : Whole'[k].what = "total" => Whole'[k].n = Live(Whole'[k].msg)
  <2>1. PICK G : G = {q \in Pieces : q.what = "total" => q.n = Live(q.msg)}
    OBVIOUS
  <2>2. \A k \in DOMAIN Whole : Whole[k] \in G
    <3>1. \A k \in DOMAIN Whole : Whole[k] \in Pieces /\ Whole[k].what # "total"
      BY <1>1 DEF SumsInv
    <3>. QED BY <2>1, <3>1
  <2>3. \A k \in DOMAIN p : p[k] \in G
    <3>1. \A k \in DOMAIN sums : sums[k] \in G
      <4>1. \A k \in DOMAIN sums : sums[k] \in Pieces
        BY <1>4
      <4>. QED BY <1>5, <2>1, <4>1
    <3>2. ReportPieces \in Seq(Pieces) /\ \A k \in DOMAIN ReportPieces : ReportPieces[k].what # "total"
      BY ReportPiece DEF Quiet, OtherKinds
    <3>3. \A k \in DOMAIN ReportPieces : ReportPieces[k] \in Pieces
      BY <3>2
    <3>4. \A k \in DOMAIN ReportPieces : ReportPieces[k] \in G
      BY <2>1, <3>2, <3>3
    <3>. QED BY <1>4, <3>1, <3>2, <3>4, ConcatAll
  <2>4. \A k \in DOMAIN (Whole \o p) : (Whole \o p)[k] \in G
    BY <2>2, <2>3, ConcatAll
  <2>. QED BY <2>1, <2>4
<1>8. \A k \in DOMAIN p : p[k].what # "note"
  <2>1. PICK G : G = {q \in Pieces : q.what # "note"}
    OBVIOUS
  <2>2. \A k \in DOMAIN sums : sums[k] \in G
    <3>1. \A k \in DOMAIN sums : sums[k] \in Pieces
      BY <1>4
    <3>. QED BY <1>5, <2>1, <3>1
  <2>3. ReportPieces \in Seq(Pieces) /\ \A k \in DOMAIN ReportPieces : ReportPieces[k] \in G
    <3>1. ReportPieces \in Seq(Pieces) /\ \A k \in DOMAIN ReportPieces : ReportPieces[k].what # "note"
      BY ReportPiece DEF Quiet, OtherKinds
    <3>2. \A k \in DOMAIN ReportPieces : ReportPieces[k] \in Pieces
      BY <3>1
    <3>. QED BY <2>1, <3>1, <3>2
  <2>4. \A k \in DOMAIN p : p[k] \in G
    BY <1>4, <2>2, <2>3, ConcatAll
  <2>. QED BY <2>1, <2>4
<1>. QED BY <1>1, <1>6, <1>7, <1>8 DEF SumsInv

LEMMA SumsStep ==
    ASSUME IInv, PiecesOK, TotalsInv, SumsInv, [Next]_vars
    PROVE  SumsInv'
<1>1. CASE Idle
  <2>1. Whole' = Whole /\ todo' = todo /\ \A m : Live(m)' = Live(m)
    BY <1>1 DEF Idle, Whole, Live
  <2>. QED BY <1>1, <2>1 DEF Idle, SumsInv
<1>2. CASE Register \/ RecvLine \/ Finish
  <2>1. main \in {"register", "recv", "check"} /\ main' \in {"notes", "write", "ending"} /\ ~Complete'
    BY <1>2 DEF Register, RecvLine, Finish, Complete, Over
  <2>2. todo' \in Seq(Pieces) /\ Whole \in Seq(Pieces) /\ Whole' = Whole \o todo'
    BY <1>2, Added DEF PiecesOK
  <2>3. \A k \in DOMAIN todo' : todo'[k].what # "total"
    <3>1. CASE Register
      BY <3>1, Added DEF PiecesOK, Quiet, OtherKinds
    <3>2. CASE RecvLine
      BY <3>2, Added, StepRest DEF PiecesOK, OtherKinds
    <3>3. CASE Finish
      BY <3>3, Added, EndCount DEF PiecesOK, OtherKinds
    <3>. QED BY <1>2, <3>1, <3>2, <3>3
  <2>4. PICK G : G = {p \in Pieces : p.what # "total"}
    OBVIOUS
  <2>5. \A k \in DOMAIN Whole : Whole[k] \in G
    <3>1. \A k \in DOMAIN Whole : Whole[k] \in Pieces
      BY <2>2
    <3>. QED BY <2>1, <2>4, <3>1 DEF SumsInv
  <2>6. \A k \in DOMAIN todo' : todo'[k] \in G
    <3>1. \A k \in DOMAIN todo' : todo'[k] \in Pieces
      BY <2>2
    <3>. QED BY <2>3, <2>4, <3>1
  <2>7. \A k \in DOMAIN (Whole \o todo') : (Whole \o todo')[k] \in G
    BY <2>2, <2>5, <2>6, ConcatAll
  <2>. QED BY <2>1, <2>2, <2>4, <2>7 DEF SumsInv
<1>3. CASE FinishTotals
  BY <1>3, Added, SumsTotals DEF PiecesOK
<1>4. CASE Write
  <2>1. main' = main /\ main \in {"notes", "write", "ending", "totals"} /\ ~Complete' /\ todo # << >>
    BY <1>4 DEF Write, Complete, Over
  <2>2. /\ Whole' = Whole /\ out' = Append(out, Head(todo)) /\ todo' = Tail(todo)
        /\ Head(todo) \in Pieces /\ out \in Seq(Pieces) /\ todo \in Seq(Pieces)
    BY <1>4, Added DEF PiecesOK
  <2>3. CASE main # "totals"
    BY <2>1, <2>2, <2>3 DEF SumsInv
  <2>4. CASE main = "totals"
    <3>1. \A k \in DOMAIN todo : todo[k].what # "note"
      BY <2>4 DEF SumsInv
    <3>2. Head(todo).what # "note" /\ \A k \in DOMAIN Tail(todo) : Tail(todo)[k].what # "note"
      <4>1. /\ 1 \in DOMAIN todo /\ Head(todo) = todo[1]
            /\ \A k \in DOMAIN Tail(todo) : k + 1 \in DOMAIN todo /\ Tail(todo)[k] = todo[k + 1]
        BY <2>1, <2>2
      <4>. QED BY <3>1, <4>1
    <3>3. \A m : Live(m)' = Live(m)
      <4>1. PICK e : e = Head(todo)
        OBVIOUS
      <4>2. \A U : NumberOf(out, U) \in Nat /\ NumberOf(Append(out, e), U) = NumberOf(out, U) + IF e \in U THEN 1 ELSE 0
        <5>1. out \in Seq(Pieces) /\ e \in Pieces
          BY <2>2, <4>1
        <5>. QED BY <5>1, NumberAppend
      <4>3. \A m : e \notin Saying("note", m)
        BY <3>2, <4>1 DEF Saying
      <4>. QED BY <2>2, <4>1, <4>2, <4>3 DEF Live
    <3>. QED BY <2>1, <2>2, <2>4, <3>2, <3>3 DEF SumsInv
  <2>. QED BY <2>3, <2>4
<1>. QED BY <1>1, <1>2, <1>3, <1>4, Moves

--------------------------------------------------------------------------------
(* The properties                                                          *)

ReportInv == PiecesOK /\ OwesInv /\ CorruptInv /\ TotalsInv /\ SumsInv

LEMMA ReportInit == Init => ReportInv
<1>. SUFFICES ASSUME Init PROVE ReportInv
  OBVIOUS
<1>1. SumsInv
  <2>1. Whole = << >> /\ main = "register"
    BY DEF Init, Whole
  <2>. QED BY <2>1 DEF SumsInv, Complete, Over
<1>. QED BY <1>1, PiecesInit, TotalsInit DEF ReportInv

LEMMA ReportStep == IInv /\ ReportInv /\ [Next]_vars => ReportInv'
BY PiecesStep, OwesStep, CorruptStep, TotalsStep, SumsStep DEF ReportInv

LEMMA Reporting == Spec => [](IInv /\ ReportInv)
<1>1. IInv /\ ReportInv /\ [Next]_vars => ReportInv'
  BY ReportStep
<1>. QED BY <1>1, ReportInit, Invariant, PTL DEF Spec

\* LEMMA: the counts the properties speak of.
LEMMA WrittenCount ==
    ASSUME PiecesOK
    PROVE  /\ \A what, i : Written(what, i) = NumberOf(out, At(what, i))
           /\ \A what, m : {k \in DOMAIN out : out[k].what = what /\ out[k].msg = m}
                              = Positions(out, Saying(what, m))
           /\ \A U : /\ NumberOf(Whole, U) = NumberOf(out, U) + NumberOf(todo, U)
                     /\ NumberOf(out, U) \in Nat /\ NumberOf(todo, U) \in Nat
           /\ todo = << >> => Whole = out
<1>1. out \in Seq(Pieces) /\ todo \in Seq(Pieces) /\ \A k \in DOMAIN out : out[k] \in Pieces
  <2>1. out \in Seq(Pieces) /\ todo \in Seq(Pieces)
    BY DEF PiecesOK
  <2>. QED BY <2>1
<1>2. ASSUME NEW what, NEW i PROVE Written(what, i) = NumberOf(out, At(what, i))
  <2>1. {k \in DOMAIN out : out[k].what = what /\ out[k].line = i} = {k \in DOMAIN out : out[k] \in At(what, i)}
    BY <1>1 DEF At
  <2>. QED BY <2>1 DEF Written, NumberOf, Positions
<1>3. ASSUME NEW what, NEW m
      PROVE  {k \in DOMAIN out : out[k].what = what /\ out[k].msg = m} = Positions(out, Saying(what, m))
  BY <1>1 DEF Positions, Saying
<1>4. \A U : /\ NumberOf(Whole, U) = NumberOf(out, U) + NumberOf(todo, U)
             /\ NumberOf(out, U) \in Nat /\ NumberOf(todo, U) \in Nat
  BY <1>1, Counts DEF Whole
<1>5. todo = << >> => Whole = out
  <2>1. out \o << >> = out
    BY <1>1, ConcatEmptySeq
  <2>. QED BY <2>1, Zenon DEF Whole
<1>. QED BY <1>2, <1>3, <1>4, <1>5

LEMMA OwedSame == \A i : Owes(i) = [note |-> OwedNotes(fed[i]), text |-> OwedText(fed[i])]
BY DEF Owes, OwedNotes, OwedText

\* THEOREM: what is due to a line is written before the loop looks for another
\* one, and never more than that, at any moment of any run.
THEOREM AnsweredPromptly == Spec => []Prompt
<1>1. IInv /\ ReportInv => Prompt
  <2>. SUFFICES ASSUME IInv, ReportInv PROVE Prompt
    OBVIOUS
  <2>. USE DEF ReportInv
  <2>1. ASSUME main \in {"check", "recv"}, NEW i \in DOMAIN fed, ~StillOpen(fed[i], i, Len(fed))
        PROVE  Has(i) = Owes(i)
    <3>1. Whole = out
      BY <2>1, WrittenCount DEF PiecesOK
    <3>2. Due(i)
      BY <2>1 DEF OwesInv
    <3>. QED BY <3>1, <3>2, WrittenCount, OwedSame DEF Has, Due
  <2>2. ASSUME NEW i \in DOMAIN fed
        PROVE  Has(i).note <= Owes(i).note /\ Has(i).text <= Owes(i).text
    <3>1. Due(i) \/ Nothing(i)
      BY DEF OwesInv
    <3>2. \A U : /\ NumberOf(Whole, U) = NumberOf(out, U) + NumberOf(todo, U)
                 /\ NumberOf(out, U) \in Nat /\ NumberOf(todo, U) \in Nat
      BY WrittenCount
    <3>3. OwedNotes(fed[i]) \in Nat /\ OwedText(fed[i]) \in Nat
      <4>1. fed[i] \in Lines
        BY DEF IInv, TypeOK
      <4>2. KeptNotes(fed[i]) = NumberOf(fed[i].notes, Kept) /\ fed[i].notes \in Seq(Messages)
        BY <4>1, NotesTyped DEF KeptNotes, NumberOf, Positions
      <4>3. KeptNotes(fed[i]) \in Nat
        BY <4>2, NumberSmall
      <4>. QED BY <4>3 DEF OwedNotes, OwedText
    <3>4. NumberOf(out, At("note", i)) <= OwedNotes(fed[i]) /\ NumberOf(out, At("text", i)) <= OwedText(fed[i])
      BY <3>1, <3>2, <3>3 DEF Due, Nothing
    <3>5. Has(i).note = NumberOf(out, At("note", i)) /\ Has(i).text = NumberOf(out, At("text", i))
      BY WrittenCount DEF Has
    <3>6. Owes(i).note = OwedNotes(fed[i]) /\ Owes(i).text = OwedText(fed[i])
      BY OwedSame
    <3>. QED BY <3>4, <3>5, <3>6
  <2>. QED BY <2>1, <2>2 DEF Prompt
<1>. QED BY <1>1, Reporting, PTL

\* THEOREM: a run that reaches its end has answered every line it fed, an open
\* event's included, has warned once if any record was corrupt, and has given
\* every repeated note one total, the number of times it was written.
THEOREM AllAnswered == Spec => []Answered
<1>1. IInv /\ ReportInv => Answered
  <2>. SUFFICES ASSUME IInv, ReportInv, Complete PROVE Answered
    BY DEF Answered
  <2>. USE DEF ReportInv
  <2>1. Whole = out
    BY WrittenCount DEF Complete
  <2>2. \A i \in DOMAIN fed : Has(i) = Owes(i)
    <3>1. \A i \in DOMAIN fed : Due(i)
      BY DEF OwesInv, Ended
    <3>. QED BY <2>1, <3>1, WrittenCount, OwedSame DEF Has, Due
  <2>3. Written("corrupt", 0) = IF \E i \in DOMAIN fed : fed[i].corrupt THEN 1 ELSE 0
    BY <2>1, WrittenCount DEF CorruptInv
  <2>4. ASSUME NEW m
        PROVE  LET live == Cardinality({k \in DOMAIN out : out[k].what = "note" /\ out[k].msg = m})
                   sums == {k \in DOMAIN out : out[k].what = "total" /\ out[k].msg = m}
               IN  IF live > 1 THEN Cardinality(sums) = 1 /\ \A k \in sums : out[k].n = live
                   ELSE sums = {}
    <3>1. PICK sums : sums = {k \in DOMAIN out : out[k].what = "total" /\ out[k].msg = m}
      OBVIOUS
    <3>2. /\ Cardinality({k \in DOMAIN out : out[k].what = "note" /\ out[k].msg = m}) = Live(m)
          /\ sums = Positions(out, Saying("total", m)) /\ Cardinality(sums) = NumberOf(out, Saying("total", m))
      BY <3>1, WrittenCount DEF Live, NumberOf
    <3>3. \A k \in sums : out[k].n = Live(m)
      BY <2>1, <3>1 DEF SumsInv
    <3>4. out \in Seq(Pieces) /\ \A k \in DOMAIN out : out[k] \in Pieces
      <4>1. out \in Seq(Pieces)
        BY DEF PiecesOK
      <4>. QED BY <4>1
    <3>5. Live(m) \in Nat /\ NumberOf(out, Saying("total", m)) \in Nat
      BY WrittenCount DEF Live
    <3>6. NumberOf(out, Saying("total", m)) = IF Live(m) > 1 THEN 1 ELSE 0
      <4>1. CASE m \in Messages
        BY <2>1, <4>1 DEF SumsInv
      <4>2. CASE m \notin Messages
        <5>1. \A k \in DOMAIN out : out[k] \notin Saying("total", m) /\ out[k] \notin Saying("note", m)
          BY <3>4, <4>2 DEF Saying, Pieces
        <5>2. NumberOf(out, Saying("total", m)) = 0 /\ NumberOf(out, Saying("note", m)) = 0
          BY <3>4, <5>1, NumberSmall
        <5>. QED BY <5>2 DEF Live
      <4>. QED BY <4>1, <4>2
    <3>7. Live(m) > 1 \/ sums = {}
      <4>1. NumberOf(out, Saying("total", m)) = 0 => \A k \in DOMAIN out : out[k] \notin Saying("total", m)
        BY <3>4, NumberSmall
      <4>. QED BY <3>2, <3>6, <4>1 DEF Positions
    <3>. QED BY <3>1, <3>2, <3>3, <3>6, <3>7
  <2>. QED BY <2>2, <2>3, <2>4 DEF Answered
<1>. QED BY <1>1, Reporting, PTL
================================================================================
