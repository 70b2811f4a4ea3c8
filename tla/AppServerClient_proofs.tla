------------------------ MODULE AppServerClient_proofs ------------------------
(***************************************************************************)
(* Proofs about AppServerClient, for any calls and IDs, any capacities and *)
(* any use of the client.                                                  *)
(*                                                                         *)
(* That evidence is proven rests on where the command of a call is: in the *)
(* queue, in the pump's hands, written and pending, or gone.  PlaceInv     *)
(* says that it is in one of these places and that the client's ID sets    *)
(* know which; ProofInv says what the three channels through which a call  *)
(* may learn its evidence allow for each place.                            *)
(***************************************************************************)
EXTENDS AppServerClient, FiniteSetTheorems, SequenceTheorems, TLAPS

Ordinary == Call \ Notification
Command == [kind : {"request", "notify", "cancel"}, call : Call]
Frames == [kind : {"response"}, call : Call] \cup [kind : {"notice"}, n : Nat] \cup [kind : {"error"}]
Events == [kind : {"notice", "gap", "disconnected", "eof"}, n : Nat]

-----------------------------------------------------------------------------
(* Evidence, commands and queues. *)

LEMMA EvidenceFacts ==
    /\ NotWritten # MayBe /\ NotWritten # Sent /\ NotWritten # Failed
    /\ MayBe # Sent /\ MayBe # Failed /\ Sent # Failed
    /\ {NotWritten, MayBe, Sent, Failed} \subseteq Evidence
    /\ None \notin {NotWritten, MayBe, Sent, Failed}
    /\ \A e \in {NotWritten, MayBe, Sent, Failed} : e.evidence # "complete"
    /\ \A c \in Call : /\ Response(c) \notin {None, NotWritten, MayBe, Sent, Failed}
                       /\ Response(c) \in Evidence /\ Response(c).answers = c
  <1>1. /\ NotWritten.evidence = "proven_before_write" /\ MayBe.evidence = "may_have_written"
        /\ Sent.evidence = "sent" /\ Failed.evidence = "failed"
    BY DEF NotWritten, MayBe, Sent, Failed
  <1>2. \A c \in Call : Response(c).evidence = "complete" /\ Response(c).answers = c
    BY DEF Response
  <1>3. /\ {NotWritten, MayBe, Sent, Failed} \subseteq Evidence
        /\ \A c \in Call : Response(c) \in Evidence
    BY DEF Evidence
  <1> QED
    BY <1>1, <1>2, <1>3, NoneAssumption

LEMMA CommandFacts ==
    /\ \A c \in Call : Request(c) \in Command /\ Cancel(c) \in Command
    /\ \A c \in Call : Request(c).call = c /\ Cancel(c).call = c /\ Cancel(c).kind = "cancel"
    /\ \A c \in Call : Request(c).kind = (IF c \in Notification THEN "notify" ELSE "request")
    /\ \A c, d \in Call : Request(c) # Cancel(d)
    /\ \A c, d \in Call : (Request(c) = Request(d) => c = d) /\ (Cancel(c) = Cancel(d) => c = d)
    /\ \A x \in Command : x.call \in Call /\ x.kind \in {"request", "notify", "cancel"}
    /\ \A x \in Command : x.kind = "cancel" => x = Cancel(x.call)
    /\ \A x \in Command : x.kind = "request" /\ x.call \notin Notification => x = Request(x.call)
    /\ \A x \in Command : x.kind = "notify" /\ x.call \in Notification => x = Request(x.call)
  BY DEF Command, Request, Cancel

\* What stands in a queue, and at most once.
In(x, s)   == \E n \in DOMAIN s : s[n] = x
Once(x, s) == \A m, n \in DOMAIN s : s[m] = x /\ s[n] = x => m = n

LEMMA TailFacts ==
    ASSUME NEW S, NEW s \in Seq(S), s # <<>>
    PROVE  /\ Head(s) \in S /\ Tail(s) \in Seq(S) /\ Head(s) = s[1] /\ 1 \in DOMAIN s
           /\ Len(s) \in Nat /\ Len(Tail(s)) = Len(s) - 1 /\ Len(s) > 0
           /\ DOMAIN s = 1..Len(s) /\ DOMAIN Tail(s) = 1..(Len(s) - 1)
           /\ \A n \in DOMAIN Tail(s) : n + 1 \in DOMAIN s /\ Tail(s)[n] = s[n + 1] /\ s[n + 1] \in S
  OBVIOUS

LEMMA AppendFacts ==
    ASSUME NEW S, NEW s \in Seq(S), NEW x \in S
    PROVE  /\ Append(s, x) \in Seq(S) /\ Len(s) \in Nat /\ Len(Append(s, x)) = Len(s) + 1
           /\ DOMAIN s = 1..Len(s) /\ DOMAIN Append(s, x) = 1..(Len(s) + 1)
           /\ \A n \in DOMAIN s : Append(s, x)[n] = s[n] /\ s[n] \in S
           /\ Append(s, x)[Len(s) + 1] = x
  OBVIOUS

LEMMA QueueTail ==
    ASSUME NEW S, NEW s \in Seq(S), s # <<>>, NEW x
    PROVE  /\ In(Head(s), s)
           /\ In(x, Tail(s)) => In(x, s)
           /\ x # Head(s) => (In(x, Tail(s)) <=> In(x, s))
           /\ Once(x, s) => Once(x, Tail(s)) /\ (x = Head(s) => ~In(x, Tail(s)))
  <1>1. In(Head(s), s)
    BY TailFacts DEF In
  <1>2. In(x, Tail(s)) => In(x, s)
    BY TailFacts DEF In
  <1>3. ASSUME x # Head(s), In(x, s) PROVE In(x, Tail(s))
    <2>1. PICK n \in DOMAIN s : s[n] = x
      BY <1>3 DEF In
    <2>2. n \in 1..Len(s) /\ n # 1
      BY <1>3, <2>1, TailFacts
    <2>3. n - 1 \in DOMAIN Tail(s) /\ Tail(s)[n - 1] = x
      BY <2>1, <2>2, TailFacts
    <2> QED
      BY <2>3 DEF In
  <1>4. ASSUME Once(x, s) PROVE Once(x, Tail(s))
    <2> SUFFICES ASSUME NEW m \in DOMAIN Tail(s), NEW n \in DOMAIN Tail(s), Tail(s)[m] = x, Tail(s)[n] = x
                 PROVE  m = n
      BY DEF Once
    <2>1. m + 1 = n + 1
      BY <1>4, TailFacts DEF Once
    <2> QED
      BY <2>1, TailFacts
  <1>5. ASSUME Once(x, s), x = Head(s), In(x, Tail(s)) PROVE FALSE
    <2>1. PICK n \in DOMAIN Tail(s) : Tail(s)[n] = x
      BY <1>5 DEF In
    <2>2. n + 1 \in DOMAIN s /\ s[n + 1] = x /\ s[1] = x /\ 1 \in DOMAIN s /\ n \in Nat \ {0}
      BY <1>5, <2>1, TailFacts
    <2>3. n + 1 = 1
      BY <1>5, <2>2 DEF Once
    <2> QED
      BY <2>2, <2>3
  <1> QED
    BY <1>1, <1>2, <1>3, <1>4, <1>5

LEMMA QueueAppend ==
    ASSUME NEW S, NEW s \in Seq(S), NEW y \in S, NEW x
    PROVE  /\ In(x, Append(s, y)) <=> In(x, s) \/ x = y
           /\ Once(x, s) /\ (x = y => ~In(x, s)) => Once(x, Append(s, y))
  <1>1. In(x, Append(s, y)) => In(x, s) \/ x = y
    BY AppendFacts DEF In
  <1>2. In(x, s) => In(x, Append(s, y))
    BY AppendFacts DEF In
  <1>3. x = y => In(x, Append(s, y))
    <2>1. Len(s) + 1 \in DOMAIN Append(s, y)
      BY AppendFacts
    <2> QED
      BY <2>1, AppendFacts DEF In
  <1>4. ASSUME Once(x, s), x = y => ~In(x, s) PROVE Once(x, Append(s, y))
    <2> SUFFICES ASSUME NEW m \in DOMAIN Append(s, y), NEW n \in DOMAIN Append(s, y),
                        Append(s, y)[m] = x, Append(s, y)[n] = x
                 PROVE  m = n
      BY DEF Once
    <2>1. (m \in DOMAIN s \/ m = Len(s) + 1) /\ (n \in DOMAIN s \/ n = Len(s) + 1)
      BY AppendFacts
    <2>2. (m \in DOMAIN s => s[m] = x) /\ (n \in DOMAIN s => s[n] = x)
      BY AppendFacts
    <2>3. (m = Len(s) + 1 \/ n = Len(s) + 1) => x = y
      BY AppendFacts
    <2> QED
      BY <1>4, <2>1, <2>2, <2>3 DEF In, Once
  <1> QED
    BY <1>1, <1>2, <1>3, <1>4

-----------------------------------------------------------------------------
(* The invariant. *)

\* The pump is not in finish yet.
Loop == {"select", "popped", "writing"}

QueueOK ==
    /\ use \in Use
    /\ commands \in Seq(Command) /\ reads \in Seq(Frames)
    /\ events \in Seq(Events) /\ seen \in Seq(Events)
    /\ taken \in Nat /\ lost \in Nat /\ notices \in Nat
    /\ \A n \in DOMAIN commands : commands[n].kind = "notify" <=> commands[n].call \in Notification
    /\ pump \in {"popped", "writing"} => current \in Call
    /\ pump = "popped" => current \in Ordinary
    /\ pending \subseteq Ordinary
    /\ pump = "publish" => events = <<>>

\* A notification is told other evidence than a request, and withdraws nothing.
NotifyInv ==
    \A c \in Notification :
        /\ resultCh[c] # NotWritten /\ outcome[c] # NotWritten
        /\ pc[c] \notin {"withdraw", "cancelWrite", "sendCancel", "awaitAck", "withdrawn"}

UseParts == /\ WriterCapacity \in Nat \ {0} /\ EventCapacity \in Nat /\ ReadCapacity \in Nat \ {0}
            /\ MaxNotices \in Nat /\ Consuming \in BOOLEAN
            /\ idOf \in [Call -> Id] /\ Notification \subseteq Call
LEMMA UseFacts == QueueOK => UseParts
  BY DEF QueueOK, Use, UseParts, WriterCapacity, EventCapacity, ReadCapacity, MaxNotices, Consuming, idOf,
     Notification

LEMMA HeadOfCommands ==
    ASSUME QueueOK, commands # <<>>
    PROVE  /\ Head(commands) \in Command /\ Tail(commands) \in Seq(Command)
           /\ Head(commands).call \in Call
           /\ Head(commands).kind = "notify" => /\ Head(commands).call \in Notification
                                                /\ Head(commands) = Request(Head(commands).call)
           /\ Head(commands).kind \in {"request", "cancel"} => Head(commands).call \in Ordinary
           /\ Head(commands).kind = "request" => Head(commands) = Request(Head(commands).call)
           /\ Head(commands).kind = "cancel" => Head(commands) = Cancel(Head(commands).call)
           /\ \A n \in DOMAIN Tail(commands) :
                 Tail(commands)[n].kind = "notify" <=> Tail(commands)[n].call \in Notification
  <1>1. commands \in Seq(Command)
    BY DEF QueueOK
  <1>2. /\ Head(commands) \in Command /\ Tail(commands) \in Seq(Command)
        /\ Head(commands).kind = "notify" <=> Head(commands).call \in Notification
        /\ \A n \in DOMAIN Tail(commands) :
              Tail(commands)[n].kind = "notify" <=> Tail(commands)[n].call \in Notification
    BY <1>1, TailFacts DEF QueueOK
  <1> QED
    BY <1>2, CommandFacts DEF Ordinary

LEMMA AppendedCommand ==
    ASSUME QueueOK, NEW x \in Command, x.kind = "notify" <=> x.call \in Notification
    PROVE  /\ Append(commands, x) \in Seq(Command)
           /\ \A n \in DOMAIN Append(commands, x) :
                 Append(commands, x)[n].kind = "notify" <=> Append(commands, x)[n].call \in Notification
  <1>1. commands \in Seq(Command)
    BY DEF QueueOK
  <1>2. \A n \in DOMAIN Append(commands, x) : n \in DOMAIN commands \/ n = Len(commands) + 1
    BY <1>1, AppendFacts
  <1> QED
    BY <1>1, <1>2, AppendFacts DEF QueueOK

LEMMA FrameFacts ==
    /\ \A c \in Call : [kind |-> "response", call |-> c] \in Frames
    /\ \A n \in Nat : [kind |-> "notice", n |-> n] \in Frames
    /\ [kind |-> "error"] \in Frames
    /\ \A f \in Frames : /\ f.kind \in {"response", "notice", "error"}
                         /\ f.kind = "response" => f.call \in Call
                         /\ f.kind = "notice" => f.n \in Nat
  BY DEF Frames

LEMMA EventFacts ==
    /\ \A n \in Nat : \A k \in {"notice", "gap", "disconnected", "eof"} : [kind |-> k, n |-> n] \in Events
    /\ \A e \in Events : e.n \in Nat
  BY DEF Events

LEMMA StreamQueues ==
    /\ \A q \in Seq(Events) : /\ \A e \in Events : Append(q, e) \in Seq(Events)
                              /\ q # <<>> => Head(q) \in Events /\ Tail(q) \in Seq(Events)
    /\ \A q \in Seq(Frames) : /\ \A f \in Frames : Append(q, f) \in Seq(Frames)
                              /\ q # <<>> => Head(q) \in Frames /\ Tail(q) \in Seq(Frames)
    /\ <<>> \in Seq(Frames)
  OBVIOUS

\* What the pump takes from the read queue.
LEMMA HeadOfReads ==
    ASSUME QueueOK, reads # <<>>
    PROVE  /\ Head(reads) \in Frames /\ Tail(reads) \in Seq(Frames)
           /\ Head(reads).kind = "response" => Head(reads).call \in Call
           /\ Head(reads).kind = "notice" =>
                 Head(reads).n \in Nat /\ [kind |-> "notice", n |-> Head(reads).n] \in Events
  <1>1. Head(reads) \in Frames /\ Tail(reads) \in Seq(Frames)
    BY StreamQueues DEF QueueOK
  <1> QED
    BY <1>1, FrameFacts, EventFacts

LEMMA QueueStep ==
    ASSUME QueueOK, NotifyInv, TypeOK, Next
    PROVE  QueueOK'
  <1>0. QueueOK
    OBVIOUS
  <1>1. ASSUME NEW c \in Call, Enqueue(c) PROVE QueueOK'
    <2>1. /\ Request(c) \in Command
          /\ Request(c).kind = "notify" <=> Request(c).call \in Notification
      BY CommandFacts
    <2>2. commands' = Append(commands, Request(c)) \/ commands' = commands
      BY <1>1 DEF Enqueue
    <2>3. UNCHANGED <<use, pump, current, pending, reads, notices, taken, events, lost, seen>>
      BY <1>1 DEF Enqueue, peer, stream
    <2> QED
      BY <1>0, <2>1, <2>2, <2>3, AppendedCommand DEF QueueOK, Notification, Ordinary
  <1>2. ASSUME NEW c \in Call, SendCancel(c) PROVE QueueOK'
    <2>1. commands' = Append(commands, Cancel(c)) \/ commands' = commands
      BY <1>2 DEF SendCancel
    <2>2. UNCHANGED <<use, pump, current, pending, reads, notices, taken, events, lost, seen>>
      BY <1>2 DEF SendCancel, peer, stream
    <2>3. Cancel(c) \in Command /\ Cancel(c).kind = "cancel" /\ Cancel(c).call = c
      BY CommandFacts
    <2>4. c \notin Notification
      BY <1>2 DEF SendCancel, NotifyInv
    <2> QED
      BY <1>0, <2>1, <2>2, <2>3, <2>4, AppendedCommand DEF QueueOK, Notification, Ordinary
  <1>3. ASSUME NEW c \in Call, \/ Start(c) \/ EndContext(c) \/ Await(c) \/ Withdraw(c) \/ CancelWrite(c)
                               \/ AwaitAck(c) \/ Withdrawn(c) \/ AwaitNotify(c) \/ CutAny(c)
        PROVE  UNCHANGED <<use, commands, pump, current, pending, reads, notices, taken, events, lost, seen>>
    BY <1>3 DEF Start, EndContext, Await, Withdraw, CancelWrite, AwaitAck, Withdrawn, AwaitNotify, CutAny,
       peer, stream
  <1>4. CASE PumpRequest \/ PumpNotify \/ PumpCancel \/ DrainCommand
    <2>1. /\ commands # <<>> /\ commands' = Tail(commands)
          /\ UNCHANGED <<use, reads, notices, taken, events, lost, seen>>
      BY <1>4 DEF PumpRequest, PumpNotify, PumpCancel, DrainCommand, peer, stream
    <2>2. /\ pump' \in {"popped", "writing"} => current' \in Call
          /\ pump' = "popped" => current' \in Ordinary
          /\ pump' # "publish" /\ pending' \subseteq pending
      BY <1>0, <1>4, <2>1, HeadOfCommands DEF PumpRequest, PumpNotify, PumpCancel, DrainCommand
    <2> QED
      BY <1>0, <2>1, <2>2, HeadOfCommands DEF QueueOK, Notification, Ordinary
  <1>5. CASE BeginWrite \/ Written \/ WriteFailed
    <2>1. /\ UNCHANGED <<use, commands, reads, notices, taken, events, lost, seen, current>>
          /\ pump' # "publish" /\ pump' # "popped" /\ (pump' = "writing" => pump = "popped")
          /\ pending' \subseteq pending \cup ({current} \ Notification) /\ current \in Call
      BY <1>0, <1>5 DEF BeginWrite, Written, WriteFailed, peer, stream, QueueOK
    <2> QED
      BY <1>0, <2>1 DEF QueueOK, Notification, Ordinary
  <1>6. CASE PumpResponse \/ PumpNotice \/ PumpEnds \/ DrainReads
    <2>1. reads' \in Seq(Frames)
      <3>1. reads \in Seq(Frames) /\ (reads # <<>> => Tail(reads) \in Seq(Frames))
        BY HeadOfReads DEF QueueOK
      <3>2. reads' = reads \/ reads' = <<>> \/ (reads # <<>> /\ reads' = Tail(reads))
        BY <1>6 DEF PumpResponse, PumpNotice, PumpEnds, DrainReads
      <3> QED
        <4>2. <<>> \in Seq(Frames)
          OBVIOUS
        <4> QED
          BY <3>1, <3>2, <4>2
    <2>2. UNCHANGED <<use, commands, notices, seen, current>>
      BY <1>6 DEF PumpResponse, PumpNotice, PumpEnds, DrainReads, peer, stream
    <2>3. pump' \notin {"popped", "writing", "publish"} /\ pending' \subseteq pending
      BY <1>6 DEF PumpResponse, PumpNotice, PumpEnds, DrainReads
    <2>4. events' \in Seq(Events) /\ taken' \in Nat /\ lost' \in Nat
      <3>1. CASE PumpNotice
        <4>0. events \in Seq(Events) /\ taken \in Nat /\ lost \in Nat /\ reads \in Seq(Frames)
          BY <1>0 DEF QueueOK
        <4>2. [kind |-> "notice", n |-> Head(reads).n] \in Events
          BY <3>1, HeadOfReads DEF PumpNotice
        <4>3. events' = events \/ events' = Append(events, [kind |-> "notice", n |-> Head(reads).n])
          BY <3>1 DEF PumpNotice
        <4>4. taken' = taken + 1 /\ (lost' = lost \/ lost' = lost + 1)
          BY <3>1 DEF PumpNotice
        <4>5. Append(events, [kind |-> "notice", n |-> Head(reads).n]) \in Seq(Events)
          BY <4>0, <4>2, AppendFacts
        <4> QED
          <5>1. events' \in Seq(Events)
            BY <4>0, <4>3, <4>5
          <5>2. taken' \in Nat /\ lost' \in Nat
            BY <4>0, <4>4
          <5> QED
            BY <5>1, <5>2
      <3>2. CASE ~PumpNotice
        <4>1. UNCHANGED <<taken, events, lost>>
          BY <1>6, <3>2 DEF PumpResponse, PumpEnds, DrainReads, stream
        <4> QED
          BY <1>0, <4>1 DEF QueueOK
      <3> QED
        BY <3>1, <3>2
    <2> QED
      BY <1>0, <2>1, <2>2, <2>3, <2>4 DEF QueueOK, Notification, Ordinary
  <1>7. CASE ResolvePending \/ TestEvents
    <2>1. /\ UNCHANGED <<use, commands, reads, notices, seen, current, taken, events, lost>>
          /\ pump' \notin {"popped", "writing"} /\ pending' \subseteq pending
          /\ pump' = "publish" => events = <<>>
      BY <1>7 DEF ResolvePending, TestEvents, peer, stream
    <2> QED
      BY <1>0, <2>1 DEF QueueOK, Notification, Ordinary
  <1>8. CASE EvictEvent
    <2>1. Tail(events) \in Seq(Events)
      BY <1>0, <1>8, TailFacts DEF EvictEvent, QueueOK
    <2> QED
      BY <1>0, <1>8, <2>1 DEF EvictEvent, QueueOK, Notification, Ordinary, peer
  <1>9. CASE Publish
    <2>1. events' \in Seq(Events)
      <3>1. events \in Seq(Events) /\ lost \in Nat
        BY <1>0 DEF QueueOK
      <3>2. [kind |-> "gap", n |-> lost] \in Events /\ [kind |-> "disconnected", n |-> 0] \in Events
        BY <3>1, EventFacts
      <3>3. /\ <<[kind |-> "gap", n |-> lost]>> \in Seq(Events) /\ <<>> \in Seq(Events)
            /\ <<[kind |-> "disconnected", n |-> 0]>> \in Seq(Events)
        BY <3>2
      <3> QED
        BY <1>9, <3>1, <3>3 DEF Publish
    <2> QED
      BY <1>0, <1>9, <2>1 DEF Publish, QueueOK, Notification, Ordinary
  <1>10. CASE ReadFrame \/ ReaderEnds
    <2>1. UNCHANGED <<use, commands, pump, current, pending, taken, events, lost, seen>>
      BY <1>10 DEF ReadFrame, ReaderEnds, stream
    <2>2. reads \in Seq(Frames) /\ notices \in Nat /\ wire \subseteq Call
      BY <1>0 DEF QueueOK, TypeOK
    <2>3. notices' \in Nat
      <3>1. notices' = notices \/ notices' = notices + 1
        BY <1>10 DEF ReadFrame, ReaderEnds, peer
      <3> QED
        BY <2>2, <3>1
    <2>4. \/ reads' = reads
          \/ \E f \in Frames : reads' = Append(reads, f)
      <3>1. ASSUME ReaderEnds PROVE reads' = reads \/ reads' = Append(reads, [kind |-> "error"])
        BY <3>1 DEF ReaderEnds
      <3>2. ASSUME ReadFrame
            PROVE  \/ reads' = reads
                   \/ \E c \in Call : reads' = Append(reads, [kind |-> "response", call |-> c])
                   \/ reads' = Append(reads, [kind |-> "notice", n |-> notices'])
        BY <2>2, <3>2 DEF ReadFrame, Frame
      <3> QED
        BY <1>10, <2>3, <3>1, <3>2, FrameFacts
    <2>5. reads' \in Seq(Frames)
      BY <2>2, <2>4
    <2> QED
      BY <1>0, <2>1, <2>3, <2>5 DEF QueueOK, Notification, Ordinary
  <1>11. CASE NextEvent
    <2>1. events' \in Seq(Events) /\ seen' \in Seq(Events) /\ (events = <<>> => events' = <<>>)
      <3>1. [kind |-> "eof", n |-> 0] \in Events
        BY EventFacts
      <3>2. events \in Seq(Events) /\ seen \in Seq(Events)
        BY <1>0 DEF QueueOK
      <3>3. \/ events # <<>> /\ seen' = Append(seen, Head(events)) /\ events' = Tail(events)
            \/ seen' = Append(seen, [kind |-> "eof", n |-> 0]) /\ events' = events
        BY <1>11 DEF NextEvent
      <3>4. Append(seen, [kind |-> "eof", n |-> 0]) \in Seq(Events)
        BY <3>1, <3>2, AppendFacts
      <3>5. ASSUME events # <<>> PROVE Tail(events) \in Seq(Events) /\ Append(seen, Head(events)) \in Seq(Events)
        BY <3>2, <3>5, TailFacts, AppendFacts
      <3> QED
        BY <3>2, <3>3, <3>4, <3>5
    <2>2. UNCHANGED <<use, commands, pump, current, pending, reads, notices, taken, lost>>
      BY <1>11 DEF NextEvent, peer, stream
    <2> QED
      BY <1>0, <2>1, <2>2 DEF QueueOK, Notification, Ordinary
  <1>12. CASE ReadFails \/ Close
    <2>1. UNCHANGED <<use, commands, pump, current, pending, reads, notices, taken, events, lost, seen>>
      BY <1>12 DEF ReadFails, Close, stream
    <2> QED
      BY <1>0, <2>1 DEF QueueOK, Notification, Ordinary
  <1>13. ASSUME UNCHANGED <<use, commands, pump, current, pending, reads, notices, taken, events, lost, seen>>
         PROVE  QueueOK'
    BY <1>0, <1>13 DEF QueueOK, Notification, Ordinary
  <1> QED
    BY <1>1, <1>2, <1>3, <1>4, <1>5, <1>6, <1>7, <1>8, <1>9, <1>10, <1>11, <1>12, <1>13
       DEF Next, CallStep, PumpStep


-----------------------------------------------------------------------------
(* Type correctness, a group of variables at a time. *)

CallersOK ==
    /\ pc \in [Call -> {"idle", "enqueue", "wait", "withdraw", "cancelWrite", "sendCancel",
                        "awaitAck", "withdrawn", "cutAny", "done"}]
    /\ canceled \subseteq Call
    /\ phase \in [Call -> Evidence \cup {None}] /\ outcome \in [Call -> Evidence \cup {None}]
RepliesOK == resultCh \in [Call -> Evidence \cup {None}] /\ ackCh \in [Call -> Evidence \cup {None}]
IdsOK == reserved \cup retired \cup withdrawn \cup queued \cup completed \subseteq Id
PumpOK ==
    /\ pump \in {"select", "popped", "writing", "finish", "drain", "evict", "evicting", "publish", "stopped"}
    /\ current \in Call \cup {None} /\ pending \subseteq Call
PeerOK ==
    /\ wire \subseteq Call /\ answered \subseteq wire
    /\ reader \in {"reading", "failed", "overflow", "stopped"}
    /\ {accepting, up, closing, closed} \subseteq BOOLEAN
BoundsOK ==
    /\ Len(commands) <= WriterCapacity /\ Len(reads) <= ReadCapacity
    /\ Len(events) <= EventCapacity + 2

LEMMA TypeParts == TypeOK <=> CallersOK /\ RepliesOK /\ IdsOK /\ PumpOK /\ PeerOK /\ BoundsOK
  BY DEF TypeOK, CallersOK, RepliesOK, IdsOK, PumpOK, PeerOK, BoundsOK

LEMMA UseStays ==
    ASSUME Next
    PROVE  UNCHANGED <<use, idOf, Notification, Ordinary, WriterCapacity, ReadCapacity, EventCapacity>>
  <1>1. UNCHANGED use
    BY DEF Next, Start, CallStep, EndContext, Enqueue, Await, Withdraw, CancelWrite, SendCancel, AwaitAck,
       Withdrawn, AwaitNotify, CutAny, PumpStep, PumpRequest, PumpNotify, BeginWrite, PumpCancel, PumpResponse,
       PumpNotice, PumpEnds, ResolvePending, DrainCommand, DrainReads, TestEvents, EvictEvent, Publish,
       Written, WriteFailed, ReadFrame, ReadFails, ReaderEnds, NextEvent, Close
  <1> QED
    BY <1>1 DEF idOf, Notification, Ordinary, WriterCapacity, ReadCapacity, EventCapacity

LEMMA CallersStep ==
    ASSUME QueueOK, TypeOK, Next
    PROVE  CallersOK'
  <1>0. CallersOK /\ RepliesOK
    BY TypeParts
  <1>1. /\ {NotWritten, MayBe, Failed} \subseteq Evidence
    BY EvidenceFacts
  <1>2. ASSUME NEW c \in Call, Start(c) \/ Enqueue(c) \/ EndContext(c) \/ Withdraw(c) \/ SendCancel(c)
        PROVE  CallersOK'
    BY <1>0, <1>1, <1>2 DEF Start, Enqueue, EndContext, Withdraw, SendCancel, CallersOK, Goto, Return
  <1>3. ASSUME NEW c \in Call, Await(c) \/ AwaitNotify(c) \/ CutAny(c) \/ CancelWrite(c)
        PROVE  CallersOK'
    BY <1>0, <1>1, <1>3 DEF Await, AwaitNotify, CutAny, CancelWrite, CallersOK, RepliesOK, Goto, Return
  <1>4. ASSUME NEW c \in Call, AwaitAck(c) \/ Withdrawn(c)
        PROVE  CallersOK'
    BY <1>0, <1>1, <1>4 DEF AwaitAck, Withdrawn, CallersOK, RepliesOK, Goto, Return
  <1>5. ASSUME PumpStep \/ Written \/ WriteFailed \/ ReadFrame \/ ReadFails \/ ReaderEnds \/ NextEvent \/ Close
        PROVE  CallersOK'
    <2>1. UNCHANGED callers
      BY <1>5 DEF PumpStep, PumpRequest, PumpNotify, BeginWrite, PumpCancel, PumpResponse, PumpNotice,
         PumpEnds, ResolvePending, DrainCommand, DrainReads, TestEvents, EvictEvent, Publish,
         Written, WriteFailed, ReadFrame, ReadFails, ReaderEnds, NextEvent, Close
    <2> QED
      BY <1>0, <2>1 DEF callers, CallersOK
  <1> QED
    BY <1>2, <1>3, <1>4, <1>5 DEF Next, CallStep

LEMMA RepliesStep ==
    ASSUME QueueOK, TypeOK, Next
    PROVE  RepliesOK'
  <1>0. RepliesOK
    BY TypeParts
  <1>1. {NotWritten, MayBe, Sent, Failed} \subseteq Evidence /\ \A c \in Call : Response(c) \in Evidence
    BY EvidenceFacts
  <1>2. CASE PumpNotify \/ PumpCancel \/ DrainCommand
    <2>1. Head(commands).call \in Call
      BY <1>2, HeadOfCommands DEF PumpNotify, PumpCancel, DrainCommand
    <2> QED
      BY <1>0, <1>1, <1>2, <2>1 DEF PumpNotify, PumpCancel, DrainCommand, RepliesOK, replies
  <1>3. CASE BeginWrite \/ Written \/ WriteFailed
    <2>1. current \in Call
      BY <1>3 DEF BeginWrite, Written, WriteFailed, QueueOK
    <2> QED
      BY <1>0, <1>1, <1>3, <2>1 DEF BeginWrite, Written, WriteFailed, RepliesOK, replies
  <1>4. CASE PumpResponse
    <2>1. Head(reads).call \in Call
      BY <1>4, HeadOfReads DEF PumpResponse
    <2> QED
      BY <1>0, <1>1, <1>4, <2>1 DEF PumpResponse, RepliesOK, replies
  <1>5. CASE ResolvePending
    BY <1>0, <1>1, <1>5 DEF ResolvePending, RepliesOK
  <1>6. ASSUME UNCHANGED replies PROVE RepliesOK'
    BY <1>0, <1>6 DEF replies, RepliesOK
  <1>7. ASSUME NEW c \in Call, Start(c) \/ CallStep(c) \/ EndContext(c) PROVE UNCHANGED replies
    BY <1>7 DEF Start, CallStep, EndContext, Enqueue, Await, Withdraw, CancelWrite, SendCancel, AwaitAck,
       Withdrawn, AwaitNotify, CutAny
  <1>8. ASSUME \/ PumpRequest \/ PumpNotice \/ PumpEnds \/ DrainReads \/ TestEvents \/ EvictEvent \/ Publish
               \/ ReadFrame \/ ReadFails \/ ReaderEnds \/ NextEvent \/ Close
        PROVE  UNCHANGED replies
    BY <1>8 DEF PumpRequest, PumpNotice, PumpEnds, DrainReads, TestEvents, EvictEvent, Publish,
       ReadFrame, ReadFails, ReaderEnds, NextEvent, Close
  <1> QED
    BY <1>2, <1>3, <1>4, <1>5, <1>6, <1>7, <1>8 DEF Next, PumpStep

LEMMA IdsStep ==
    ASSUME QueueOK, TypeOK, Next
    PROVE  IdsOK'
  <1>0. IdsOK /\ \A c \in Call : idOf[c] \in Id
    BY TypeParts, UseFacts DEF UseParts
  <1>1. ASSUME NEW c \in Call, \/ Start(c) \/ Enqueue(c) \/ Await(c) \/ Withdraw(c) \/ Withdrawn(c)
        PROVE  IdsOK'
    BY <1>0, <1>1 DEF Start, Enqueue, Await, Withdraw, Withdrawn, Release, IdsOK, ids
  <1>2. CASE PumpCancel \/ DrainCommand
    <2>1. Head(commands).call \in Call
      BY <1>2, HeadOfCommands DEF PumpCancel, DrainCommand
    <2> QED
      BY <1>0, <1>2, <2>1 DEF PumpCancel, DrainCommand, Release, IdsOK, ids
  <1>3. CASE PumpRequest \/ BeginWrite \/ WriteFailed
    BY <1>0, <1>3 DEF PumpRequest, BeginWrite, WriteFailed, Release, IdsOK, ids
  <1>4. CASE PumpResponse
    <2>1. Head(reads).call \in Call
      BY <1>4, HeadOfReads DEF PumpResponse
    <2> QED
      BY <1>0, <1>4, <2>1 DEF PumpResponse, Release, IdsOK, ids
  <1>5. CASE ResolvePending
    <2>1. pending \subseteq Call
      BY DEF TypeOK
    <2> QED
      BY <1>0, <1>5, <2>1 DEF ResolvePending, IdsOK
  <1>6. ASSUME UNCHANGED ids PROVE IdsOK'
    BY <1>0, <1>6 DEF ids, IdsOK
  <1>7. ASSUME NEW c \in Call, \/ EndContext(c) \/ CancelWrite(c) \/ SendCancel(c) \/ AwaitAck(c)
                               \/ AwaitNotify(c) \/ CutAny(c)
        PROVE UNCHANGED ids
    BY <1>7 DEF EndContext, CancelWrite, SendCancel, AwaitAck, AwaitNotify, CutAny
  <1>8. ASSUME \/ PumpNotify \/ PumpNotice \/ PumpEnds \/ DrainReads \/ TestEvents \/ EvictEvent \/ Publish
               \/ Written \/ ReadFrame \/ ReadFails \/ ReaderEnds \/ NextEvent \/ Close
        PROVE  UNCHANGED ids
    BY <1>8 DEF PumpNotify, PumpNotice, PumpEnds, DrainReads, TestEvents, EvictEvent, Publish, Written,
       ReadFrame, ReadFails, ReaderEnds, NextEvent, Close
  <1> QED
    BY <1>1, <1>2, <1>3, <1>4, <1>5, <1>6, <1>7, <1>8 DEF Next, CallStep, PumpStep

LEMMA PumpPartStep ==
    ASSUME QueueOK, TypeOK, Next
    PROVE  PumpOK'
  <1>0. PumpOK
    BY TypeParts
  <1>1. ASSUME NEW c \in Call, Start(c) \/ CallStep(c) \/ EndContext(c)
        PROVE  UNCHANGED <<pump, current, pending>>
    BY <1>1 DEF Start, CallStep, EndContext, Enqueue, Await, Withdraw, CancelWrite, SendCancel, AwaitAck,
       Withdrawn, AwaitNotify, CutAny
  <1>2. ASSUME ReadFrame \/ ReadFails \/ ReaderEnds \/ NextEvent \/ Close
        PROVE  UNCHANGED <<pump, current, pending>>
    BY <1>2 DEF ReadFrame, ReadFails, ReaderEnds, NextEvent, Close
  <1>3. ASSUME UNCHANGED <<pump, current, pending>>
        PROVE  PumpOK'
    BY <1>0, <1>3 DEF PumpOK
  <1>4. CASE PumpRequest \/ PumpNotify \/ PumpCancel \/ DrainCommand
    <2>1. Head(commands).call \in Call
      BY <1>4, HeadOfCommands DEF PumpRequest, PumpNotify, PumpCancel, DrainCommand
    <2> QED
      BY <1>0, <1>4, <2>1 DEF PumpRequest, PumpNotify, PumpCancel, DrainCommand, PumpOK
  <1>5. CASE BeginWrite \/ WriteFailed
    BY <1>0, <1>5 DEF BeginWrite, WriteFailed, PumpOK
  <1>6. CASE Written
    <2>1. current \in Call
      BY <1>6 DEF Written, QueueOK
    <2> QED
      BY <1>0, <1>6, <2>1 DEF Written, PumpOK
  <1>7. CASE PumpResponse \/ PumpNotice \/ PumpEnds
    BY <1>0, <1>7 DEF PumpResponse, PumpNotice, PumpEnds, PumpOK
  <1>8. CASE ResolvePending \/ DrainReads \/ TestEvents \/ EvictEvent \/ Publish
    BY <1>0, <1>8 DEF ResolvePending, DrainReads, TestEvents, EvictEvent, Publish, PumpOK
  <1> QED
    BY <1>1, <1>2, <1>3, <1>4, <1>5, <1>6, <1>7, <1>8 DEF Next, PumpStep

LEMMA PeerStep ==
    ASSUME QueueOK, TypeOK, Next
    PROVE  PeerOK'
  <1>0. PeerOK
    BY TypeParts
  <1>1. ASSUME NEW c \in Call, \/ Start(c) \/ EndContext(c) \/ Enqueue(c) \/ Await(c) \/ Withdraw(c)
                               \/ SendCancel(c) \/ AwaitAck(c) \/ Withdrawn(c) \/ AwaitNotify(c)
        PROVE  UNCHANGED <<wire, answered, reader, accepting, up, closing, closed>>
    BY <1>1 DEF Start, EndContext, Enqueue, Await, Withdraw, SendCancel, AwaitAck, Withdrawn, AwaitNotify, peer
  <1>2. ASSUME \/ PumpRequest \/ PumpNotify \/ BeginWrite \/ PumpCancel \/ PumpResponse \/ PumpNotice
               \/ PumpEnds \/ DrainCommand \/ DrainReads \/ TestEvents \/ EvictEvent \/ NextEvent
        PROVE  UNCHANGED <<wire, answered, reader, accepting, up, closing, closed>>
    BY <1>2 DEF PumpRequest, PumpNotify, BeginWrite, PumpCancel, PumpResponse, PumpNotice, PumpEnds,
       DrainCommand, DrainReads, TestEvents, EvictEvent, NextEvent, peer
  <1>3. ASSUME UNCHANGED <<wire, answered, reader, accepting, up, closing, closed>>
        PROVE  PeerOK'
    BY <1>0, <1>3 DEF PeerOK
  <1>4. ASSUME NEW c \in Call, CancelWrite(c) \/ CutAny(c)
        PROVE  PeerOK'
    <2>1. UNCHANGED <<wire, answered, reader, accepting, closing, closed>> /\ up' \in BOOLEAN
      BY <1>0, <1>4 DEF CancelWrite, CutAny, PeerOK
    <2> QED
      BY <1>0, <2>1 DEF PeerOK
  <1>5. CASE Written \/ WriteFailed
    <2>1. /\ wire \subseteq wire' /\ wire' \subseteq wire \cup {current} /\ current \in Call
          /\ UNCHANGED <<answered, reader, accepting, up, closing, closed>>
      BY <1>5 DEF Written, WriteFailed, QueueOK
    <2> QED
      BY <1>0, <2>1 DEF PeerOK
  <1>6. CASE ResolvePending \/ Publish \/ Close
    <2>1. /\ UNCHANGED <<wire, answered, reader>> /\ accepting' \in {accepting, FALSE}
          /\ up' \in {up, FALSE} /\ closing' \in {closing, TRUE} /\ closed' \in {closed, TRUE}
      BY <1>6 DEF ResolvePending, Publish, Close, peer
    <2> QED
      BY <1>0, <2>1 DEF PeerOK
  <1>7. CASE ReadFrame \/ ReadFails \/ ReaderEnds
    <2>1. /\ UNCHANGED <<wire, accepting, closing, closed>> /\ up' \in {up, FALSE}
          /\ reader' \in {reader, "overflow", "failed", "stopped"}
          /\ answered' = answered \/ \E c \in wire : answered' = answered \cup {c}
      BY <1>7 DEF ReadFrame, ReadFails, ReaderEnds, Frame
    <2> QED
      BY <1>0, <2>1 DEF PeerOK
  <1> QED
    BY <1>1, <1>2, <1>3, <1>4, <1>5, <1>6, <1>7 DEF Next, CallStep, PumpStep

LEMMA BoundsStep ==
    ASSUME QueueOK, TypeOK, Next
    PROVE  BoundsOK'
  <1>0. /\ BoundsOK /\ UseParts
        /\ commands \in Seq(Command) /\ reads \in Seq(Frames) /\ events \in Seq(Events)
    BY TypeParts, UseFacts DEF QueueOK
  <1>2. UNCHANGED <<WriterCapacity, ReadCapacity, EventCapacity>>
    BY UseStays
  <1>3. Len(commands') <= WriterCapacity
    <2>1. \/ commands' = commands
          \/ commands # <<>> /\ commands' = Tail(commands)
          \/ Len(commands) < WriterCapacity /\ \E x \in Command : commands' = Append(commands, x)
      <3>1. ASSUME NEW c \in Call, Start(c) \/ EndContext(c) \/ Await(c) \/ Withdraw(c) \/ CancelWrite(c)
                                   \/ AwaitAck(c) \/ Withdrawn(c) \/ AwaitNotify(c) \/ CutAny(c)
            PROVE  commands' = commands
        BY <3>1 DEF Start, EndContext, Await, Withdraw, CancelWrite, AwaitAck, Withdrawn, AwaitNotify, CutAny
      <3>2. ASSUME NEW c \in Call, Enqueue(c) \/ SendCancel(c)
            PROVE  \/ commands' = commands
                   \/ Len(commands) < WriterCapacity /\ \E x \in Command : commands' = Append(commands, x)
        BY <3>2, CommandFacts DEF Enqueue, SendCancel
      <3>3. ASSUME PumpStep
            PROVE  commands' = commands \/ (commands # <<>> /\ commands' = Tail(commands))
        BY <3>3 DEF PumpStep, PumpRequest, PumpNotify, BeginWrite, PumpCancel, PumpResponse, PumpNotice,
           PumpEnds, ResolvePending, DrainCommand, DrainReads, TestEvents, EvictEvent, Publish
      <3>4. ASSUME Written \/ WriteFailed \/ ReadFrame \/ ReadFails \/ ReaderEnds \/ NextEvent \/ Close
            PROVE  commands' = commands
        BY <3>4 DEF Written, WriteFailed, ReadFrame, ReadFails, ReaderEnds, NextEvent, Close
      <3> QED
        BY <3>1, <3>2, <3>3, <3>4 DEF Next, CallStep
    <2>2. commands # <<>> => Len(Tail(commands)) = Len(commands) - 1
      BY <1>0, TailFacts
    <2>3. \A x \in Command : Len(Append(commands, x)) = Len(commands) + 1
      BY <1>0, AppendFacts
    <2>4. Len(commands) \in Nat
      BY <1>0
    <2> QED
      BY <1>0, <2>1, <2>2, <2>3, <2>4 DEF BoundsOK, UseParts
  <1>4. Len(reads') <= ReadCapacity
    <2>1. \/ reads' = reads \/ reads' = <<>>
          \/ reads # <<>> /\ reads' = Tail(reads)
          \/ Len(reads) < ReadCapacity /\ \E x \in Frames : reads' = Append(reads, x)
      <3>1. ASSUME NEW c \in Call, Start(c) \/ CallStep(c) \/ EndContext(c)
            PROVE  reads' = reads
        BY <3>1 DEF Start, CallStep, EndContext, Enqueue, Await, Withdraw, CancelWrite, SendCancel, AwaitAck,
           Withdrawn, AwaitNotify, CutAny, peer
      <3>2. ASSUME PumpStep \/ Written \/ WriteFailed \/ ReadFails \/ NextEvent \/ Close
            PROVE  reads' = reads \/ reads' = <<>> \/ (reads # <<>> /\ reads' = Tail(reads))
        BY <3>2 DEF PumpStep, PumpRequest, PumpNotify, BeginWrite, PumpCancel, PumpResponse, PumpNotice,
           PumpEnds, ResolvePending, DrainCommand, DrainReads, TestEvents, EvictEvent, Publish,
           Written, WriteFailed, ReadFails, NextEvent, Close, peer
      <3>3. ASSUME ReaderEnds
            PROVE  \/ reads' = reads
                   \/ Len(reads) < ReadCapacity /\ reads' = Append(reads, [kind |-> "error"])
        BY <3>3 DEF ReaderEnds
      <3>4. ASSUME ReadFrame
            PROVE  \/ reads' = reads
                   \/ Len(reads) < ReadCapacity /\ \E x \in Frames : reads' = Append(reads, x)
        <4>1. wire \subseteq Call /\ notices + 1 \in Nat
          BY DEF QueueOK, TypeOK
        <4>2. \E x \in Frames : Frame(x)
          BY <3>4, <4>1, FrameFacts DEF ReadFrame
        <4> QED
          BY <4>2 DEF Frame
      <3> QED
        BY <3>1, <3>2, <3>3, <3>4, FrameFacts DEF Next
    <2>2. reads # <<>> => Len(Tail(reads)) = Len(reads) - 1
      BY <1>0, TailFacts
    <2>3. \A x \in Frames : Len(Append(reads, x)) = Len(reads) + 1
      BY <1>0, AppendFacts
    <2>4. Len(reads) \in Nat /\ Len(<<>>) = 0
      BY <1>0
    <2> QED
      BY <1>0, <2>1, <2>2, <2>3, <2>4 DEF BoundsOK, UseParts
  <1>5. Len(events') <= EventCapacity + 2
    <2>1. \/ events' = events
          \/ events # <<>> /\ events' = Tail(events)
          \/ Len(events) < EventCapacity + 2 /\ \E x \in Events : events' = Append(events, x)
          \/ pump = "publish" /\ Publish
      <3>1. ASSUME NEW c \in Call, Start(c) \/ CallStep(c) \/ EndContext(c)
            PROVE  events' = events
        BY <3>1 DEF Start, CallStep, EndContext, Enqueue, Await, Withdraw, CancelWrite, SendCancel, AwaitAck,
           Withdrawn, AwaitNotify, CutAny, stream
      <3>2. ASSUME \/ PumpRequest \/ PumpNotify \/ BeginWrite \/ PumpCancel \/ PumpResponse \/ PumpEnds
                   \/ ResolvePending \/ DrainCommand \/ DrainReads \/ TestEvents
                   \/ Written \/ WriteFailed \/ ReadFrame \/ ReadFails \/ ReaderEnds \/ Close
            PROVE  events' = events
        BY <3>2 DEF PumpRequest, PumpNotify, BeginWrite, PumpCancel, PumpResponse, PumpEnds,
           ResolvePending, DrainCommand, DrainReads, TestEvents,
           Written, WriteFailed, ReadFrame, ReadFails, ReaderEnds, Close, stream
      <3>3. ASSUME EvictEvent \/ NextEvent
            PROVE  events' = events \/ (events # <<>> /\ events' = Tail(events))
        BY <3>3 DEF EvictEvent, NextEvent
      <3>4. ASSUME PumpNotice
            PROVE  \/ events' = events
                   \/ Len(events) < EventCapacity + 2 /\ \E x \in Events : events' = Append(events, x)
        <4>1. [kind |-> "notice", n |-> Head(reads).n] \in Events
          BY <3>4, HeadOfReads DEF PumpNotice
        <4> QED
          BY <3>4, <4>1 DEF PumpNotice
      <3>5. ASSUME Publish PROVE pump = "publish"
        BY <3>5 DEF Publish
      <3> QED
        BY <3>1, <3>2, <3>3, <3>4, <3>5 DEF Next, PumpStep
    <2>2. events # <<>> => Len(Tail(events)) = Len(events) - 1
      BY <1>0, TailFacts
    <2>3. \A x \in Events : Len(Append(events, x)) = Len(events) + 1
      BY <1>0, AppendFacts
    <2>4. Len(events) \in Nat /\ EventCapacity \in Nat
      BY <1>0 DEF UseParts
    <2>5. ASSUME pump = "publish", Publish PROVE Len(events') <= 2
      <3>1. events = <<>>
        BY <2>5 DEF QueueOK
      <3>2. CASE lost > 0
        BY <2>5, <3>1, <3>2 DEF Publish
      <3>3. CASE ~(lost > 0)
        BY <2>5, <3>1, <3>3 DEF Publish
      <3> QED
        BY <3>2, <3>3
    <2> QED
      BY <1>0, <2>1, <2>2, <2>3, <2>4, <2>5 DEF BoundsOK
  <1> QED
    BY <1>2, <1>3, <1>4, <1>5 DEF BoundsOK

LEMMA TypeStep ==
    ASSUME QueueOK, TypeOK, Next
    PROVE  TypeOK'
  <1>1. TypeOK' <=> CallersOK' /\ RepliesOK' /\ IdsOK' /\ PumpOK' /\ PeerOK' /\ BoundsOK'
    BY DEF TypeOK, CallersOK, RepliesOK, IdsOK, PumpOK, PeerOK, BoundsOK
  <1> QED
    BY <1>1, CallersStep, RepliesStep, IdsStep, PumpPartStep, PeerStep, BoundsStep

-----------------------------------------------------------------------------
(* Evidence of a call comes from its own channels. *)

\* The outcome of a call is a response only to that call.
OwnInv ==
    \A c \in Call :
        /\ ackCh[c] \in {None, NotWritten, MayBe} /\ phase[c] \in {None, NotWritten, MayBe}
        /\ resultCh[c] \in {None, NotWritten, MayBe, Sent, Failed, Response(c)}
        /\ outcome[c] \in {None, NotWritten, MayBe, Sent, Failed, Response(c)}

Answer(c) == [kind |-> "response", call |-> c]

\* Pending calls have different IDs; as long as the pump takes responses, each
\* in the read queue is to a pending call and the only one to it, and every
\* request the peer may still answer is pending.
PendingInv ==
    /\ \A c, d \in pending : idOf[c] = idOf[d] => c = d
    /\ pump = "writing" /\ current \in Ordinary => PendingWith(idOf[current]) = {}
    /\ pump \in Loop =>
          \A c \in Call :
             /\ In(Answer(c), reads) => c \in pending /\ c \in answered
             /\ Once(Answer(c), reads)
             /\ c \in Ordinary /\ c \in wire \ answered => c \in pending

LEMMA HeadAnswer ==
    ASSUME QueueOK, PendingInv, PumpResponse
    PROVE  /\ Head(reads) = Answer(Head(reads).call)
           /\ Head(reads).call \in pending /\ Head(reads).call \in answered
           /\ PendingWith(idOf[Head(reads).call]) = {Head(reads).call}
  <1>1. /\ reads # <<>> /\ reads \in Seq(Frames) /\ Head(reads) \in Frames /\ Head(reads).kind = "response"
        /\ Head(reads).call \in Call
    BY HeadOfReads DEF PumpResponse, QueueOK
  <1>2. Head(reads) = Answer(Head(reads).call)
    BY <1>1 DEF Frames, Answer
  <1>3. In(Answer(Head(reads).call), reads)
    BY <1>1, <1>2, QueueTail
  <1>4. Head(reads).call \in pending /\ Head(reads).call \in answered
    BY <1>1, <1>3 DEF PendingInv, PumpResponse, Loop
  <1>5. PendingWith(idOf[Head(reads).call]) = {Head(reads).call}
    <2>1. \A c, d \in pending : idOf[c] = idOf[d] => c = d
      BY DEF PendingInv
    <2> QED
      BY <1>4, <2>1 DEF PendingWith
  <1> QED
    BY <1>2, <1>4, <1>5

LEMMA NotifyStep ==
    ASSUME QueueOK, TypeOK, NotifyInv, PendingInv, Next
    PROVE  NotifyInv'
  <1>0. /\ NotifyInv /\ CallersOK /\ RepliesOK
        /\ Notification \subseteq Call /\ UNCHANGED Notification
    BY TypeParts, UseFacts, UseStays DEF UseParts, CallersOK
  <1>1. MayBe # NotWritten /\ Sent # NotWritten /\ Failed # NotWritten /\ \A c \in Call : Response(c) # NotWritten
    BY EvidenceFacts
  <1>2. ASSUME NEW c \in Call, Start(c) \/ Enqueue(c) \/ AwaitNotify(c) \/ CutAny(c)
        PROVE  NotifyInv'
    BY <1>0, <1>1, <1>2 DEF Start, Enqueue, AwaitNotify, CutAny, Goto, Return, NotifyInv, CallersOK, replies
  <1>3. ASSUME NEW c \in Call, Await(c) \/ Withdraw(c) \/ CancelWrite(c) \/ SendCancel(c)
        PROVE  NotifyInv'
    BY <1>0, <1>1, <1>3 DEF Await, Withdraw, CancelWrite, SendCancel, Goto, Return, NotifyInv, CallersOK, replies
  <1>4. ASSUME NEW c \in Call, AwaitAck(c) \/ Withdrawn(c) \/ EndContext(c)
        PROVE  NotifyInv'
    BY <1>0, <1>1, <1>4 DEF AwaitAck, Withdrawn, EndContext, Goto, Return, NotifyInv, CallersOK, replies
  <1>5. ASSUME UNCHANGED callers, \A c \in Notification : resultCh'[c] = NotWritten => resultCh[c] = NotWritten
        PROVE  NotifyInv'
    BY <1>0, <1>5 DEF callers, NotifyInv
  <1>6. ASSUME \/ PumpRequest \/ PumpCancel \/ PumpNotice \/ PumpEnds \/ DrainReads \/ TestEvents \/ EvictEvent
               \/ Publish \/ ReadFrame \/ ReadFails \/ ReaderEnds \/ NextEvent \/ Close
        PROVE  UNCHANGED callers /\ UNCHANGED resultCh
    BY <1>6 DEF PumpRequest, PumpCancel, PumpNotice, PumpEnds, DrainReads, TestEvents, EvictEvent, Publish,
       ReadFrame, ReadFails, ReaderEnds, NextEvent, Close, replies
  <1>7. ASSUME PumpNotify \/ DrainCommand
        PROVE  UNCHANGED callers /\ \A c \in Notification : resultCh'[c] = NotWritten => resultCh[c] = NotWritten
    <2>1. /\ Head(commands).call \in Call
          /\ Head(commands).kind = "request" => Head(commands).call \notin Notification
      BY <1>7, HeadOfCommands DEF PumpNotify, DrainCommand, Ordinary
    <2> QED
      BY <1>0, <1>1, <1>7, <2>1 DEF PumpNotify, DrainCommand, RepliesOK
  <1>8. ASSUME BeginWrite \/ Written \/ WriteFailed
        PROVE  UNCHANGED callers /\ \A c \in Notification : resultCh'[c] = NotWritten => resultCh[c] = NotWritten
    <2>1. current \in Call /\ (BeginWrite => current \notin Notification)
      BY <1>8 DEF BeginWrite, Written, WriteFailed, QueueOK, Ordinary
    <2> QED
      BY <1>0, <1>1, <1>8, <2>1 DEF BeginWrite, Written, WriteFailed, RepliesOK
  <1>9. ASSUME PumpResponse \/ ResolvePending
        PROVE  UNCHANGED callers /\ \A c \in Notification : resultCh'[c] = NotWritten => resultCh[c] = NotWritten
    <2>1. PumpResponse => Head(reads).call \in Call
      BY HeadOfReads DEF PumpResponse
    <2> QED
      BY <1>0, <1>1, <1>9, <2>1 DEF PumpResponse, ResolvePending, RepliesOK
  <1> QED
    BY <1>2, <1>3, <1>4, <1>5, <1>6, <1>7, <1>8, <1>9 DEF Next, CallStep, PumpStep

LEMMA OwnStep ==
    ASSUME QueueOK, TypeOK, OwnInv, PendingInv, Next
    PROVE  OwnInv'
  <1>0. OwnInv /\ CallersOK /\ RepliesOK
    BY TypeParts
  <1>2. ASSUME NEW c \in Call, Start(c) \/ Enqueue(c) \/ AwaitNotify(c) \/ CutAny(c) \/ Await(c)
        PROVE  OwnInv'
    BY <1>0, <1>2 DEF Start, Enqueue, AwaitNotify, CutAny, Await, Return, OwnInv, CallersOK, replies
  <1>3. ASSUME NEW c \in Call, Withdraw(c) \/ CancelWrite(c) \/ SendCancel(c) \/ AwaitAck(c)
        PROVE  OwnInv'
    BY <1>0, <1>3 DEF Withdraw, CancelWrite, SendCancel, AwaitAck, OwnInv, CallersOK, replies
  <1>4. ASSUME NEW c \in Call, Withdrawn(c) \/ EndContext(c)
        PROVE  OwnInv'
    BY <1>0, <1>4 DEF Withdrawn, EndContext, Return, OwnInv, CallersOK, replies
  <1>5. ASSUME UNCHANGED callers, UNCHANGED replies
        PROVE  OwnInv'
    BY <1>0, <1>5 DEF callers, replies, OwnInv
  <1>6. ASSUME \/ PumpRequest \/ PumpNotice \/ PumpEnds \/ DrainReads \/ TestEvents \/ EvictEvent
               \/ Publish \/ ReadFrame \/ ReadFails \/ ReaderEnds \/ NextEvent \/ Close
        PROVE  UNCHANGED callers /\ UNCHANGED replies
    BY <1>6 DEF PumpRequest, PumpNotice, PumpEnds, DrainReads, TestEvents, EvictEvent, Publish,
       ReadFrame, ReadFails, ReaderEnds, NextEvent, Close
  <1>7. CASE PumpNotify \/ DrainCommand \/ PumpCancel
    <2>1. Head(commands).call \in Call
      BY <1>7, HeadOfCommands DEF PumpNotify, DrainCommand, PumpCancel
    <2> QED
      BY <1>0, <1>7, <2>1 DEF PumpNotify, DrainCommand, PumpCancel, RepliesOK, OwnInv, callers
  <1>8. CASE BeginWrite \/ Written \/ WriteFailed
    <2>1. current \in Call
      BY <1>8 DEF BeginWrite, Written, WriteFailed, QueueOK
    <2> QED
      BY <1>0, <1>8, <2>1 DEF BeginWrite, Written, WriteFailed, RepliesOK, OwnInv, callers
  <1>9. CASE PumpResponse
    <2>1. /\ Head(reads).call \in Call
          /\ resultCh' = [resultCh EXCEPT ![Head(reads).call] = Response(Head(reads).call)]
          /\ UNCHANGED callers /\ UNCHANGED ackCh
      BY <1>9, HeadAnswer, HeadOfReads DEF PumpResponse
    <2> QED
      BY <1>0, <2>1 DEF RepliesOK, OwnInv, callers
  <1>10. CASE ResolvePending
    BY <1>0, <1>10 DEF ResolvePending, RepliesOK, OwnInv, callers
  <1> QED
    BY <1>2, <1>3, <1>4, <1>5, <1>6, <1>7, <1>8, <1>9, <1>10 DEF Next, CallStep, PumpStep

\* The clause of PendingInv about the read queue.
ReadsInv == \A c \in Call :
    /\ In(Answer(c), reads) => c \in pending /\ c \in answered
    /\ Once(Answer(c), reads)
    /\ c \in Ordinary /\ c \in wire \ answered => c \in pending

LEMMA PendingParts ==
    PendingInv <=> /\ \A c, d \in pending : idOf[c] = idOf[d] => c = d
                   /\ pump = "writing" /\ current \in Ordinary => PendingWith(idOf[current]) = {}
                   /\ pump \in Loop => ReadsInv
  BY DEF PendingInv, ReadsInv

LEMMA PendingStep ==
    ASSUME QueueOK, TypeOK, PendingInv, Next
    PROVE  PendingInv'
  <1>0. UNCHANGED <<idOf, Notification, Ordinary>>
    BY UseStays
  <1>1. /\ \A c, d \in pending : idOf[c] = idOf[d] => c = d
        /\ pump = "writing" /\ current \in Ordinary => PendingWith(idOf[current]) = {}
        /\ pump \in Loop => ReadsInv
    BY PendingParts
  <1>2. reads \in Seq(Frames) /\ wire \subseteq Call
    BY DEF QueueOK, TypeOK
  <1>3. ASSUME UNCHANGED <<current, pending, reads, wire, answered>>,
               pump' \in Loop => pump \in Loop,
               pump' = "writing" => \/ pump = "writing"
                                    \/ current \in Ordinary => PendingWith(idOf[current]) = {}
        PROVE  PendingInv'
    BY <1>0, <1>1, <1>3, PendingParts DEF PendingInv, PendingWith, ReadsInv
  <1>4. ASSUME NEW c \in Call, Start(c) \/ CallStep(c) \/ EndContext(c)
        PROVE  UNCHANGED <<pump, current, pending, reads, wire, answered>>
    BY <1>4 DEF Start, CallStep, EndContext, Enqueue, Await, Withdraw, CancelWrite, SendCancel, AwaitAck,
       Withdrawn, AwaitNotify, CutAny, peer
  <1>5. ASSUME TestEvents \/ EvictEvent \/ Publish \/ ReadFails \/ NextEvent \/ Close \/ DrainCommand
        PROVE  /\ UNCHANGED <<current, pending, reads, wire, answered>>
               /\ pump' \in Loop => pump \in Loop
               /\ pump' = "writing" => pump = "writing"
    BY <1>5 DEF TestEvents, EvictEvent, Publish, ReadFails, NextEvent, Close, DrainCommand, peer, Loop
  <1>6. ASSUME pending' \subseteq pending, pump' \notin Loop PROVE PendingInv'
    BY <1>0, <1>1, <1>6 DEF PendingInv, Loop
  <1>7. ASSUME DrainReads \/ ResolvePending \/ WriteFailed
        PROVE  pending' \subseteq pending /\ pump' \notin Loop
    BY <1>7 DEF DrainReads, ResolvePending, WriteFailed, Loop
  <1>8. CASE BeginWrite
    <2>1. /\ UNCHANGED <<current, pending, reads, wire, answered>> /\ pump \in Loop
          /\ pump' = "writing" => PendingWith(idOf[current]) = {}
      BY <1>8 DEF BeginWrite, peer, Loop
    <2> QED
      BY <1>3, <2>1
  <1>9. CASE PumpRequest \/ PumpNotify
    <2>1. /\ UNCHANGED <<pending, reads, wire, answered>> /\ pump \in Loop
          /\ pump' = "writing" => current' \in Notification
      BY <1>9, HeadOfCommands DEF PumpRequest, PumpNotify, peer, Loop
    <2> QED
      BY <1>0, <1>1, <2>1 DEF PendingInv, ReadsInv, Ordinary
  <1>10. CASE Written
    <2>1. /\ current \in Call /\ pump \in Loop /\ pump' = "select"
          /\ wire' = wire \cup {current} /\ UNCHANGED <<current, reads, answered>>
          /\ current \in Notification => pending' = pending
          /\ current \notin Notification => pending' = pending \cup {current} /\ PendingWith(idOf[current]) = {}
      BY <1>1, <1>10 DEF Written, QueueOK, Loop, Ordinary
    <2>2. \A c, d \in pending' : idOf[c] = idOf[d] => c = d
      BY <1>1, <2>1 DEF PendingWith
    <2>3. ReadsInv'
      BY <1>0, <1>1, <2>1 DEF ReadsInv, Ordinary
    <2> QED
      BY <1>0, <2>1, <2>2, <2>3 DEF PendingInv, ReadsInv
  <1>11. CASE PumpCancel
    <2>1. /\ pending' \subseteq pending /\ UNCHANGED <<reads, wire, answered>> /\ pump \in Loop
          /\ pump' = "finish" \/ (pump' = "select" /\ UNCHANGED pending)
      BY <1>11 DEF PumpCancel, peer, Loop
    <2> QED
      BY <1>0, <1>1, <2>1 DEF PendingInv, ReadsInv, Loop
  <1>12. CASE PumpResponse
    <2> DEFINE d == Head(reads).call
    <2>1. /\ d \in Call /\ Head(reads) = Answer(d) /\ d \in answered
          /\ pending' = pending \ {d} /\ reads # <<>> /\ reads' = Tail(reads)
          /\ UNCHANGED <<wire, answered, current>> /\ pump' = "select" /\ pump \in Loop
      BY <1>12, HeadAnswer, HeadOfReads DEF PumpResponse, Loop
    <2>2. ASSUME NEW c \in Call
          PROVE  /\ In(Answer(c), Tail(reads)) => c \in pending' /\ c \in answered
                 /\ Once(Answer(c), Tail(reads))
                 /\ c \in Ordinary /\ c \in wire \ answered => c \in pending'
      <3>1. /\ In(Answer(c), Tail(reads)) => In(Answer(c), reads)
            /\ Once(Answer(c), Tail(reads))
            /\ Answer(c) = Head(reads) => ~In(Answer(c), Tail(reads))
        BY <1>1, <1>2, <2>1, QueueTail DEF ReadsInv
      <3>2. c = d => Answer(c) = Head(reads)
        BY <2>1
      <3> QED
        BY <1>1, <2>1, <3>1, <3>2 DEF ReadsInv
    <2>3. ReadsInv'
      BY <1>0, <2>1, <2>2 DEF ReadsInv
    <2> QED
      BY <1>0, <1>1, <2>1, <2>3 DEF PendingInv, ReadsInv
  <1>13. CASE PumpNotice \/ PumpEnds
    <2>1. /\ UNCHANGED <<wire, answered, current, pending>> /\ pump \in Loop /\ pump' \in {"select", "finish"}
          /\ reads' = reads \/ (reads # <<>> /\ reads' = Tail(reads))
      BY <1>13 DEF PumpNotice, PumpEnds, Loop, peer
    <2>2. \A c \in Call : /\ reads # <<>> /\ In(Answer(c), Tail(reads)) => In(Answer(c), reads)
                          /\ reads # <<>> /\ Once(Answer(c), reads) => Once(Answer(c), Tail(reads))
      BY <1>2, QueueTail
    <2>3. ReadsInv'
      BY <1>0, <1>1, <2>1, <2>2 DEF ReadsInv
    <2> QED
      BY <1>0, <1>1, <2>1, <2>3 DEF PendingInv, ReadsInv
  <1>14. CASE ReadFrame \/ ReaderEnds
    <2>1. UNCHANGED <<wire, pump, current, pending>>
      BY <1>14 DEF ReadFrame, ReaderEnds
    <2>2. ASSUME ReadsInv PROVE ReadsInv'
      <3>1. CASE answered' = answered /\ (reads' = reads \/ \E f \in Frames : f.kind # "response" /\ reads' = Append(reads, f))
        <4>1. \A f \in Frames, c \in Call : f.kind # "response" => f # Answer(c)
          BY DEF Answer
        <4>2. \A f \in Frames, c \in Call :
                 f.kind # "response" => /\ In(Answer(c), Append(reads, f)) <=> In(Answer(c), reads)
                                        /\ Once(Answer(c), reads) => Once(Answer(c), Append(reads, f))
          BY <1>2, <4>1, QueueAppend
        <4> QED
          BY <1>0, <2>1, <2>2, <3>1, <4>2 DEF ReadsInv
      <3>2. CASE \E d \in Ordinary : /\ d \in wire \ answered /\ answered' = answered \cup {d}
                                     /\ reads' = reads \/ reads' = Append(reads, Answer(d))
        <4>1. PICK d \in Ordinary : /\ d \in wire \ answered /\ answered' = answered \cup {d}
                                    /\ reads' = reads \/ reads' = Append(reads, Answer(d))
          BY <3>2
        <4>2. d \in Call /\ Answer(d) \in Frames /\ ~In(Answer(d), reads) /\ d \in pending
          BY <2>2, <4>1, FrameFacts DEF Ordinary, Answer, ReadsInv
        <4>3. \A c \in Call : /\ In(Answer(c), Append(reads, Answer(d))) <=> In(Answer(c), reads) \/ Answer(c) = Answer(d)
                              /\ Once(Answer(c), reads) => Once(Answer(c), Append(reads, Answer(d)))
          BY <1>2, <4>2, QueueAppend
        <4>4. \A c \in Call : Answer(c) = Answer(d) => c = d
          BY DEF Answer
        <4> QED
          BY <1>0, <2>1, <2>2, <4>1, <4>2, <4>3, <4>4 DEF ReadsInv
      <3>3. ReaderEnds => /\ answered' = answered
                          /\ reads' = reads \/ reads' = Append(reads, [kind |-> "error"])
        BY DEF ReaderEnds
      <3>4. ReadFrame => \/ /\ answered' = answered
                            /\ reads' = reads \/ reads' = Append(reads, [kind |-> "notice", n |-> notices + 1])
                         \/ \E d \in wire \ (answered \cup Notification) :
                               /\ answered' = answered \cup {d}
                               /\ reads' = reads \/ reads' = Append(reads, Answer(d))
        BY DEF ReadFrame, Frame, Answer
      <3>5. /\ [kind |-> "error"] \in Frames /\ [kind |-> "notice", n |-> notices + 1] \in Frames
            /\ [kind |-> "error"].kind # "response" /\ [kind |-> "notice", n |-> notices + 1].kind # "response"
        BY FrameFacts DEF QueueOK
      <3> QED
        BY <1>2, <1>14, <3>1, <3>2, <3>3, <3>4, <3>5 DEF Ordinary
    <2> QED
      BY <1>0, <1>1, <2>1, <2>2 DEF PendingInv, ReadsInv, PendingWith
  <1> QED
    BY <1>3, <1>4, <1>5, <1>6, <1>7, <1>8, <1>9, <1>10, <1>11, <1>12, <1>13, <1>14 DEF Next, PumpStep

\* Once finish has resolved the pending calls there are none.
Drained == pump \in {"drain", "evict", "evicting", "publish", "stopped"} => pending = {}

LEMMA DrainedStep ==
    ASSUME QueueOK, TypeOK, Drained, Next
    PROVE  Drained'
  <1>1. ASSUME NEW c \in Call, Start(c) \/ CallStep(c) \/ EndContext(c)
        PROVE  UNCHANGED <<pump, pending>>
    BY <1>1 DEF Start, CallStep, EndContext, Enqueue, Await, Withdraw, CancelWrite, SendCancel, AwaitAck,
       Withdrawn, AwaitNotify, CutAny
  <1>2. ASSUME ReadFrame \/ ReadFails \/ ReaderEnds \/ NextEvent \/ Close \/ DrainCommand
        PROVE  UNCHANGED <<pump, pending>>
    BY <1>2 DEF ReadFrame, ReadFails, ReaderEnds, NextEvent, Close, DrainCommand
  <1>3. ASSUME UNCHANGED <<pump, pending>> PROVE Drained'
    BY <1>3 DEF Drained
  <1>4. ASSUME \/ PumpRequest \/ PumpNotify \/ BeginWrite \/ PumpCancel \/ PumpResponse \/ PumpNotice \/ PumpEnds
               \/ Written \/ WriteFailed
        PROVE  pump' \in {"select", "popped", "writing", "finish"}
    BY <1>4 DEF PumpRequest, PumpNotify, BeginWrite, PumpCancel, PumpResponse, PumpNotice, PumpEnds, Written,
       WriteFailed
  <1>5. ASSUME ResolvePending \/ DrainReads \/ TestEvents \/ EvictEvent \/ Publish
        PROVE  pending' = {}
    BY <1>5 DEF ResolvePending, DrainReads, TestEvents, EvictEvent, Publish, Drained
  <1> QED
    BY <1>1, <1>2, <1>3, <1>4, <1>5 DEF Next, PumpStep, Drained

-----------------------------------------------------------------------------
(* The place of a call's command and what may be said of it. *)

\* The command of call c is queued, in the pump's hands, or being written; its
\* cancel command is queued; its ID has the marker of a queued command.
Queued(c)    == In(Request(c), commands)
Popped(c)    == pump = "popped" /\ current = c
Writing(c)   == pump = "writing" /\ current = c
Canceling(c) == In(Cancel(c), commands)
Marked(c)    == idOf[c] \in queued
Recalled(c)  == idOf[c] \in withdrawn
Single(c)    == Once(Request(c), commands) /\ Once(Cancel(c), commands)
Settled(c)   == resultCh[c] \notin {None, NotWritten}

\* One copy of the command exists, in one place, and the client knows which.
PlaceInv(c) ==
    /\ Single(c)
    /\ Queued(c) <=> Marked(c)
    /\ Queued(c) \/ Popped(c) \/ Writing(c) => c \notin wire /\ resultCh[c] = None /\ ackCh[c] = None
    /\ Popped(c) \/ Writing(c) => ~Queued(c)
    /\ c \in pending => c \in wire /\ resultCh[c] = None /\ ackCh[c] = None
    /\ Canceling(c) => ackCh[c] = None /\ ~Queued(c)
    /\ pc[c] \in {"idle", "enqueue"} =>
          /\ ~Queued(c) /\ ~Popped(c) /\ ~Writing(c) /\ c \notin wire
          /\ resultCh[c] = None
    /\ pc[c] \in {"idle", "enqueue", "wait", "withdraw", "cancelWrite", "sendCancel"} =>
          ackCh[c] = None /\ ~Canceling(c) /\ phase[c] = None
    /\ pc[c] \in {"cancelWrite", "sendCancel", "awaitAck"} => ~Queued(c)
    /\ pc[c] # "done" => outcome[c] = None

\* NotWritten is said of a call, in any of its channels, only where its
\* command cannot be written any more.
ProofInv(c) ==
    /\ c \in wire => c \in pending \/ Settled(c) \/ ackCh[c] = MayBe
    /\ c \in wire => resultCh[c] # NotWritten /\ outcome[c] # NotWritten
    /\ c \in wire /\ (ackCh[c] = NotWritten \/ phase[c] = NotWritten) => Settled(c)
    /\ phase[c] = NotWritten \/ outcome[c] = NotWritten =>
          ~Writing(c) /\ (Queued(c) \/ Popped(c) => Recalled(c))

\* The calls no other request shares an ID with.
Owned(c) == c \in Ordinary /\ OwnId(c)
CallInv == \A c \in Call : Owned(c) => PlaceInv(c) /\ ProofInv(c)

\* What the invariant reads of call c: the queues and the pump, and what the
\* caller and its channels hold.
SameQueue(c) ==
    /\ Single(c) => Single(c)'
    /\ Queued(c)' <=> Queued(c)
    /\ Canceling(c)' <=> Canceling(c)
    /\ Marked(c)' <=> Marked(c)
    /\ Recalled(c) => Recalled(c)'
SamePump(c) ==
    /\ Popped(c)' <=> Popped(c)
    /\ Writing(c)' <=> Writing(c)
    /\ c \in wire' <=> c \in wire
    /\ c \in pending' <=> c \in pending
SameCaller(c) == pc'[c] = pc[c] /\ phase'[c] = phase[c] /\ outcome'[c] = outcome[c]
SameReplies(c) == resultCh'[c] = resultCh[c] /\ ackCh'[c] = ackCh[c]

LEMMA Undisturbed ==
    ASSUME NEW c \in Call, PlaceInv(c) /\ ProofInv(c),
           SameQueue(c), SamePump(c), SameCaller(c), SameReplies(c)
    PROVE  PlaceInv(c)' /\ ProofInv(c)'
  BY DEF PlaceInv, ProofInv, SameQueue, SamePump, SameCaller, SameReplies, Settled

LEMMA SameEasily ==
    ASSUME NEW c \in Call, UNCHANGED <<idOf, Notification>>
    PROVE  /\ UNCHANGED <<commands, queued, withdrawn>> => SameQueue(c)
           /\ UNCHANGED <<pump, current, wire, pending>> => SamePump(c)
           /\ UNCHANGED <<pc, phase, outcome>> => SameCaller(c)
           /\ UNCHANGED <<resultCh, ackCh>> => SameReplies(c)
           /\ /\ pump \notin {"popped", "writing"} /\ pump' \notin {"popped", "writing"}
              /\ UNCHANGED <<wire, pending>>
              => SamePump(c)
  <1>1. Request(c)' = Request(c) /\ Cancel(c)' = Cancel(c)
    BY DEF Request, Cancel
  <1>2. ASSUME UNCHANGED <<commands, queued, withdrawn>> PROVE SameQueue(c)
    BY <1>1, <1>2 DEF SameQueue, Single, Queued, Canceling, Marked, Recalled
  <1>3. ASSUME UNCHANGED <<pump, current, wire, pending>> PROVE SamePump(c)
    BY <1>3 DEF SamePump, Popped, Writing
  <1>4. ASSUME pump \notin {"popped", "writing"}, pump' \notin {"popped", "writing"}, UNCHANGED <<wire, pending>>
        PROVE  SamePump(c)
    BY <1>4 DEF SamePump, Popped, Writing
  <1> QED
    BY <1>2, <1>3, <1>4 DEF SameCaller, SameReplies

\* The head of the command queue is taken, or a command is added.
LEMMA TakenCommand ==
    ASSUME QueueOK, commands # <<>>, commands' = Tail(commands), UNCHANGED Notification, NEW c \in Ordinary
    PROVE  /\ Single(c) => Single(c)'
           /\ Head(commands) # Request(c) => (Queued(c)' <=> Queued(c))
           /\ Head(commands) # Cancel(c) => (Canceling(c)' <=> Canceling(c))
           /\ Head(commands) = Request(c) /\ Single(c) => Queued(c) /\ ~Queued(c)'
           /\ Head(commands) = Cancel(c) /\ Single(c) => Canceling(c) /\ ~Canceling(c)'
           /\ Head(commands).call # c => Head(commands) # Request(c) /\ Head(commands) # Cancel(c)
           /\ Request(c) # Cancel(c)
  <1>1. commands \in Seq(Command) /\ c \in Call
    BY DEF QueueOK, Ordinary
  <1>2. Request(c)' = Request(c) /\ Cancel(c)' = Cancel(c)
    BY DEF Request, Cancel
  <1>3. /\ Once(Request(c), commands) => Once(Request(c), Tail(commands))
        /\ Once(Cancel(c), commands) => Once(Cancel(c), Tail(commands))
        /\ Head(commands) # Request(c) => (In(Request(c), Tail(commands)) <=> In(Request(c), commands))
        /\ Head(commands) # Cancel(c) => (In(Cancel(c), Tail(commands)) <=> In(Cancel(c), commands))
        /\ Once(Request(c), commands) /\ Head(commands) = Request(c) => ~In(Request(c), Tail(commands))
        /\ Once(Cancel(c), commands) /\ Head(commands) = Cancel(c) => ~In(Cancel(c), Tail(commands))
        /\ In(Head(commands), commands)
    BY <1>1, QueueTail
  <1>4. /\ Head(commands).call # c => Head(commands) # Request(c) /\ Head(commands) # Cancel(c)
        /\ Request(c) # Cancel(c)
    BY <1>1, CommandFacts
  <1> QED
    BY <1>2, <1>3, <1>4 DEF Single, Queued, Canceling

LEMMA AddedCommand ==
    ASSUME QueueOK, UNCHANGED Notification, NEW c \in Ordinary, NEW x \in Command, commands' = Append(commands, x)
    PROVE  /\ Queued(c)' <=> Queued(c) \/ x = Request(c)
           /\ Canceling(c)' <=> Canceling(c) \/ x = Cancel(c)
           /\ Single(c) /\ (x = Request(c) => ~Queued(c)) /\ (x = Cancel(c) => ~Canceling(c)) => Single(c)'
           /\ x.call # c => x # Request(c) /\ x # Cancel(c)
           /\ Request(c) # Cancel(c)
  <1>1. commands \in Seq(Command) /\ c \in Call
    BY DEF QueueOK, Ordinary
  <1>2. Request(c)' = Request(c) /\ Cancel(c)' = Cancel(c)
    BY DEF Request, Cancel
  <1>3. /\ In(Request(c), Append(commands, x)) <=> In(Request(c), commands) \/ x = Request(c)
        /\ In(Cancel(c), Append(commands, x)) <=> In(Cancel(c), commands) \/ x = Cancel(c)
        /\ Once(Request(c), commands) /\ (x = Request(c) => ~In(Request(c), commands)) => Once(Request(c), Append(commands, x))
        /\ Once(Cancel(c), commands) /\ (x = Cancel(c) => ~In(Cancel(c), commands)) => Once(Cancel(c), Append(commands, x))
    <2>1. /\ In(Request(c), Append(commands, x)) <=> In(Request(c), commands) \/ Request(c) = x
          /\ Once(Request(c), commands) /\ (Request(c) = x => ~In(Request(c), commands)) => Once(Request(c), Append(commands, x))
      BY <1>1, QueueAppend
    <2>2. /\ In(Cancel(c), Append(commands, x)) <=> In(Cancel(c), commands) \/ Cancel(c) = x
          /\ Once(Cancel(c), commands) /\ (Cancel(c) = x => ~In(Cancel(c), commands)) => Once(Cancel(c), Append(commands, x))
      BY <1>1, QueueAppend
    <2> QED
      BY <2>1, <2>2
  <1>4. /\ x.call # c => x # Request(c) /\ x # Cancel(c)
        /\ Request(c) # Cancel(c)
    BY <1>1, CommandFacts
  <1> QED
    BY <1>2, <1>3, <1>4 DEF Single, Queued, Canceling

\* What the caller of c does.
LEMMA CallerStep ==
    ASSUME QueueOK, TypeOK, NotifyInv, Next,
           NEW c \in Call, Owned(c), PlaceInv(c), ProofInv(c),
           Start(c) \/ CallStep(c) \/ EndContext(c)
    PROVE  PlaceInv(c)' /\ ProofInv(c)'
  <1>0. /\ c \in Ordinary /\ c \notin Notification /\ UNCHANGED <<idOf, Notification, Ordinary>>
        /\ CallersOK /\ RepliesOK /\ PlaceInv(c) /\ ProofInv(c)
    BY UseStays, TypeParts DEF Owned, Ordinary
  <1>1. /\ NotWritten # None /\ MayBe # None /\ Failed # None /\ NotWritten # MayBe /\ NotWritten # Failed
    BY EvidenceFacts
  <1>2. ASSUME UNCHANGED <<commands, queued>>, withdrawn' = withdrawn \/ withdrawn' = withdrawn \cup {idOf[c]}
        PROVE  SameQueue(c)
    <2>1. Request(c)' = Request(c) /\ Cancel(c)' = Cancel(c)
      BY <1>0 DEF Request, Cancel
    <2> QED
      BY <1>0, <1>2, <2>1 DEF SameQueue, Single, Queued, Canceling, Marked, Recalled
  <1>3. ASSUME UNCHANGED <<pump, current, wire, pending>>
        PROVE  SamePump(c)
    BY <1>0, <1>3, SameEasily
  <1>4. CASE Start(c)
    <2>1. SameQueue(c) /\ SamePump(c) /\ SameReplies(c) /\ phase' = phase
      BY <1>0, <1>2, <1>3, <1>4, SameEasily DEF Start, peer, replies, ids
    <2>2. pc[c] = "idle" /\ (\/ pc'[c] = "enqueue" /\ outcome'[c] = outcome[c]
                             \/ pc'[c] = "done" /\ outcome'[c] = NotWritten)
      BY <1>0, <1>4 DEF Start, Goto, Return, CallersOK
    <2> QED
      BY <1>0, <1>1, <2>1, <2>2 DEF PlaceInv, ProofInv, SameQueue, SamePump, SameReplies, Settled
  <1>5. CASE Enqueue(c)
    <2>1. SamePump(c) /\ SameReplies(c) /\ phase' = phase /\ pc[c] = "enqueue"
      BY <1>0, <1>3, <1>5, SameEasily DEF Enqueue, peer, replies, ids
    <2>2. CASE /\ commands' = Append(commands, Request(c)) /\ queued' = queued \cup {idOf[c]}
               /\ Goto(c, "wait") /\ UNCHANGED <<withdrawn, outcome>>
      <3>1. /\ Queued(c)' /\ (Canceling(c)' <=> Canceling(c))
            /\ Single(c) /\ ~Queued(c) => Single(c)'
        BY <1>0, <2>2, AddedCommand, CommandFacts
      <3>2. Marked(c)' /\ pc'[c] = "wait"
        BY <1>0, <2>2 DEF Marked, Goto, CallersOK
      <3> QED
        BY <1>0, <1>1, <2>1, <2>2, <3>1, <3>2 DEF PlaceInv, ProofInv, SamePump, SameReplies, Settled
    <2>3. CASE Release(idOf[c]) /\ Return(c, NotWritten) /\ UNCHANGED commands
      <3>1. /\ Queued(c)' <=> Queued(c)
            /\ Canceling(c)' <=> Canceling(c)
            /\ Single(c)' <=> Single(c)
            /\ ~Marked(c)'
        BY <1>0, <2>3 DEF Queued, Canceling, Single, Marked, Request, Cancel, Release
      <3>2. pc'[c] = "done" /\ outcome'[c] = NotWritten
        BY <1>0, <2>3 DEF Goto, Return, CallersOK
      <3> QED
        BY <1>0, <1>1, <2>1, <3>1, <3>2 DEF PlaceInv, ProofInv, SamePump, SameReplies, Settled
    <2> QED
      BY <1>0, <1>5, <2>2, <2>3 DEF Enqueue
  <1>6. CASE Await(c)
    <2>1. SameQueue(c) /\ SamePump(c) /\ SameReplies(c) /\ phase' = phase /\ pc[c] = "wait"
      BY <1>0, <1>2, <1>3, <1>6, SameEasily DEF Await, peer, replies, ids
    <2>2. \/ resultCh[c] # None /\ pc'[c] = "done" /\ outcome'[c] = resultCh[c]
          \/ pc'[c] = "done" /\ outcome'[c] = MayBe
          \/ pc'[c] = "withdraw" /\ outcome'[c] = outcome[c]
      BY <1>0, <1>6 DEF Await, Goto, Return, CallersOK
    <2> QED
      BY <1>0, <1>1, <2>1, <2>2 DEF PlaceInv, ProofInv, SameQueue, SamePump, SameReplies, Settled
  <1>7. CASE Withdraw(c)
    <2>1. SameQueue(c) /\ SamePump(c) /\ SameReplies(c) /\ outcome' = outcome /\ pc[c] = "withdraw"
      BY <1>0, <1>2, <1>3, <1>7, SameEasily DEF Withdraw, peer, replies, ids
    <2>2. Recalled(c)'
      BY <1>0, <1>7 DEF Withdraw, Recalled
    <2>3. \/ Marked(c) /\ pc'[c] = "withdrawn" /\ phase'[c] = NotWritten
          \/ ~Marked(c) /\ pc'[c] = "cancelWrite" /\ phase'[c] = phase[c]
      BY <1>0, <1>7 DEF Withdraw, Goto, CallersOK, Marked
    <2> QED
      BY <1>0, <1>1, <2>1, <2>2, <2>3 DEF PlaceInv, ProofInv, SameQueue, SamePump, SameReplies, Settled
  <1>8. CASE CancelWrite(c)
    <2>1. SameQueue(c) /\ SamePump(c) /\ SameReplies(c) /\ outcome' = outcome /\ pc[c] = "cancelWrite"
      BY <1>0, <1>2, <1>3, <1>8, SameEasily DEF CancelWrite, peer, replies, ids
    <2>2. \/ pc'[c] = "withdrawn" /\ phase'[c] = MayBe
          \/ pc'[c] = "sendCancel" /\ phase'[c] = phase[c]
      BY <1>0, <1>8 DEF CancelWrite, Goto, CallersOK
    <2> QED
      BY <1>0, <1>1, <2>1, <2>2 DEF PlaceInv, ProofInv, SameQueue, SamePump, SameReplies, Settled
  <1>9. CASE SendCancel(c)
    <2>1. SamePump(c) /\ SameReplies(c) /\ outcome' = outcome /\ pc[c] = "sendCancel"
      BY <1>0, <1>3, <1>9, SameEasily DEF SendCancel, peer, replies, ids
    <2>2. CASE commands' = Append(commands, Cancel(c)) /\ Goto(c, "awaitAck") /\ UNCHANGED phase
      <3>1. /\ Queued(c)' <=> Queued(c)
            /\ Single(c) /\ ~Canceling(c) => Single(c)'
        BY <1>0, <2>2, AddedCommand, CommandFacts
      <3>2. (Marked(c)' <=> Marked(c)) /\ (Recalled(c)' <=> Recalled(c)) /\ pc'[c] = "awaitAck"
        BY <1>0, <1>9, <2>2 DEF SendCancel, Marked, Recalled, ids, Goto, CallersOK
      <3> QED
        BY <1>0, <1>1, <2>1, <2>2, <3>1, <3>2 DEF PlaceInv, ProofInv, SamePump, SameReplies, Settled
    <2>3. CASE phase' = [phase EXCEPT ![c] = MayBe] /\ Goto(c, "withdrawn") /\ UNCHANGED commands
      <3>1. SameQueue(c) /\ pc'[c] = "withdrawn" /\ phase'[c] = MayBe
        BY <1>0, <1>2, <1>9, <2>3 DEF SendCancel, ids, Goto, CallersOK
      <3> QED
        BY <1>0, <1>1, <2>1, <3>1 DEF PlaceInv, ProofInv, SameQueue, SamePump, SameReplies, Settled
    <2> QED
      BY <1>9, <2>2, <2>3 DEF SendCancel
  <1>10. CASE AwaitAck(c)
    <2>1. SameQueue(c) /\ SamePump(c) /\ SameReplies(c) /\ outcome' = outcome /\ pc[c] = "awaitAck"
      BY <1>0, <1>2, <1>3, <1>10, SameEasily DEF AwaitAck, peer, replies, ids
    <2>2. /\ pc'[c] = "withdrawn"
          /\ (ackCh[c] # None /\ phase'[c] = ackCh[c]) \/ phase'[c] = MayBe
      BY <1>0, <1>10 DEF AwaitAck, Goto, CallersOK
    <2> QED
      BY <1>0, <1>1, <2>1, <2>2 DEF PlaceInv, ProofInv, SameQueue, SamePump, SameReplies, Settled
  <1>11. CASE Withdrawn(c)
    <2>1. SameQueue(c) /\ SamePump(c) /\ SameReplies(c) /\ phase' = phase /\ pc[c] = "withdrawn"
      BY <1>0, <1>2, <1>3, <1>11, SameEasily DEF Withdrawn, peer, replies, ids
    <2>2. /\ pc'[c] = "done"
          /\ \/ resultCh[c] # None /\ outcome'[c] = resultCh[c]
             \/ resultCh[c] = None /\ outcome'[c] = phase[c]
      BY <1>0, <1>11 DEF Withdrawn, Goto, Return, CallersOK
    <2> QED
      BY <1>0, <1>1, <2>1, <2>2 DEF PlaceInv, ProofInv, SameQueue, SamePump, SameReplies, Settled
  <1>12. CASE CutAny(c)
    <2>1. SameQueue(c) /\ SamePump(c) /\ SameReplies(c) /\ phase' = phase /\ pc[c] = "cutAny"
      BY <1>0, <1>2, <1>3, <1>12, SameEasily DEF CutAny, peer, replies, ids
    <2>2. pc'[c] = "done" /\ outcome'[c] = Failed
      BY <1>0, <1>12 DEF CutAny, Goto, Return, CallersOK
    <2> QED
      BY <1>0, <1>1, <2>1, <2>2 DEF PlaceInv, ProofInv, SameQueue, SamePump, SameReplies, Settled
  <1>13. CASE EndContext(c)
    <2>1. SameQueue(c) /\ SamePump(c) /\ SameReplies(c) /\ SameCaller(c)
      BY <1>0, <1>2, <1>3, <1>13, SameEasily DEF EndContext, peer, replies, ids
    <2> QED
      BY <1>0, <2>1, Undisturbed
  <1> QED
    BY <1>0, <1>4, <1>5, <1>6, <1>7, <1>8, <1>9, <1>10, <1>11, <1>12, <1>13 DEF CallStep, AwaitNotify

\* What another caller does leaves c alone.
LEMMA OtherCallerStep ==
    ASSUME QueueOK, TypeOK, NotifyInv, Next,
           NEW c \in Call, Owned(c), PlaceInv(c), ProofInv(c),
           NEW d \in Call, d # c, Start(d) \/ CallStep(d) \/ EndContext(d)
    PROVE  PlaceInv(c)' /\ ProofInv(c)'
  <1>0. /\ c \in Ordinary /\ UNCHANGED <<idOf, Notification, Ordinary>>
        /\ CallersOK /\ \A e \in Ordinary : idOf[e] = idOf[c] => e = c
    BY UseStays, TypeParts DEF Owned, OwnId, Ordinary
  <1>1. SamePump(c) /\ SameReplies(c)
    <2>1. UNCHANGED <<pump, current, wire, pending, resultCh, ackCh>>
      BY DEF Start, CallStep, EndContext, Enqueue, Await, Withdraw, CancelWrite, SendCancel, AwaitAck,
         Withdrawn, AwaitNotify, CutAny, peer, replies
    <2> QED
      BY <1>0, <2>1, SameEasily
  <1>2. SameCaller(c)
    <2>1. Start(d) \/ Enqueue(d) \/ Await(d) \/ Withdraw(d) \/ EndContext(d) => SameCaller(c)
      BY <1>0 DEF Start, Enqueue, Await, Withdraw, EndContext, Goto, Return, CallersOK, SameCaller
    <2>2. CancelWrite(d) \/ SendCancel(d) \/ AwaitAck(d) => SameCaller(c)
      BY <1>0 DEF CancelWrite, SendCancel, AwaitAck, Goto, CallersOK, SameCaller
    <2>3. Withdrawn(d) \/ AwaitNotify(d) \/ CutAny(d) => SameCaller(c)
      BY <1>0 DEF Withdrawn, AwaitNotify, CutAny, Goto, Return, CallersOK, SameCaller
    <2> QED
      BY <2>1, <2>2, <2>3 DEF CallStep
  <1>3. SameQueue(c)
    <2>1. ASSUME \/ Start(d) \/ Await(d) \/ EndContext(d) \/ CancelWrite(d) \/ AwaitAck(d) \/ Withdrawn(d)
                 \/ AwaitNotify(d) \/ CutAny(d)
          PROVE  SameQueue(c)
      <3>1. UNCHANGED <<commands, queued, withdrawn>>
        BY <2>1 DEF Start, Await, EndContext, CancelWrite, AwaitAck, Withdrawn, AwaitNotify, CutAny, ids
      <3> QED
        BY <1>0, <3>1, SameEasily
    <2>2. /\ Marked(c) <=> idOf[c] \in queued
          /\ Recalled(c) <=> idOf[c] \in withdrawn
          /\ Marked(c)' <=> idOf[c] \in queued'
          /\ Recalled(c)' <=> idOf[c] \in withdrawn'
      BY <1>0 DEF Marked, Recalled
    <2>3. ASSUME UNCHANGED commands
          PROVE  /\ Single(c)' <=> Single(c)
                 /\ Queued(c)' <=> Queued(c)
                 /\ Canceling(c)' <=> Canceling(c)
      BY <1>0, <2>3 DEF Single, Queued, Canceling, Request, Cancel
    <2>4. ASSUME Withdraw(d) PROVE SameQueue(c)
      <3>1. UNCHANGED <<commands, queued>> /\ withdrawn \subseteq withdrawn'
        BY <2>4 DEF Withdraw
      <3> QED
        BY <2>2, <2>3, <3>1 DEF SameQueue
    <2>5. ASSUME NEW x \in Command, x.call = d, commands' = Append(commands, x)
          PROVE  /\ Single(c) => Single(c)'
                 /\ Queued(c)' <=> Queued(c)
                 /\ Canceling(c)' <=> Canceling(c)
      BY <1>0, <2>5, AddedCommand
    <2>6. ASSUME SendCancel(d) PROVE SameQueue(c)
      <3>1. /\ commands' = commands \/ commands' = Append(commands, Cancel(d))
            /\ UNCHANGED <<queued, withdrawn>>
        BY <2>6 DEF SendCancel, ids
      <3>2. Cancel(d) \in Command /\ Cancel(d).call = d
        BY CommandFacts
      <3> QED
        BY <2>2, <2>3, <2>5, <3>1, <3>2 DEF SameQueue
    <2>7. ASSUME Enqueue(d) PROVE SameQueue(c)
      <3>1. commands' = commands \/ commands' = Append(commands, Request(d))
        BY <2>7 DEF Enqueue
      <3>2. Request(d) \in Command /\ Request(d).call = d
        BY CommandFacts
      <3>3. d \notin Notification => idOf[d] # idOf[c]
        BY <1>0 DEF Ordinary
      <3>4. (idOf[c] \in queued' <=> idOf[c] \in queued) /\ (idOf[c] \in withdrawn' <=> idOf[c] \in withdrawn)
        BY <2>7, <3>3 DEF Enqueue, Release
      <3> QED
        BY <2>2, <2>3, <2>5, <3>1, <3>2, <3>4 DEF SameQueue
    <2> QED
      BY <2>1, <2>4, <2>6, <2>7 DEF CallStep
  <1> QED
    BY <1>1, <1>2, <1>3, Undisturbed

\* What the pump does with a command.
LEMMA CommandStep ==
    ASSUME QueueOK, TypeOK, PendingInv, Drained, Next,
           NEW c \in Call, Owned(c), PlaceInv(c), ProofInv(c),
           PumpRequest \/ PumpNotify \/ PumpCancel \/ DrainCommand
    PROVE  PlaceInv(c)' /\ ProofInv(c)'
  <1> DEFINE d == Head(commands).call
  <1>0. /\ c \in Ordinary /\ UNCHANGED <<idOf, Notification, Ordinary>>
        /\ RepliesOK /\ \A e \in Ordinary : idOf[e] = idOf[c] => e = c
        /\ pending \subseteq Ordinary /\ PlaceInv(c) /\ ProofInv(c)
    BY UseStays, TypeParts DEF Owned, OwnId, Ordinary, QueueOK
  <1>1. /\ commands # <<>> /\ commands' = Tail(commands) /\ SameCaller(c) /\ wire' = wire
        /\ Single(c)' /\ PlaceInv(c)
    <2>1. commands # <<>> /\ commands' = Tail(commands) /\ UNCHANGED callers /\ UNCHANGED wire
      BY DEF PumpRequest, PumpNotify, PumpCancel, DrainCommand, peer
    <2> QED
      BY <1>0, <2>1, TakenCommand DEF callers, SameCaller, PlaceInv
  <1>2. /\ d \in Call
        /\ Head(commands).kind \in {"request", "cancel"} => d \in Ordinary
        /\ Head(commands).kind = "request" => Head(commands) = Request(d)
        /\ Head(commands).kind = "cancel" => Head(commands) = Cancel(d)
        /\ Head(commands).kind = "notify" => d \in Notification
    BY <1>1, HeadOfCommands
  <1>3. /\ NotWritten # None /\ MayBe # None /\ Failed # None /\ NotWritten # MayBe
    BY EvidenceFacts
  <1>4. /\ Marked(c) <=> idOf[c] \in queued
        /\ Recalled(c) <=> idOf[c] \in withdrawn
        /\ Marked(c)' <=> idOf[c] \in queued'
        /\ Recalled(c)' <=> idOf[c] \in withdrawn'
    BY <1>0 DEF Marked, Recalled
  <1>5. d # c => (Queued(c)' <=> Queued(c)) /\ (Canceling(c)' <=> Canceling(c))
    BY <1>0, <1>1, TakenCommand
  <1>6. /\ Head(commands).kind = "request" /\ d = c =>
              Queued(c) /\ ~Queued(c)' /\ (Canceling(c)' <=> Canceling(c))
        /\ Head(commands).kind = "cancel" /\ d = c =>
              Canceling(c) /\ ~Canceling(c)' /\ (Queued(c)' <=> Queued(c))
    BY <1>0, <1>1, <1>2, TakenCommand DEF PlaceInv
  <1>7. d \in Ordinary /\ d # c => idOf[d] # idOf[c]
    BY <1>0
  <1>8. CASE PumpRequest
    <2>1. /\ pump = "select" /\ pump' = "popped" /\ current' = d /\ queued' = queued \ {idOf[d]}
          /\ UNCHANGED <<withdrawn, pending, resultCh, ackCh>> /\ Head(commands).kind = "request"
      BY <1>0, <1>8 DEF PumpRequest, replies
    <2>2. ~Popped(c) /\ ~Writing(c) /\ ~Writing(c)' /\ (Popped(c)' <=> d = c)
      BY <2>1 DEF Popped, Writing
    <2>3. CASE d = c
      BY <1>0, <1>1, <1>3, <1>4, <1>6, <2>1, <2>2, <2>3 DEF PlaceInv, ProofInv, SameCaller, Settled
    <2>4. CASE d # c
      <3>1. SameQueue(c) /\ SamePump(c) /\ SameReplies(c)
        BY <1>1, <1>2, <1>4, <1>5, <1>7, <2>1, <2>2, <2>4 DEF SameQueue, SamePump, SameReplies
      <3> QED
        BY <1>0, <1>1, <3>1, Undisturbed
    <2> QED
      BY <2>3, <2>4
  <1>9. CASE PumpNotify
    <2>1. /\ pump = "select" /\ pump' \in {"writing", "finish"} /\ current' = d /\ d # c
          /\ UNCHANGED <<queued, withdrawn, pending, ackCh>> /\ resultCh'[c] = resultCh[c]
      BY <1>0, <1>2, <1>9 DEF PumpNotify, ids, RepliesOK, Ordinary
    <2>2. SameQueue(c) /\ SamePump(c) /\ SameReplies(c)
      BY <1>1, <1>4, <1>5, <2>1 DEF SameQueue, SamePump, SameReplies, Popped, Writing
    <2> QED
      BY <1>0, <1>1, <2>2, Undisturbed
  <1>10. CASE PumpCancel
    <2>1. /\ pump = "select" /\ pump' \in {"select", "finish"} /\ Head(commands).kind = "cancel"
          /\ d \in Ordinary /\ resultCh' = resultCh
      BY <1>2, <1>10 DEF PumpCancel
    <2>2. ~Popped(c) /\ ~Writing(c) /\ ~Writing(c)' /\ ~Popped(c)'
      BY <2>1 DEF Popped, Writing
    <2>3. CASE d = c
      <3>1. PendingWith(idOf[c]) = {c} \/ (PendingWith(idOf[c]) = {} /\ c \notin pending)
        BY <1>0 DEF PendingWith
      <3>2. ~Queued(c) /\ ~Marked(c) /\ ackCh[c] = None
        BY <1>0, <1>6, <2>1, <2>3 DEF PlaceInv
      <3>3. ~Marked(c)'
        BY <1>4, <1>10, <2>3, <3>2 DEF PumpCancel, Release
      <3>4. \/ c \in pending /\ c \notin pending' /\ ackCh'[c] = MayBe
            \/ c \notin pending /\ c \notin pending' /\ ackCh'[c] \in {MayBe, NotWritten}
        BY <1>0, <1>10, <2>3, <3>1 DEF PumpCancel, RepliesOK
      <3> QED
        BY <1>0, <1>1, <1>3, <1>6, <2>1, <2>2, <2>3, <3>2, <3>3, <3>4 DEF PlaceInv, ProofInv, SameCaller, Settled
    <2>4. CASE d # c
      <3>1. /\ idOf[c] \in queued' <=> idOf[c] \in queued
            /\ idOf[c] \in withdrawn' <=> idOf[c] \in withdrawn
        BY <1>7, <1>10, <2>1, <2>4 DEF PumpCancel, Release
      <3>2. (c \in pending' <=> c \in pending) /\ ackCh'[c] = ackCh[c]
        BY <1>0, <1>7, <1>10, <2>1, <2>4 DEF PumpCancel, PendingWith, RepliesOK
      <3>3. SameQueue(c) /\ SamePump(c) /\ SameReplies(c)
        BY <1>1, <1>4, <1>5, <2>1, <2>2, <2>4, <3>1, <3>2 DEF SameQueue, SamePump, SameReplies
      <3> QED
        BY <1>0, <1>1, <3>3, Undisturbed
    <2> QED
      BY <2>3, <2>4
  <1>11. CASE DrainCommand
    <2>1. pump = "drain" /\ pump' = "drain" /\ pending = {} /\ pending' = pending
      BY <1>11 DEF DrainCommand, Drained
    <2>2. ~Popped(c) /\ ~Writing(c) /\ ~Writing(c)' /\ ~Popped(c)'
      BY <2>1 DEF Popped, Writing
    <2>3. CASE d = c /\ Head(commands).kind = "request"
      <3>1. /\ ~Marked(c)' /\ resultCh'[c] = NotWritten /\ ackCh'[c] = ackCh[c]
        BY <1>0, <1>4, <1>11, <2>3 DEF DrainCommand, Release, RepliesOK
      <3> QED
        BY <1>0, <1>1, <1>3, <1>6, <2>1, <2>2, <2>3, <3>1 DEF PlaceInv, ProofInv, SameCaller, Settled
    <2>4. CASE d = c /\ Head(commands).kind = "cancel"
      <3>1. /\ Marked(c)' <=> Marked(c)
            /\ Recalled(c)' <=> Recalled(c)
            /\ ackCh'[c] = NotWritten /\ resultCh'[c] = resultCh[c]
        BY <1>0, <1>4, <1>11, <2>4 DEF DrainCommand, RepliesOK
      <3> QED
        BY <1>0, <1>1, <1>3, <1>6, <2>1, <2>2, <2>4, <3>1 DEF PlaceInv, ProofInv, SameCaller, Settled
    <2>5. CASE d # c
      <3>1. /\ idOf[c] \in queued' <=> idOf[c] \in queued
            /\ idOf[c] \in withdrawn' <=> idOf[c] \in withdrawn
        BY <1>2, <1>7, <1>11, <2>5 DEF DrainCommand, Release
      <3>2. resultCh'[c] = resultCh[c] /\ ackCh'[c] = ackCh[c]
        BY <1>0, <1>11, <2>5 DEF DrainCommand, RepliesOK
      <3>3. SameQueue(c) /\ SamePump(c) /\ SameReplies(c)
        BY <1>1, <1>4, <1>5, <2>1, <2>2, <2>5, <3>1, <3>2 DEF SameQueue, SamePump, SameReplies
      <3> QED
        BY <1>0, <1>1, <3>3, Undisturbed
    <2> QED
      BY <1>0, <1>2, <1>11, <2>3, <2>4, <2>5 DEF DrainCommand, Ordinary
  <1> QED
    BY <1>8, <1>9, <1>10, <1>11

\* The write of a command and the end of a call.
LEMMA WriteStep ==
    ASSUME QueueOK, TypeOK, PendingInv, Next,
           NEW c \in Call, Owned(c), PlaceInv(c), ProofInv(c),
           BeginWrite \/ Written \/ WriteFailed
    PROVE  PlaceInv(c)' /\ ProofInv(c)'
  <1>0. /\ c \in Ordinary /\ c \notin Notification /\ UNCHANGED <<idOf, Notification, Ordinary>>
        /\ RepliesOK /\ \A e \in Ordinary : idOf[e] = idOf[c] => e = c
        /\ current \in Call /\ PlaceInv(c) /\ ProofInv(c)
    BY UseStays, TypeParts DEF Owned, OwnId, Ordinary, QueueOK, BeginWrite, Written, WriteFailed
  <1>1. UNCHANGED <<commands, current, ackCh>> /\ SameCaller(c)
    BY DEF BeginWrite, Written, WriteFailed, callers, SameCaller
  <1>2. /\ Single(c)' <=> Single(c)
        /\ Queued(c)' <=> Queued(c)
        /\ Canceling(c)' <=> Canceling(c)
    BY <1>0, <1>1 DEF Single, Queued, Canceling, Request, Cancel
  <1>3. /\ NotWritten # None /\ MayBe # None /\ NotWritten # MayBe
    BY EvidenceFacts
  <1>4. /\ Marked(c) <=> idOf[c] \in queued
        /\ Recalled(c) <=> idOf[c] \in withdrawn
        /\ Marked(c)' <=> idOf[c] \in queued'
        /\ Recalled(c)' <=> idOf[c] \in withdrawn'
    BY <1>0 DEF Marked, Recalled
  <1>5. ASSUME current # c PROVE PlaceInv(c)' /\ ProofInv(c)'
    <2>1. ~Popped(c) /\ ~Writing(c) /\ ~Writing(c)' /\ ~Popped(c)'
      BY <1>1, <1>5 DEF Popped, Writing
    <2>2. (c \in pending' <=> c \in pending) /\ (c \in wire' <=> c \in wire) /\ resultCh'[c] = resultCh[c]
      BY <1>0, <1>5 DEF BeginWrite, Written, WriteFailed, RepliesOK, peer
    <2>3. current \in Ordinary => idOf[current] # idOf[c]
      BY <1>0, <1>5
    <2>4. /\ idOf[c] \in queued' <=> idOf[c] \in queued
          /\ idOf[c] \in withdrawn' <=> idOf[c] \in withdrawn
      BY <1>0, <2>3 DEF BeginWrite, Written, WriteFailed, Release, ids, QueueOK, Ordinary
    <2>5. SameQueue(c) /\ SamePump(c) /\ SameReplies(c)
      BY <1>1, <1>2, <1>4, <2>1, <2>2, <2>4 DEF SameQueue, SamePump, SameReplies
    <2> QED
      BY <1>0, <1>1, <2>5, Undisturbed
  <1>6. ASSUME current = c, BeginWrite PROVE PlaceInv(c)' /\ ProofInv(c)'
    <2>1. /\ Popped(c) /\ ~Writing(c) /\ ~Popped(c)' /\ (Writing(c)' <=> pump' = "writing")
          /\ UNCHANGED <<pending, wire>>
      BY <1>1, <1>6 DEF Popped, Writing, BeginWrite, peer
    <2>2. /\ ~Queued(c) /\ ~Marked(c) /\ c \notin wire /\ c \notin pending /\ resultCh[c] = None /\ ackCh[c] = None
      BY <1>0, <2>1 DEF PlaceInv
    <2>3. ~Marked(c)'
      BY <1>4, <1>6, <2>2 DEF BeginWrite, Release
    <2>4. pump' = "writing" => ~Recalled(c) /\ resultCh'[c] = resultCh[c]
      BY <1>4, <1>6 DEF BeginWrite
    <2> QED
      BY <1>0, <1>1, <1>2, <1>3, <2>1, <2>2, <2>3, <2>4 DEF PlaceInv, ProofInv, SameCaller, Settled
  <1>7. ASSUME current = c, Written PROVE PlaceInv(c)' /\ ProofInv(c)'
    <2>1. /\ Writing(c) /\ ~Popped(c) /\ ~Popped(c)' /\ ~Writing(c)'
          /\ c \in pending' /\ c \in wire' /\ resultCh' = resultCh /\ UNCHANGED <<queued, withdrawn>>
      BY <1>0, <1>1, <1>7 DEF Popped, Writing, Written, ids
    <2>2. /\ ~Queued(c) /\ ~Marked(c) /\ resultCh[c] = None /\ ackCh[c] = None
      BY <1>0, <2>1 DEF PlaceInv
    <2>3. ~Marked(c)'
      BY <1>4, <2>1, <2>2
    <2> QED
      BY <1>0, <1>1, <1>2, <1>3, <2>1, <2>2, <2>3 DEF PlaceInv, ProofInv, SameCaller, Settled
  <1>8. ASSUME current = c, WriteFailed PROVE PlaceInv(c)' /\ ProofInv(c)'
    <2>1. /\ Writing(c) /\ ~Popped(c) /\ ~Popped(c)' /\ ~Writing(c)' /\ pending' = pending
      BY <1>0, <1>1, <1>8 DEF Popped, Writing, WriteFailed
    <2>2. /\ ~Queued(c) /\ ~Marked(c) /\ resultCh[c] = None /\ ackCh[c] = None /\ c \notin wire /\ c \notin pending
      BY <1>0, <2>1 DEF PlaceInv
    <2>3. ~Marked(c)'
      BY <1>0, <1>4, <1>8, <2>2 DEF WriteFailed, Release
    <2>4. resultCh'[c] = MayBe \/ (resultCh'[c] = NotWritten /\ c \notin wire')
      BY <1>0, <1>3, <1>8, <2>2 DEF WriteFailed, RepliesOK
    <2> QED
      BY <1>0, <1>1, <1>2, <1>3, <2>1, <2>2, <2>3, <2>4 DEF PlaceInv, ProofInv, SameCaller, Settled
  <1> QED
    BY <1>5, <1>6, <1>7, <1>8

\* A response, and the end of every pending call.
LEMMA AnswerStep ==
    ASSUME QueueOK, TypeOK, PendingInv, Next,
           NEW c \in Call, Owned(c), PlaceInv(c), ProofInv(c),
           PumpResponse \/ ResolvePending
    PROVE  PlaceInv(c)' /\ ProofInv(c)'
  <1>0. /\ c \in Ordinary /\ UNCHANGED <<idOf, Notification, Ordinary>>
        /\ RepliesOK /\ \A e \in Ordinary : idOf[e] = idOf[c] => e = c
        /\ pending \subseteq Ordinary /\ PlaceInv(c) /\ ProofInv(c)
    BY UseStays, TypeParts DEF Owned, OwnId, Ordinary, QueueOK
  <1>1. UNCHANGED <<commands, wire, ackCh>> /\ SameCaller(c)
    BY DEF PumpResponse, ResolvePending, callers, SameCaller, peer
  <1>2. /\ Single(c)' <=> Single(c)
        /\ Queued(c)' <=> Queued(c)
        /\ Canceling(c)' <=> Canceling(c)
    BY <1>0, <1>1 DEF Single, Queued, Canceling, Request, Cancel
  <1>3. /\ NotWritten # None /\ MayBe # None /\ NotWritten # MayBe
        /\ Response(c) # None /\ Response(c) # NotWritten
    BY EvidenceFacts
  <1>4. /\ Marked(c) <=> idOf[c] \in queued
        /\ Recalled(c) <=> idOf[c] \in withdrawn
        /\ Marked(c)' <=> idOf[c] \in queued'
        /\ Recalled(c)' <=> idOf[c] \in withdrawn'
    BY <1>0 DEF Marked, Recalled
  <1>5. ~Popped(c) /\ ~Writing(c) /\ ~Writing(c)' /\ ~Popped(c)'
    BY DEF PumpResponse, ResolvePending, Popped, Writing
  <1>6. ASSUME c \in pending, c \notin pending', resultCh'[c] \in {MayBe, Response(c)}, queued' \subseteq queued
        PROVE  PlaceInv(c)' /\ ProofInv(c)'
    <2>1. ~Queued(c) /\ ~Marked(c) /\ resultCh[c] = None /\ ackCh[c] = None /\ c \in wire
      BY <1>0, <1>6 DEF PlaceInv
    <2>2. ~Marked(c)'
      BY <1>4, <1>6, <2>1
    <2> QED
      BY <1>0, <1>1, <1>2, <1>3, <1>5, <1>6, <2>1, <2>2 DEF PlaceInv, ProofInv, SameCaller, Settled
  <1>7. ASSUME c \in pending' <=> c \in pending, resultCh'[c] = resultCh[c],
               idOf[c] \in queued' <=> idOf[c] \in queued,
               idOf[c] \in withdrawn' <=> idOf[c] \in withdrawn
        PROVE  PlaceInv(c)' /\ ProofInv(c)'
    <2>1. SameQueue(c) /\ SamePump(c) /\ SameReplies(c)
      BY <1>1, <1>2, <1>4, <1>5, <1>7 DEF SameQueue, SamePump, SameReplies
    <2> QED
      BY <1>0, <1>1, <2>1, Undisturbed
  <1>8. CASE ResolvePending
    <2>1. CASE c \in pending
      BY <1>0, <1>6, <1>8, <2>1 DEF ResolvePending
    <2>2. CASE c \notin pending
      <3>1. idOf[c] \notin { idOf[e] : e \in pending }
        BY <1>0, <2>2
      <3> QED
        BY <1>0, <1>7, <1>8, <2>2, <3>1 DEF ResolvePending
    <2> QED
      BY <2>1, <2>2
  <1>9. CASE PumpResponse
    <2> DEFINE d == Head(reads).call
    <2>1. /\ d \in pending /\ d \in Call /\ pending' = pending \ {d} /\ Release(idOf[d])
          /\ resultCh' = [resultCh EXCEPT ![d] = Response(d)]
      BY <1>9, HeadAnswer, HeadOfReads DEF PumpResponse
    <2>2. CASE d = c
      BY <1>0, <1>6, <2>1, <2>2 DEF Release, RepliesOK
    <2>3. CASE d # c
      <3>1. idOf[d] # idOf[c]
        BY <1>0, <2>1, <2>3
      <3> QED
        BY <1>0, <1>7, <2>1, <2>3, <3>1 DEF Release, RepliesOK
    <2> QED
      BY <2>2, <2>3
  <1> QED
    BY <1>8, <1>9

\* The rest of the pump, the reader and the consumer have nothing to do with it.
LEMMA RestStep ==
    ASSUME QueueOK, TypeOK, Next,
           NEW c \in Call, Owned(c), PlaceInv(c), ProofInv(c),
           \/ PumpNotice \/ PumpEnds \/ DrainReads \/ TestEvents \/ EvictEvent \/ Publish
           \/ ReadFrame \/ ReadFails \/ ReaderEnds \/ NextEvent \/ Close
    PROVE  PlaceInv(c)' /\ ProofInv(c)'
  <1>1. /\ UNCHANGED <<commands, queued, withdrawn, pc, phase, outcome, resultCh, ackCh, wire, pending>>
        /\ \/ UNCHANGED <<pump, current>>
           \/ pump \notin {"popped", "writing"} /\ pump' \notin {"popped", "writing"}
    BY DEF PumpNotice, PumpEnds, DrainReads, TestEvents, EvictEvent, Publish, ReadFrame, ReadFails, ReaderEnds,
       NextEvent, Close, callers, replies, ids, peer
  <1>2. SameQueue(c) /\ SamePump(c) /\ SameCaller(c) /\ SameReplies(c)
    BY <1>1, SameEasily, UseStays
  <1> QED
    BY <1>2, Undisturbed

LEMMA CallStepPreserves ==
    ASSUME QueueOK, TypeOK, NotifyInv, PendingInv, Drained, CallInv, Next
    PROVE  CallInv'
  <1>1. ASSUME NEW c \in Call, Owned(c)' PROVE Owned(c) /\ PlaceInv(c) /\ ProofInv(c)
    <2>1. Owned(c)
      BY <1>1, UseStays DEF Owned, OwnId
    <2> QED
      BY <2>1 DEF CallInv
  <1>2. ASSUME NEW c \in Call, Owned(c)' PROVE PlaceInv(c)' /\ ProofInv(c)'
    <2>0. Owned(c) /\ PlaceInv(c) /\ ProofInv(c)
      BY <1>1, <1>2
    <2>1. ASSUME NEW d \in Call, Start(d) \/ CallStep(d) \/ EndContext(d)
          PROVE  PlaceInv(c)' /\ ProofInv(c)'
      BY <2>0, <2>1, CallerStep, OtherCallerStep
    <2>2. CASE PumpRequest \/ PumpNotify \/ PumpCancel \/ DrainCommand
      BY <2>0, <2>2, CommandStep
    <2>3. CASE BeginWrite \/ Written \/ WriteFailed
      BY <2>0, <2>3, WriteStep
    <2>4. CASE PumpResponse \/ ResolvePending
      BY <2>0, <2>4, AnswerStep
    <2>5. CASE \/ PumpNotice \/ PumpEnds \/ DrainReads \/ TestEvents \/ EvictEvent \/ Publish
               \/ ReadFrame \/ ReadFails \/ ReaderEnds \/ NextEvent \/ Close
      BY <2>0, <2>5, RestStep
    <2> QED
      BY <2>1, <2>2, <2>3, <2>4, <2>5 DEF Next, PumpStep
  <1> QED
    BY <1>2 DEF CallInv

-----------------------------------------------------------------------------
(* The stream of notifications. *)

\* Everything that left the pump for the consumer: returned or still queued.
flow == seen \o events
Kept == taken - lost

\* The end of the stream, io.EOF included.
Terminal == (IF lost > 0 THEN <<[kind |-> "gap", n |-> lost]>> ELSE <<>>)
                \o <<[kind |-> "disconnected", n |-> 0], [kind |-> "eof", n |-> 0]>>

\* The notifications that were not lost, and after the end of the pump its
\* terminal evidence.
FlowInv ==
    /\ lost <= taken /\ Kept <= Len(flow)
    /\ closed <=> pump = "stopped"
    /\ \A j \in DOMAIN flow : flow[j].kind = "notice" <=> j <= Kept
    /\ ~closed => Len(flow) = Kept
    /\ closed => /\ Len(flow) \in {Kept + Len(Terminal) - 1, Kept + Len(Terminal)}
                 /\ \A j \in DOMAIN flow : j > Kept => flow[j] = Terminal[j - Kept]

\* The notifications in a queue are in order, precede those of another, and
\* have at most some number.
Rising(s)    == \A j, k \in DOMAIN s : s[j].kind = "notice" /\ s[k].kind = "notice" /\ j < k => s[j].n < s[k].n
Precede(s, t) == \A j \in DOMAIN s, k \in DOMAIN t : s[j].kind = "notice" /\ t[k].kind = "notice" => s[j].n < t[k].n
AtMost(s, m) == \A j \in DOMAIN s : s[j].kind = "notice" => s[j].n <= m

OrderInv == /\ Rising(flow) /\ Rising(reads) /\ Precede(flow, reads)
            /\ AtMost(flow, notices) /\ AtMost(reads, notices)

LEMMA FlowFacts ==
    ASSUME NEW s \in Seq(Events), NEW e \in Seq(Events)
    PROVE  /\ s \o e \in Seq(Events) /\ Len(s \o e) = Len(s) + Len(e)
           /\ Len(s) \in Nat /\ Len(e) \in Nat /\ DOMAIN s = 1..Len(s) /\ DOMAIN e = 1..Len(e)
           /\ DOMAIN (s \o e) = 1..(Len(s) + Len(e))
           /\ \A j \in 1..(Len(s) + Len(e)) : (s \o e)[j] = IF j <= Len(s) THEN s[j] ELSE e[j - Len(s)]
  OBVIOUS

LEMMA FlowMoves ==
    ASSUME NEW s \in Seq(Events), NEW e \in Seq(Events), NEW x \in Events
    PROVE  /\ s \o Append(e, x) = Append(s \o e, x)
           /\ e # <<>> => Append(s, Head(e)) \o Tail(e) = s \o e
           /\ e = <<>> => Append(s, x) \o e = Append(s \o e, x) /\ s \o e = s
  <1>1. /\ s \o e \in Seq(Events) /\ Append(e, x) \in Seq(Events) /\ Append(s, x) \in Seq(Events)
        /\ Append(s \o e, x) \in Seq(Events) /\ s \o Append(e, x) \in Seq(Events)
    BY AppendFacts, FlowFacts
  <1>2. s \o Append(e, x) = Append(s \o e, x)
    <2>1. Len(s \o Append(e, x)) = Len(s) + Len(e) + 1 /\ Len(Append(s \o e, x)) = Len(s) + Len(e) + 1
      BY <1>1, AppendFacts, FlowFacts
    <2>2. \A j \in 1..(Len(s) + Len(e) + 1) : (s \o Append(e, x))[j] = Append(s \o e, x)[j]
      OBVIOUS
    <2> QED
      BY <1>1, <2>1, <2>2, SeqEqual
  <1>3. ASSUME e # <<>> PROVE Append(s, Head(e)) \o Tail(e) = s \o e
    <2>1. /\ Head(e) \in Events /\ Tail(e) \in Seq(Events) /\ Len(Tail(e)) = Len(e) - 1
          /\ Append(s, Head(e)) \in Seq(Events) /\ Len(Append(s, Head(e))) = Len(s) + 1
      BY <1>3, AppendFacts, TailFacts
    <2>2. /\ Append(s, Head(e)) \o Tail(e) \in Seq(Events)
          /\ Len(Append(s, Head(e)) \o Tail(e)) = Len(s) + Len(e) /\ Len(s \o e) = Len(s) + Len(e)
      BY <1>1, <2>1, FlowFacts
    <2>3. \A j \in 1..(Len(s) + Len(e)) : (Append(s, Head(e)) \o Tail(e))[j] = (s \o e)[j]
      BY <1>3
    <2> QED
      BY <1>1, <2>2, <2>3, SeqEqual
  <1>4. ASSUME e = <<>> PROVE Append(s, x) \o e = Append(s \o e, x) /\ s \o e = s
    BY <1>1, <1>4, ConcatEmptySeq
  <1> QED
    BY <1>2, <1>3, <1>4

LEMMA OrderTail ==
    ASSUME NEW S, NEW T, NEW s \in Seq(S), NEW t \in Seq(T), t # <<>>, NEW m
    PROVE  /\ Rising(t) => Rising(Tail(t))
           /\ Precede(s, t) => Precede(s, Tail(t))
           /\ AtMost(t, m) => AtMost(Tail(t), m)
  <1>1. /\ \A n \in DOMAIN Tail(t) : n + 1 \in DOMAIN t /\ Tail(t)[n] = t[n + 1] /\ n \in Nat
    BY TailFacts
  <1>2. Rising(t) => Rising(Tail(t))
    BY <1>1 DEF Rising
  <1>3. Precede(s, t) => Precede(s, Tail(t))
    BY <1>1 DEF Precede
  <1>4. AtMost(t, m) => AtMost(Tail(t), m)
    BY <1>1 DEF AtMost
  <1> QED
    BY <1>2, <1>3, <1>4

LEMMA OrderAppend ==
    ASSUME NEW S, NEW T, NEW s \in Seq(S), NEW t \in Seq(T), NEW x \in T, NEW m \in Nat
    PROVE  /\ Rising(t) /\ (x.kind = "notice" => \A j \in DOMAIN t : t[j].kind = "notice" => t[j].n < x.n)
                => Rising(Append(t, x))
           /\ Precede(s, t) /\ (x.kind = "notice" => \A j \in DOMAIN s : s[j].kind = "notice" => s[j].n < x.n)
                => Precede(s, Append(t, x))
           /\ Precede(t, s) /\ (x.kind = "notice" => \A j \in DOMAIN s : s[j].kind = "notice" => x.n < s[j].n)
                => Precede(Append(t, x), s)
           /\ AtMost(t, m) /\ (x.kind = "notice" => x.n <= m) => AtMost(Append(t, x), m)
  <1>1. /\ \A n \in DOMAIN Append(t, x) : \/ n \in DOMAIN t /\ Append(t, x)[n] = t[n] /\ n <= Len(t)
                                          \/ n = Len(t) + 1 /\ Append(t, x)[n] = x
        /\ Len(t) \in Nat /\ DOMAIN t = 1..Len(t)
    BY AppendFacts
  <1>2. ASSUME Rising(t), x.kind = "notice" => \A j \in DOMAIN t : t[j].kind = "notice" => t[j].n < x.n
        PROVE  Rising(Append(t, x))
    BY <1>1, <1>2 DEF Rising
  <1>3. ASSUME Precede(s, t), x.kind = "notice" => \A j \in DOMAIN s : s[j].kind = "notice" => s[j].n < x.n
        PROVE  Precede(s, Append(t, x))
    BY <1>1, <1>3 DEF Precede
  <1>4. ASSUME Precede(t, s), x.kind = "notice" => \A j \in DOMAIN s : s[j].kind = "notice" => x.n < s[j].n
        PROVE  Precede(Append(t, x), s)
    BY <1>1, <1>4 DEF Precede
  <1>5. ASSUME AtMost(t, m), x.kind = "notice" => x.n <= m
        PROVE  AtMost(Append(t, x), m)
    BY <1>1, <1>5 DEF AtMost
  <1> QED
    BY <1>2, <1>3, <1>4, <1>5

\* A step that leaves the consumer's stream alone.
StreamStays ==
    /\ UNCHANGED <<seen, events, taken, lost, closed>>
    /\ pump' = "stopped" <=> pump = "stopped"

LEMMA StaysFacts ==
    ASSUME StreamStays
    PROVE  flow' = flow /\ (FlowInv => FlowInv')
  BY DEF StreamStays, flow, FlowInv, Kept, Terminal

LEMMA StaysCases ==
    ASSUME Next
    PROVE  \/ StreamStays /\ UNCHANGED <<reads, notices>>
           \/ StreamStays /\ (PumpResponse \/ PumpEnds \/ DrainReads \/ ReadFrame \/ ReaderEnds)
           \/ PumpNotice \/ EvictEvent \/ Publish \/ NextEvent
  <1>1. ASSUME NEW c \in Call, Start(c) \/ CallStep(c) \/ EndContext(c)
        PROVE  StreamStays /\ UNCHANGED <<reads, notices>>
    BY <1>1 DEF Start, CallStep, EndContext, Enqueue, Await, Withdraw, CancelWrite, SendCancel, AwaitAck,
       Withdrawn, AwaitNotify, CutAny, StreamStays, stream, peer
  <1>2. ASSUME \/ PumpRequest \/ PumpNotify \/ BeginWrite \/ PumpCancel \/ ResolvePending \/ DrainCommand
               \/ TestEvents \/ Written \/ WriteFailed \/ ReadFails \/ Close
        PROVE  StreamStays /\ UNCHANGED <<reads, notices>>
    BY <1>2 DEF PumpRequest, PumpNotify, BeginWrite, PumpCancel, ResolvePending, DrainCommand,
       TestEvents, Written, WriteFailed, ReadFails, Close, StreamStays, stream, peer
  <1>3. ASSUME PumpResponse \/ PumpEnds \/ DrainReads \/ ReadFrame \/ ReaderEnds
        PROVE  StreamStays
    BY <1>3 DEF PumpResponse, PumpEnds, DrainReads, ReadFrame, ReaderEnds, StreamStays, stream
  <1> QED
    BY <1>1, <1>2, <1>3 DEF Next, PumpStep

LEMMA JoinFacts ==
    \A a, b, c \in Events : /\ <<a>> \o <<b>> = <<a, b>> /\ <<a>> \o <<b, c>> = <<a, b, c>>
                            /\ <<>> \o <<b>> = <<b>> /\ <<>> \o <<b, c>> = <<b, c>>
  <1> DEFINE S == Events
  <1>0. TAKE a, b, c \in Events
  <1>1. <<a>> \in Seq(S) /\ <<b>> \in Seq(S) /\ <<a, b>> \in Seq(S) /\ <<b, c>> \in Seq(S) /\ <<a, b, c>> \in Seq(S)
    OBVIOUS
  <1>2. <<a>> \o <<b>> = <<a, b>>
    <2>1. /\ <<a>> \o <<b>> \in Seq(S) /\ Len(<<a>> \o <<b>>) = 2 /\ Len(<<a, b>>) = 2
          /\ (<<a>> \o <<b>>)[1] = a /\ (<<a>> \o <<b>>)[2] = b
      BY <1>1, ConcatProperties
    <2>2. \A i \in 1..2 : (<<a>> \o <<b>>)[i] = <<a, b>>[i]
      BY <2>1
    <2> QED
      BY <1>1, <2>1, <2>2, SeqEqual
  <1>3. <<a>> \o <<b, c>> = <<a, b, c>>
    <2>1. /\ <<a>> \o <<b, c>> \in Seq(S) /\ Len(<<a>> \o <<b, c>>) = 3 /\ Len(<<a, b, c>>) = 3
          /\ (<<a>> \o <<b, c>>)[1] = a /\ (<<a>> \o <<b, c>>)[2] = b /\ (<<a>> \o <<b, c>>)[3] = c
      BY <1>1, ConcatProperties
    <2>2. \A i \in 1..3 : (<<a>> \o <<b, c>>)[i] = <<a, b, c>>[i]
      BY <2>1
    <2> QED
      BY <1>1, <2>1, <2>2, SeqEqual
  <1> QED
    BY <1>1, <1>2, <1>3, ConcatEmptySeq

\* The parts of the terminal evidence.
Gap  == [kind |-> "gap", n |-> lost]
Gone == [kind |-> "disconnected", n |-> 0]
Eof  == [kind |-> "eof", n |-> 0]

LEMMA TerminalFacts ==
    ASSUME lost \in Nat
    PROVE  /\ Gap \in Events /\ Gone \in Events /\ Eof \in Events
           /\ lost > 0 => Terminal = <<Gap, Gone, Eof>> /\ Len(Terminal) = 3
           /\ ~(lost > 0) => Terminal = <<Gone, Eof>> /\ Len(Terminal) = 2
           /\ Len(Terminal) \in {2, 3} /\ Terminal[Len(Terminal)] = Eof
           /\ \A j \in 1..Len(Terminal) : Terminal[j].kind # "notice"
  <1>1. Gap \in Events /\ Gone \in Events /\ Eof \in Events
    BY EventFacts DEF Gap, Gone, Eof
  <1>2. Gap.kind # "notice" /\ Gone.kind # "notice" /\ Eof.kind # "notice"
    BY DEF Gap, Gone, Eof
  <1>3. Terminal = (IF lost > 0 THEN <<Gap>> ELSE <<>>) \o <<Gone, Eof>>
    BY DEF Terminal, Gap, Gone, Eof
  <1>4. <<Gap>> \o <<Gone, Eof>> = <<Gap, Gone, Eof>> /\ <<>> \o <<Gone, Eof>> = <<Gone, Eof>>
    BY <1>1, JoinFacts
  <1>5. CASE lost > 0
    <2>1. Terminal = <<Gap, Gone, Eof>>
      BY <1>3, <1>4, <1>5
    <2>2. Len(Terminal) = 3 /\ Terminal[1] = Gap /\ Terminal[2] = Gone /\ Terminal[3] = Eof
      BY <2>1
    <2>3. \A j \in 1..3 : Terminal[j].kind # "notice"
      BY <1>2, <2>2
    <2> QED
      BY <1>1, <1>5, <2>1, <2>2, <2>3
  <1>6. CASE ~(lost > 0)
    <2>1. Terminal = <<Gone, Eof>>
      BY <1>3, <1>4, <1>6
    <2>2. Len(Terminal) = 2 /\ Terminal[1] = Gone /\ Terminal[2] = Eof
      BY <2>1
    <2>3. \A j \in 1..2 : Terminal[j].kind # "notice"
      BY <1>2, <2>2
    <2> QED
      BY <1>1, <1>6, <2>1, <2>2, <2>3
  <1> QED
    BY <1>5, <1>6

LEMMA FlowTypes ==
    ASSUME QueueOK
    PROVE  /\ seen \in Seq(Events) /\ events \in Seq(Events) /\ flow \in Seq(Events)
           /\ taken \in Nat /\ lost \in Nat
           /\ Len(flow) \in Nat /\ Len(seen) \in Nat /\ Len(events) \in Nat
           /\ Len(flow) = Len(seen) + Len(events)
           /\ DOMAIN flow = 1..Len(flow) /\ DOMAIN events = 1..Len(events) /\ DOMAIN seen = 1..Len(seen)
           /\ \A j \in DOMAIN flow : flow[j] = IF j <= Len(seen) THEN seen[j] ELSE events[j - Len(seen)]
  <1>1. seen \in Seq(Events) /\ events \in Seq(Events) /\ taken \in Nat /\ lost \in Nat
    BY DEF QueueOK
  <1> QED
    BY <1>1, FlowFacts DEF flow

\* The eviction of an event takes one out of the middle of the flow.
LEMMA Evicted ==
    ASSUME QueueOK, EvictEvent
    PROVE  /\ Len(events) > 0 /\ Len(flow') = Len(flow) - 1 /\ DOMAIN flow' = 1..(Len(flow) - 1)
           /\ \A j \in DOMAIN flow' : \/ j <= Len(seen) /\ j \in DOMAIN flow /\ flow'[j] = flow[j]
                                      \/ j > Len(seen) /\ j + 1 \in DOMAIN flow /\ flow'[j] = flow[j + 1]
  <1>0. /\ seen \in Seq(Events) /\ events \in Seq(Events)
    BY FlowTypes
  <1>1. /\ DOMAIN flow = 1..Len(flow)
        /\ \A j \in DOMAIN flow : flow[j] = IF j <= Len(seen) THEN seen[j] ELSE events[j - Len(seen)]
    BY FlowTypes
  <1>n. /\ Len(flow) \in Nat /\ Len(seen) \in Nat /\ Len(events) \in Nat /\ Len(flow) = Len(seen) + Len(events)
    BY FlowTypes
  <1>2. seen' = seen /\ events # <<>> /\ events' = Tail(events)
    BY DEF EvictEvent
  <1>3. /\ Tail(events) \in Seq(Events) /\ Len(Tail(events)) = Len(events) - 1 /\ Len(events) > 0
        /\ \A n \in 1..(Len(events) - 1) : Tail(events)[n] = events[n + 1]
    BY <1>0, <1>2, TailFacts
  <1>4. /\ Len(flow') = Len(flow) - 1 /\ DOMAIN flow' = 1..(Len(flow) - 1)
        /\ \A j \in DOMAIN flow' : flow'[j] = IF j <= Len(seen) THEN seen[j] ELSE Tail(events)[j - Len(seen)]
    BY <1>0, <1>n, <1>2, <1>3, FlowFacts DEF flow
  <1>5. ASSUME NEW j \in 1..(Len(flow) - 1)
        PROVE  \/ j <= Len(seen) /\ j \in DOMAIN flow /\ flow'[j] = flow[j]
               \/ j > Len(seen) /\ j + 1 \in DOMAIN flow /\ flow'[j] = flow[j + 1]
    <2>1. j \in 1..Len(flow) /\ j + 1 \in 1..Len(flow) /\ (~(j <= Len(seen)) => ~(j + 1 <= Len(seen)) /\ j > Len(seen))
      BY <1>n
    <2>2. ~(j <= Len(seen)) => j - Len(seen) \in 1..(Len(events) - 1) /\ j + 1 - Len(seen) = j - Len(seen) + 1
      BY <1>n
    <2>3. ~(j <= Len(seen)) => Tail(events)[j - Len(seen)] = events[j + 1 - Len(seen)]
      BY <1>3, <2>2
    <2>4. CASE j <= Len(seen)
      BY <1>1, <1>4, <2>1, <2>4
    <2>5. CASE ~(j <= Len(seen))
      <3>1. flow'[j] = Tail(events)[j - Len(seen)]
        BY <1>4, <2>5
      <3>2. flow[j + 1] = events[j + 1 - Len(seen)]
        BY <1>1, <2>1, <2>5
      <3> QED
        BY <1>1, <2>1, <2>3, <2>5, <3>1, <3>2
    <2> QED
      BY <2>4, <2>5
  <1>6. \A j \in DOMAIN flow' : \/ j <= Len(seen) /\ j \in DOMAIN flow /\ flow'[j] = flow[j]
                                \/ j > Len(seen) /\ j + 1 \in DOMAIN flow /\ flow'[j] = flow[j + 1]
    <2>0. TAKE j \in DOMAIN flow'
    <2>1. j \in 1..(Len(flow) - 1)
      BY <1>4
    <2> QED
      BY <1>5, <2>1
  <1>7. Len(events) > 0 /\ Len(flow') = Len(flow) - 1 /\ DOMAIN flow' = 1..(Len(flow) - 1)
    BY <1>3, <1>4, Zenon
  <1> QED
    BY <1>6, <1>7, Zenon

\* The end of the pump adds the terminal evidence, io.EOF excluded.
LEMMA Published ==
    ASSUME QueueOK, Publish
    PROVE  /\ Len(flow) = Len(seen) /\ Len(flow') = Len(flow) + Len(Terminal) - 1
           /\ DOMAIN flow' = 1..(Len(flow) + Len(Terminal) - 1) /\ Len(Terminal) \in {2, 3}
           /\ \A j \in DOMAIN flow' : \/ j <= Len(flow) /\ j \in DOMAIN flow /\ flow'[j] = flow[j]
                                      \/ /\ j > Len(flow) /\ j - Len(flow) \in 1..Len(Terminal)
                                         /\ flow'[j] = Terminal[j - Len(flow)]
  <1>0. seen \in Seq(Events) /\ lost \in Nat
    BY FlowTypes
  <1>1. /\ DOMAIN flow = 1..Len(flow)
        /\ \A j \in DOMAIN flow : flow[j] = IF j <= Len(seen) THEN seen[j] ELSE events[j - Len(seen)]
    BY FlowTypes
  <1>2. events = <<>> /\ seen' = seen
    BY DEF Publish, QueueOK
  <1>n. Len(flow) \in Nat /\ Len(flow) = Len(seen)
    BY <1>2, FlowTypes
  <1>3. Len(Terminal) \in {2, 3}
    BY <1>0, TerminalFacts
  <1>4. /\ events' \in Seq(Events) /\ Len(events') = Len(Terminal) - 1
        /\ \A j \in 1..(Len(Terminal) - 1) : events'[j] = Terminal[j]
    <2>1. events' = (IF lost > 0 THEN <<Gap, Gone>> ELSE <<Gone>>)
      <3>1. events' = <<>> \o (IF lost > 0 THEN <<Gap>> ELSE <<>>) \o <<Gone>>
        BY <1>2 DEF Publish, Gap, Gone
      <3>2. Gap \in Events /\ Gone \in Events
        BY <1>0, TerminalFacts
      <3>3. /\ <<Gap>> \in Seq(Events) /\ <<>> \in Seq(Events) /\ <<Gone>> \in Seq(Events)
        BY <3>2
      <3>4. <<>> \o <<Gap>> = <<Gap>> /\ <<>> \o <<>> = <<>> /\ <<>> \o <<Gone>> = <<Gone>> /\ <<Gap>> \o <<Gone>> = <<Gap, Gone>>
        BY <3>2, <3>3, ConcatEmptySeq, JoinFacts
      <3> QED
        BY <3>1, <3>4
    <2>2. CASE lost > 0
      <3>1. events' = <<Gap, Gone>> /\ Terminal = <<Gap, Gone, Eof>> /\ Gap \in Events /\ Gone \in Events
        BY <1>0, <2>1, <2>2, TerminalFacts
      <3> QED
        BY <3>1
    <2>3. CASE ~(lost > 0)
      <3>1. events' = <<Gone>> /\ Terminal = <<Gone, Eof>> /\ Gone \in Events
        BY <1>0, <2>1, <2>3, TerminalFacts
      <3> QED
        BY <3>1
    <2> QED
      BY <2>2, <2>3
  <1>5. flow' = seen \o events'
    BY <1>2 DEF flow
  <1>6. /\ Len(flow') = Len(seen) + Len(events') /\ DOMAIN flow' = 1..(Len(seen) + Len(events'))
        /\ \A j \in 1..(Len(seen) + Len(events')) : flow'[j] = IF j <= Len(seen) THEN seen[j] ELSE events'[j - Len(seen)]
    BY <1>0, <1>4, <1>5, FlowFacts
  <1>7. Len(seen) + Len(events') = Len(flow) + Len(Terminal) - 1
    BY <1>n, <1>3, <1>4
  <1>8. ASSUME NEW j \in 1..(Len(flow) + Len(Terminal) - 1)
        PROVE  \/ j <= Len(flow) /\ j \in DOMAIN flow /\ flow'[j] = flow[j]
               \/ /\ j > Len(flow) /\ j - Len(flow) \in 1..Len(Terminal)
                  /\ flow'[j] = Terminal[j - Len(flow)]
    <2>1. j <= Len(flow) => j \in 1..Len(flow)
      BY <1>n
    <2>2. ~(j <= Len(flow)) => j > Len(flow) /\ j - Len(flow) \in 1..(Len(Terminal) - 1) /\ j - Len(flow) \in 1..Len(Terminal)
      BY <1>n, <1>3
    <2>3. flow'[j] = IF j <= Len(flow) THEN seen[j] ELSE events'[j - Len(flow)]
      BY <1>n, <1>6, <1>7
    <2>4. CASE j <= Len(flow)
      BY <1>1, <1>n, <2>1, <2>3, <2>4
    <2>5. CASE ~(j <= Len(flow))
      BY <1>4, <2>2, <2>3, <2>5
    <2> QED
      BY <2>4, <2>5
  <1>9. DOMAIN flow' = 1..(Len(flow) + Len(Terminal) - 1) /\ Len(flow') = Len(flow) + Len(Terminal) - 1
    BY <1>6, <1>7
  <1> QED
    BY <1>n, <1>3, <1>8, <1>9

\* NextEvent moves an event within the flow, or adds io.EOF.
LEMMA Returned ==
    ASSUME QueueOK, NextEvent
    PROVE  \/ flow' = flow
           \/ /\ closed /\ flow' = Append(flow, Eof) /\ flow = seen
              /\ seen = <<>> \/ seen[Len(seen)].kind # "eof"
  <1>0. /\ seen \in Seq(Events) /\ events \in Seq(Events) /\ Eof \in Events
    BY FlowTypes, TerminalFacts
  <1>1. CASE events # <<>> /\ seen' = Append(seen, Head(events)) /\ events' = Tail(events)
    BY <1>0, <1>1, FlowMoves DEF flow
  <1>2. CASE /\ events = <<>> /\ closed /\ events' = events
             /\ seen = <<>> \/ seen[Len(seen)].kind # "eof"
             /\ seen' = Append(seen, [kind |-> "eof", n |-> 0])
    BY <1>0, <1>2, FlowMoves DEF flow, Eof
  <1> QED
    BY <1>1, <1>2 DEF NextEvent

LEMMA FlowStep ==
    ASSUME QueueOK, TypeOK, FlowInv, Next
    PROVE  FlowInv'
  <1>0. /\ seen \in Seq(Events) /\ events \in Seq(Events) /\ flow \in Seq(Events)
        /\ taken \in Nat /\ lost \in Nat /\ Kept \in Nat /\ FlowInv
    BY FlowTypes DEF FlowInv, Kept
  <1>1. DOMAIN flow = 1..Len(flow)
    BY FlowTypes
  <1>n. /\ Len(flow) \in Nat /\ Len(seen) \in Nat /\ Len(events) \in Nat /\ Kept \in Nat
        /\ Len(flow) = Len(seen) + Len(events)
    BY <1>0, FlowTypes
  <1>2. CASE PumpNotice
    <2>1. /\ pump = "select" /\ pump' # "stopped" /\ closed' = closed /\ taken' = taken + 1 /\ ~closed
      BY <1>2 DEF PumpNotice, FlowInv
    <2>2. CASE events' = Append(events, [kind |-> "notice", n |-> Head(reads).n]) /\ lost' = lost
      <3> DEFINE x == [kind |-> "notice", n |-> Head(reads).n]
      <3>1. x \in Events /\ seen' = seen
        BY <1>2, HeadOfReads DEF PumpNotice
      <3>2. flow' = Append(flow, x)
        BY <1>0, <2>2, <3>1, FlowMoves DEF flow
      <3>3. Kept' = Kept + 1
        BY <1>0, <2>1, <2>2 DEF Kept
      <3>4. /\ Len(flow') = Len(flow) + 1 /\ DOMAIN flow' = 1..(Len(flow) + 1)
            /\ \A j \in 1..Len(flow) : flow'[j] = flow[j]
            /\ flow'[Len(flow) + 1] = x
        BY <1>0, <1>1, <3>1, <3>2, AppendFacts
      <3>5. \A j \in DOMAIN flow' : flow'[j].kind = "notice" <=> j <= Kept'
        BY <1>0, <1>1, <2>1, <3>3, <3>4 DEF FlowInv
      <3>6. Len(flow) = Kept
        BY <1>0, <2>1 DEF FlowInv
      <3>7. lost' <= taken' /\ Kept' <= Len(flow') /\ Len(flow') = Kept'
        BY <1>0, <2>1, <2>2, <3>3, <3>4, <3>6 DEF Kept
      <3> QED
        BY <2>1, <3>5, <3>7 DEF FlowInv
    <2>3. CASE events' = events /\ lost' = lost + 1
      <3>1. flow' = flow
        BY <1>2, <2>3 DEF PumpNotice, flow
      <3>2. Kept' = Kept
        BY <1>0, <2>1, <2>3 DEF Kept
      <3> QED
        BY <1>0, <2>1, <2>3, <3>1, <3>2 DEF FlowInv
    <2> QED
      BY <1>2, <2>2, <2>3 DEF PumpNotice
  <1>3. CASE EvictEvent
    <2>1. /\ pump' # "stopped" /\ closed' = closed /\ ~closed /\ taken' = taken /\ lost' = lost + 1
      BY <1>3 DEF EvictEvent, FlowInv
    <2>2. Len(events) > 0 /\ Len(flow') = Len(flow) - 1 /\ DOMAIN flow' = 1..(Len(flow) - 1)
      BY <1>3, Evicted
    <2>3. Kept' = Kept - 1 /\ Len(flow) = Kept
      BY <1>0, <2>1 DEF Kept, FlowInv
    <2>4. \A j \in DOMAIN flow : flow[j].kind = "notice"
      BY <1>n, <1>1, <2>3 DEF FlowInv
    <2>5. \A j \in DOMAIN flow' : flow'[j].kind = "notice" /\ j <= Kept'
      <3>1. \A j \in DOMAIN flow' : j <= Kept'
        BY <1>n, <2>2, <2>3
      <3>2. \A j \in DOMAIN flow' : flow'[j].kind = "notice"
        BY <1>3, <2>4, Evicted
      <3> QED
        BY <3>1, <3>2
    <2>6. lost' <= taken' /\ Kept' <= Len(flow') /\ Len(flow') = Kept'
      BY <1>0, <1>n, <2>1, <2>2, <2>3 DEF Kept
    <2> QED
      BY <2>1, <2>5, <2>6 DEF FlowInv
  <1>4. CASE Publish
    <2>1. /\ pump = "publish" /\ pump' = "stopped" /\ closed' = TRUE /\ ~closed /\ UNCHANGED <<taken, lost>>
      BY <1>4 DEF Publish, FlowInv
    <2>2. Kept' = Kept /\ Terminal' = Terminal /\ Len(flow) = Kept /\ lost' <= taken'
      BY <2>1 DEF Kept, Terminal, FlowInv
    <2>3. Len(flow') = Kept + Len(Terminal) - 1 /\ Len(Terminal) \in {2, 3}
      BY <1>4, <2>2, Published
    <2>4. \A j \in DOMAIN flow' : \/ j <= Kept /\ j \in DOMAIN flow /\ flow'[j] = flow[j]
                                  \/ /\ j > Kept /\ j \in Nat /\ j - Kept \in 1..Len(Terminal)
                                     /\ flow'[j] = Terminal[j - Kept]
      BY <1>4, <2>2, Published
    <2>5. \A j \in DOMAIN flow' : flow'[j].kind = "notice" <=> j <= Kept
      BY <1>0, <2>4, TerminalFacts DEF FlowInv
    <2>6. \A j \in DOMAIN flow' : j > Kept => flow'[j] = Terminal[j - Kept]
      BY <1>0, <2>4
    <2>7. Kept <= Len(flow')
      BY <1>n, <2>3
    <2> QED
      BY <2>1, <2>2, <2>3, <2>5, <2>6, <2>7 DEF FlowInv
  <1>5. CASE NextEvent
    <2>1. UNCHANGED <<taken, lost, closed, pump>> /\ Kept' = Kept /\ Terminal' = Terminal
      BY <1>5 DEF NextEvent, Kept, Terminal
    <2>2. ASSUME flow' = flow PROVE FlowInv'
      BY <1>0, <2>1, <2>2 DEF FlowInv
    <2>4. CASE /\ closed /\ flow' = Append(flow, Eof) /\ flow = seen
               /\ seen = <<>> \/ seen[Len(seen)].kind # "eof"
      <3> DEFINE x == Eof
      <3>1. x \in Events
        BY <1>0, TerminalFacts
      <3>2. flow' = Append(flow, x) /\ flow = seen
        BY <2>4
      <3>3. Len(Terminal) \in {2, 3} /\ Terminal[Len(Terminal)] = x
        BY <1>0, TerminalFacts
      <3>4. Len(flow) = Kept + Len(Terminal) - 1
        <4>1. ASSUME Len(flow) = Kept + Len(Terminal) PROVE FALSE
          <5>1. Len(flow) > Kept /\ Len(flow) \in DOMAIN flow /\ Len(flow) - Kept = Len(Terminal)
            <6>1. Len(flow) > Kept /\ Len(flow) - Kept = Len(Terminal)
              BY <1>n, <3>3, <4>1
            <6>2. Len(flow) \in 1..Len(flow)
              BY <1>n, <6>1
            <6> QED
              BY <1>1, <6>1, <6>2
          <5>2. flow[Len(flow)] = x
            BY <1>0, <2>4, <3>3, <5>1 DEF FlowInv
          <5>3. seen # <<>>
            BY <1>0, <3>2, <5>1
          <5> QED
            BY <2>4, <3>2, <5>2, <5>3 DEF Eof
        <4> QED
          BY <1>0, <2>4, <4>1 DEF FlowInv
      <3>5. /\ Len(flow') = Len(flow) + 1 /\ DOMAIN flow' = 1..(Len(flow) + 1)
            /\ \A j \in 1..Len(flow) : flow'[j] = flow[j]
            /\ flow'[Len(flow) + 1] = x
        BY <1>0, <1>1, <3>1, <3>2, AppendFacts
      <3>6. \A j \in DOMAIN flow' : j > Kept => flow'[j] = Terminal[j - Kept]
        <4>1. TAKE j \in DOMAIN flow'
        <4>2. CASE j \in 1..Len(flow)
          BY <1>0, <1>1, <2>4, <3>5, <4>2 DEF FlowInv
        <4>3. CASE j = Len(flow) + 1
          <5>1. j - Kept = Len(Terminal)
            BY <1>0, <3>3, <3>4, <4>3
          <5> QED
            BY <3>3, <3>5, <4>3, <5>1
        <4> QED
          BY <1>0, <3>5, <4>2, <4>3
      <3>7. \A j \in DOMAIN flow' : flow'[j].kind = "notice" <=> j <= Kept
        BY <1>0, <1>1, <3>3, <3>4, <3>5 DEF FlowInv, Eof
      <3>8. Len(flow') = Kept + Len(Terminal) /\ Kept <= Len(flow')
        BY <1>0, <3>3, <3>4, <3>5
      <3> QED
        BY <1>0, <2>1, <2>4, <3>6, <3>7, <3>8 DEF FlowInv
    <2> QED
      BY <1>5, <2>2, <2>4, Returned
  <1> QED
    BY <1>0, <1>2, <1>3, <1>4, <1>5, StaysCases, StaysFacts

LEMMA OrderStep ==
    ASSUME QueueOK, TypeOK, FlowInv, OrderInv, Next
    PROVE  OrderInv'
  <1>0. /\ seen \in Seq(Events) /\ events \in Seq(Events) /\ flow \in Seq(Events) /\ reads \in Seq(Frames)
        /\ notices \in Nat /\ OrderInv
    BY FlowFacts DEF QueueOK, flow
  <1>1. /\ Rising(flow) /\ Rising(reads) /\ Precede(flow, reads)
        /\ AtMost(flow, notices) /\ AtMost(reads, notices)
    BY DEF OrderInv
  <1>2. ASSUME flow' = flow, notices' = notices, reads' = reads \/ reads' = <<>> \/ (reads # <<>> /\ reads' = Tail(reads))
        PROVE  OrderInv'
    <2>1. CASE reads' = reads
      BY <1>1, <1>2, <2>1 DEF OrderInv
    <2>2. CASE reads' = <<>>
      <3>1. Rising(<<>>) /\ Precede(flow, <<>>) /\ AtMost(<<>>, notices)
        BY DEF Rising, Precede, AtMost
      <3> QED
        BY <1>1, <1>2, <2>2, <3>1 DEF OrderInv
    <2>3. CASE reads # <<>> /\ reads' = Tail(reads)
      <3>1. Rising(Tail(reads)) /\ Precede(flow, Tail(reads)) /\ AtMost(Tail(reads), notices)
        BY <1>0, <1>1, <2>3, OrderTail
      <3> QED
        BY <1>1, <1>2, <2>3, <3>1 DEF OrderInv
    <2> QED
      BY <1>2, <2>1, <2>2, <2>3
  <1>3. CASE StreamStays /\ (UNCHANGED <<reads, notices>> \/ PumpResponse \/ PumpEnds \/ DrainReads)
    <2>1. /\ notices' = notices
          /\ reads' = reads \/ reads' = <<>> \/ (reads # <<>> /\ reads' = Tail(reads))
      BY <1>3 DEF PumpResponse, PumpEnds, DrainReads
    <2> QED
      BY <1>2, <1>3, <2>1, StaysFacts
  <1>4. ASSUME flow' = flow, notices' \in Nat, notices <= notices', NEW f \in Frames,
               reads' = reads \/ reads' = Append(reads, f),
               f.kind = "notice" => f.n = notices + 1 /\ notices' = notices + 1
        PROVE  OrderInv'
    <2>1. AtMost(flow, notices') /\ AtMost(reads, notices')
      <3>1. \A e \in Events : e.n \in Nat
        BY EventFacts
      <3>2. \A j \in DOMAIN flow : flow[j] \in Events
        BY <1>0
      <3>3. \A j \in DOMAIN reads : reads[j] \in Frames
        BY <1>0
      <3>4. AtMost(flow, notices')
        BY <1>0, <1>1, <1>4, <3>1, <3>2 DEF AtMost
      <3>5. AtMost(reads, notices')
        BY <1>0, <1>1, <1>4, <3>3, FrameFacts DEF AtMost
      <3> QED
        BY <3>4, <3>5
    <2>2. CASE reads' = reads
      BY <1>1, <1>4, <2>1, <2>2 DEF OrderInv
    <2>3. CASE reads' = Append(reads, f)
      <3>1. f.kind = "notice" => /\ \A j \in DOMAIN reads : reads[j].kind = "notice" => reads[j].n < f.n
                                 /\ \A j \in DOMAIN flow : flow[j].kind = "notice" => flow[j].n < f.n
        <4>1. \A j \in DOMAIN flow : flow[j].n \in Nat
          BY <1>0, EventFacts
        <4>2. \A j \in DOMAIN reads : reads[j].kind = "notice" => reads[j].n \in Nat
          BY <1>0, FrameFacts
        <4> QED
          BY <1>0, <1>1, <1>4, <4>1, <4>2 DEF AtMost
      <3>2. f.kind = "notice" => f.n <= notices'
        BY <1>0, <1>4
      <3>3. Rising(Append(reads, f)) /\ AtMost(Append(reads, f), notices')
        BY <1>0, <1>1, <1>4, <2>1, <3>1, <3>2, OrderAppend
      <3>4. Precede(flow, Append(reads, f))
        BY <1>0, <1>1, <1>4, <3>1, OrderAppend
      <3> QED
        BY <1>1, <1>4, <2>1, <2>3, <3>3, <3>4 DEF OrderInv
    <2> QED
      BY <1>4, <2>2, <2>3
  <1>5. CASE StreamStays /\ ReaderEnds
    <2>1. /\ notices' = notices
          /\ reads' = reads \/ reads' = Append(reads, [kind |-> "error"])
      BY <1>5 DEF ReaderEnds
    <2>2. [kind |-> "error"] \in Frames /\ [kind |-> "error"].kind # "notice"
      BY FrameFacts
    <2>3. flow' = flow /\ notices' \in Nat /\ notices <= notices'
      BY <1>0, <1>5, <2>1, StaysFacts
    <2> QED
      BY <1>4, <2>1, <2>2, <2>3
  <1>6. CASE StreamStays /\ ReadFrame
    <2>1. \/ /\ notices' = notices + 1
             /\ reads' = reads \/ reads' = Append(reads, [kind |-> "notice", n |-> notices + 1])
          \/ /\ notices' = notices
             /\ \E c \in wire : reads' = reads \/ reads' = Append(reads, [kind |-> "response", call |-> c])
      BY <1>6 DEF ReadFrame, Frame
    <2>2. CASE /\ notices' = notices + 1
               /\ reads' = reads \/ reads' = Append(reads, [kind |-> "notice", n |-> notices + 1])
      <3> DEFINE f == [kind |-> "notice", n |-> notices + 1]
      <3>1. f \in Frames /\ f.n = notices + 1 /\ notices' \in Nat /\ notices <= notices'
        BY <1>0, <2>2, FrameFacts
      <3> QED
        BY <1>4, <1>6, <2>2, <3>1, StaysFacts
    <2>3. ASSUME NEW c \in wire, notices' = notices,
                 reads' = reads \/ reads' = Append(reads, [kind |-> "response", call |-> c])
          PROVE  OrderInv'
      <3> DEFINE f == [kind |-> "response", call |-> c]
      <3>1. f \in Frames /\ f.kind # "notice" /\ notices' \in Nat /\ notices <= notices'
        BY <1>0, <2>3, FrameFacts DEF TypeOK
      <3> QED
        BY <1>4, <1>6, <2>3, <3>1, StaysFacts
    <2> QED
      BY <2>1, <2>2, <2>3
  <1>7. CASE PumpNotice
    <2> DEFINE x == [kind |-> "notice", n |-> Head(reads).n]
    <2>1. /\ reads # <<>> /\ reads' = Tail(reads) /\ notices' = notices /\ seen' = seen
          /\ Head(reads).kind = "notice" /\ (events' = events \/ events' = Append(events, x))
          /\ x \in Events /\ Tail(reads) \in Seq(Frames)
      BY <1>7, HeadOfReads DEF PumpNotice
    <2>2. x.kind = "notice" /\ x.n = Head(reads).n
      OBVIOUS
    <2> HIDE DEF x
    <2>3. /\ Head(reads) = reads[1] /\ 1 \in DOMAIN reads
          /\ \A k \in DOMAIN Tail(reads) : k + 1 \in DOMAIN reads /\ Tail(reads)[k] = reads[k + 1] /\ 1 < k + 1
      BY <1>0, <2>1, TailFacts
    <2>4. reads[1].kind = "notice" /\ x.n = reads[1].n
      <3>1. Head(reads).kind = "notice"
        BY <2>1
      <3>2. Head(reads) = reads[1]
        BY <2>3
      <3>3. reads[1].kind = "notice" /\ Head(reads).n = reads[1].n
        BY <3>1, <3>2
      <3> QED
        BY <2>2, <3>3
    <2>5. ASSUME flow' = flow PROVE OrderInv'
      BY <1>2, <2>1, <2>5
    <2>6. ASSUME flow' = Append(flow, x) PROVE OrderInv'
      <3>1. Rising(Tail(reads)) /\ Precede(flow, Tail(reads)) /\ AtMost(Tail(reads), notices)
        BY <1>0, <1>1, <2>1, OrderTail
      <3>2. \A j \in DOMAIN flow : flow[j].kind = "notice" => flow[j].n < x.n
        BY <1>1, <2>3, <2>4 DEF Precede
      <3>3. \A k \in DOMAIN Tail(reads) : Tail(reads)[k].kind = "notice" => x.n < Tail(reads)[k].n
        BY <1>1, <2>3, <2>4 DEF Rising
      <3>4. x.n <= notices
        BY <1>1, <2>3, <2>4 DEF AtMost
      <3>5. Rising(Append(flow, x)) /\ AtMost(Append(flow, x), notices)
        BY <1>0, <1>1, <2>1, <3>2, <3>4, OrderAppend
      <3>6. Precede(Append(flow, x), Tail(reads))
        BY <1>0, <2>1, <3>1, <3>3, OrderAppend
      <3> QED
        BY <2>1, <2>6, <3>1, <3>5, <3>6 DEF OrderInv
    <2>7. flow' = flow \/ flow' = Append(flow, x)
      <3>1. CASE events' = events
        BY <2>1, <3>1 DEF flow
      <3>2. CASE events' = Append(events, x)
        <4>1. flow' = seen \o Append(events, x)
          BY <2>1, <3>2 DEF flow
        <4>2. seen \o Append(events, x) = Append(seen \o events, x)
          BY <1>0, <2>1, FlowMoves
        <4> QED
          BY <4>1, <4>2 DEF flow
      <3> QED
        BY <2>1, <3>1, <3>2
    <2> QED
      BY <2>5, <2>6, <2>7
  <1>8. CASE EvictEvent
    <2>1. reads' = reads /\ notices' = notices
      BY <1>8 DEF EvictEvent, peer
    <2>2. /\ DOMAIN flow' \subseteq Nat /\ Len(seen) \in Nat
          /\ \A j \in DOMAIN flow' : \/ j <= Len(seen) /\ j \in DOMAIN flow /\ flow'[j] = flow[j]
                                     \/ j > Len(seen) /\ j + 1 \in DOMAIN flow /\ flow'[j] = flow[j + 1]
      BY <1>8, Evicted, FlowTypes
    <2>3. Rising(flow')
      BY <1>1, <2>2 DEF Rising
    <2>4. Precede(flow', reads) /\ AtMost(flow', notices)
      BY <1>1, <2>2 DEF Precede, AtMost
    <2> QED
      BY <1>1, <2>1, <2>3, <2>4 DEF OrderInv
  <1>9. ASSUME reads' = reads, notices' = notices,
               \A j \in DOMAIN flow' : \/ flow'[j].kind # "notice"
                                       \/ j \in DOMAIN flow /\ flow'[j] = flow[j]
        PROVE  OrderInv'
    <2>1. Rising(flow') /\ Precede(flow', reads) /\ AtMost(flow', notices)
      BY <1>1, <1>9 DEF Rising, Precede, AtMost
    <2> QED
      BY <1>1, <1>9, <2>1 DEF OrderInv
  <1>10. CASE Publish
    <2>1. reads' = reads /\ notices' = notices
      BY <1>10 DEF Publish
    <2>2. lost \in Nat
      BY FlowTypes
    <2> QED
      BY <1>9, <1>10, <2>1, <2>2, Published, TerminalFacts
  <1>11. CASE NextEvent
    <2>1. reads' = reads /\ notices' = notices
      BY <1>11 DEF NextEvent, peer
    <2>2. CASE flow' = flow
      BY <1>2, <2>1, <2>2
    <2>3. CASE flow' = Append(flow, Eof)
      <3>1. Eof \in Events /\ Eof.kind # "notice"
        BY FlowTypes, TerminalFacts DEF Eof
      <3>2. \A j \in DOMAIN flow' : (j \in DOMAIN flow /\ flow'[j] = flow[j]) \/ flow'[j] = Eof
        BY <1>0, <2>3, <3>1, AppendFacts
      <3> QED
        BY <1>9, <2>1, <3>1, <3>2
    <2> QED
      BY <1>11, <2>2, <2>3, Returned
  <1> QED
    BY <1>3, <1>5, <1>6, <1>7, <1>8, <1>10, <1>11, StaysCases

-----------------------------------------------------------------------------
(* What the consumer has seen. *)

LEMMA SeenInFlow ==
    ASSUME QueueOK
    PROVE  /\ Len(seen) \in Nat /\ DOMAIN seen = 1..Len(seen) /\ Len(seen) <= Len(flow)
           /\ \A j \in 1..Len(seen) : j \in DOMAIN flow /\ flow[j] = seen[j]
  <1>1. /\ Len(flow) \in Nat /\ Len(seen) \in Nat /\ Len(events) \in Nat
        /\ Len(flow) = Len(seen) + Len(events)
        /\ DOMAIN flow = 1..Len(flow) /\ DOMAIN seen = 1..Len(seen)
        /\ \A j \in DOMAIN flow : flow[j] = IF j <= Len(seen) THEN seen[j] ELSE events[j - Len(seen)]
    BY FlowTypes
  <1> QED
    BY <1>1

LEMMA StreamIsSafe ==
    ASSUME QueueOK, FlowInv, OrderInv
    PROVE  StreamIsAccounted
  <1> DEFINE P == { k \in DOMAIN seen : seen[k].kind = "notice" }
             n == Cardinality(P)
             terminal == (IF n < taken THEN <<[kind |-> "gap", n |-> taken - n]>> ELSE <<>>)
                            \o <<[kind |-> "disconnected", n |-> 0], [kind |-> "eof", n |-> 0]>>
             top == IF Kept <= Len(seen) THEN Kept ELSE Len(seen)
  <1>1. /\ taken \in Nat /\ lost \in Nat /\ lost <= taken /\ Kept \in Nat /\ taken - Kept = lost
        /\ Len(seen) \in Nat /\ DOMAIN seen = 1..Len(seen)
        /\ \A j \in 1..Len(seen) : j \in DOMAIN flow /\ flow[j] = seen[j]
    BY SeenInFlow, FlowTypes DEF FlowInv, Kept
  <1>2. top \in Nat /\ top <= Kept /\ top <= Len(seen)
    BY <1>1
  <1>3. \A k \in 1..Len(seen) : seen[k].kind = "notice" <=> k <= Kept
    BY <1>1 DEF FlowInv
  <1>4. P = 1..top
    <2>1. \A k \in 1..Len(seen) : k <= Kept <=> k \in 1..top
      BY <1>1
    <2>2. \A k \in 1..top : k \in 1..Len(seen)
      BY <1>1, <1>2
    <2> HIDE DEF top
    <2> QED
      BY <1>1, <1>3, <2>1, <2>2
  <1>5. n = top
    <2> HIDE DEF top
    <2>1. Cardinality(1..top) = top
      BY <1>2, FS_Interval
    <2> QED
      BY <1>4, <2>1
  <1>6. ASSUME NEW j \in 1..n, NEW k \in 1..n
        PROVE  seen[k].kind = "notice" /\ (j < k => seen[j].n < seen[k].n)
    <2>1. j \in P /\ k \in P
      BY <1>4, <1>5
    <2>2. /\ j \in 1..Len(seen) /\ seen[j].kind = "notice"
          /\ k \in 1..Len(seen) /\ seen[k].kind = "notice"
      BY <1>1, <2>1
    <2> HIDE DEF n, P
    <2>3. /\ j \in DOMAIN flow /\ flow[j] = seen[j] /\ k \in DOMAIN flow /\ flow[k] = seen[k]
      BY <1>1, <2>2
    <2> QED
      BY <2>2, <2>3 DEF OrderInv, Rising
  <1>7. ASSUME NEW k \in (n + 1)..Len(seen)
        PROVE  seen[k] = terminal[k - n]
    <2>1. k \in 1..Len(seen) /\ k > Kept /\ n = Kept /\ k \in Nat
      BY <1>1, <1>2, <1>5
    <2>2. k \in DOMAIN flow /\ flow[k] = seen[k] /\ DOMAIN flow = 1..Len(flow) /\ Len(flow) \in Nat
      BY <1>1, <2>1, FlowTypes
    <2>3. closed
      <3> HIDE DEF n
      <3>1. Len(flow) > Kept /\ Len(flow) \in Nat /\ Kept \in Nat
        BY <1>1, <2>1, <2>2
      <3>2. ~closed => Len(flow) = Kept
        BY DEF FlowInv
      <3>3. Len(flow) # Kept
        BY <3>1
      <3> QED
        BY <3>2, <3>3, Zenon
    <2>4. flow[k] = Terminal[k - Kept]
      BY <2>1, <2>2, <2>3 DEF FlowInv
    <2>5. terminal = Terminal
      <3>1. taken - n = lost /\ (n < taken <=> lost > 0)
        BY <1>1, <2>1
      <3> HIDE DEF n
      <3> QED
        BY <3>1 DEF Terminal
    <2> HIDE DEF terminal, n
    <2> QED
      BY <2>1, <2>2, <2>4, <2>5
  <1> HIDE DEF P
  <1>8. /\ \A j, k \in 1..n : seen[k].kind = "notice" /\ (j < k => seen[j].n < seen[k].n)
        /\ \A k \in (n + 1)..Len(seen) : seen[k] = terminal[k - n]
    BY <1>6, <1>7
  <1> USE DEF P
  <1> QED
    BY <1>8, Zenon DEF StreamIsAccounted

-----------------------------------------------------------------------------
(* The inductive invariant and the theorems. *)

IInv ==
    /\ QueueOK /\ TypeOK /\ NotifyInv /\ OwnInv /\ PendingInv /\ Drained /\ CallInv
    /\ FlowInv /\ OrderInv

LEMMA InitInv ==
    ASSUME Init
    PROVE  IInv
  <1>0. /\ use \in Use /\ UseParts
    <2>1. use \in Use
      BY UseAssumption DEF Init
    <2> QED
      BY <2>1 DEF Use, UseParts, WriterCapacity, EventCapacity, ReadCapacity, MaxNotices, Consuming, idOf,
         Notification
  <1>1. QueueOK
    <2>1. <<>> \in Seq(Command) /\ <<>> \in Seq(Frames) /\ <<>> \in Seq(Events) /\ DOMAIN <<>> = {}
      OBVIOUS
    <2> QED
      BY <1>0, <2>1 DEF Init, QueueOK
  <1>2. TypeOK
    <2>1. CallersOK /\ RepliesOK
      BY DEF Init, CallersOK, RepliesOK
    <2>2. IdsOK /\ PumpOK /\ PeerOK
      BY DEF Init, IdsOK, PumpOK, PeerOK
    <2>3. Len(commands) = 0 /\ Len(reads) = 0 /\ Len(events) = 0
      BY DEF Init
    <2>4. BoundsOK
      BY <1>0, <2>3 DEF BoundsOK, UseParts
    <2> QED
      BY <2>1, <2>2, <2>4, TypeParts
  <1>3. NotifyInv
    BY <1>0, EvidenceFacts DEF Init, NotifyInv, UseParts
  <1>4. OwnInv
    BY DEF Init, OwnInv
  <1>5. PendingInv
    BY DEF Init, PendingInv, In, Once
  <1>6. Drained
    BY DEF Init, Drained
  <1>7. CallInv
    <2> SUFFICES ASSUME NEW c \in Call PROVE PlaceInv(c) /\ ProofInv(c)
      BY DEF CallInv
    <2>1. Single(c) /\ ~Queued(c) /\ ~Canceling(c) /\ ~Marked(c) /\ ~Popped(c) /\ ~Writing(c)
      BY DEF Init, Single, Queued, Canceling, Marked, Popped, Writing, In, Once
    <2>2. /\ c \notin wire /\ c \notin pending /\ pc[c] = "idle" /\ resultCh[c] = None /\ ackCh[c] = None
          /\ phase[c] = None /\ outcome[c] = None
      BY DEF Init
    <2> QED
      BY <2>1, <2>2, EvidenceFacts DEF PlaceInv, ProofInv
  <1>8. flow = <<>>
    <2>1. <<>> \o <<>> = <<>>
      <3>1. <<>> \in Seq(Events)
        OBVIOUS
      <3> QED
        BY <3>1, ConcatEmptySeq
    <2> QED
      BY <2>1 DEF Init, flow
  <1>9. FlowInv
    <2>1. taken = 0 /\ lost = 0 /\ closed = FALSE /\ pump = "select" /\ Kept = 0
      BY DEF Init, Kept
    <2>2. Len(flow) = 0 /\ DOMAIN flow = {}
      BY <1>8
    <2> QED
      BY <2>1, <2>2 DEF FlowInv
  <1>10. OrderInv
    <2>1. reads = <<>>
      BY DEF Init
    <2> QED
      BY <1>8, <2>1 DEF OrderInv, Rising, Precede, AtMost
  <1> QED
    BY <1>1, <1>2, <1>3, <1>4, <1>5, <1>6, <1>7, <1>9, <1>10 DEF IInv

LEMMA StutterInv ==
    ASSUME IInv, UNCHANGED vars
    PROVE  IInv'
  <1>0. /\ UNCHANGED <<use, pc, canceled, phase, outcome, accepting, commands>>
        /\ UNCHANGED <<reserved, retired, withdrawn, queued, completed, resultCh, ackCh>>
        /\ UNCHANGED <<pump, current, pending, up, wire, answered, reader, reads, notices>>
        /\ UNCHANGED <<taken, events, lost, seen, closing, closed>>
        /\ UNCHANGED <<Notification, idOf, Ordinary, WriterCapacity, ReadCapacity, EventCapacity>>
    BY DEF vars, callers, ids, replies, peer, stream, Notification, idOf, Ordinary, WriterCapacity,
       ReadCapacity, EventCapacity
  <1>1. QueueOK'
    BY <1>0 DEF IInv, QueueOK
  <1>2. TypeOK'
    BY <1>0 DEF IInv, TypeOK
  <1>3. NotifyInv' /\ OwnInv' /\ Drained'
    BY <1>0 DEF IInv, NotifyInv, OwnInv, Drained
  <1>4. PendingInv'
    BY <1>0 DEF IInv, PendingInv, PendingWith
  <1>5. CallInv'
    <2> SUFFICES ASSUME NEW c \in Call, Owned(c)' PROVE PlaceInv(c)' /\ ProofInv(c)'
      BY DEF CallInv
    <2>1. PlaceInv(c) /\ ProofInv(c)
      BY <1>0 DEF IInv, CallInv, Owned, OwnId
    <2>2. SameQueue(c) /\ SamePump(c) /\ SameCaller(c) /\ SameReplies(c)
      BY <1>0, SameEasily
    <2> QED
      BY <2>1, <2>2, Undisturbed
  <1>6. FlowInv' /\ OrderInv'
    <2>1. flow' = flow /\ Kept' = Kept /\ Terminal' = Terminal
      BY <1>0 DEF flow, Kept, Terminal
    <2> QED
      BY <1>0, <2>1 DEF IInv, FlowInv, OrderInv
  <1> QED
    BY <1>1, <1>2, <1>3, <1>4, <1>5, <1>6 DEF IInv

LEMMA Invariance == Spec => []IInv
  <1>1. Init => IInv
    BY InitInv
  <1>2. IInv /\ [Next]_vars => IInv'
    <2> SUFFICES ASSUME IInv, Next PROVE IInv'
      BY StutterInv
    <2> QED
      BY QueueStep, TypeStep, NotifyStep, OwnStep, PendingStep, DrainedStep, CallStepPreserves, FlowStep,
         OrderStep DEF IInv
  <1> QED
    BY <1>1, <1>2, PTL DEF Spec

\* Every reachable state of the client is well typed and its queues keep to
\* their bounds.
THEOREM TypeCorrect == Spec => []TypeOK
  <1>1. IInv => TypeOK
    BY DEF IInv
  <1> QED
    BY <1>1, Invariance, PTL

\* Call says proven_before_write only of a request no byte of which crosses
\* the transport, before or after, unless its ID names another request too.
THEOREM NotWrittenProven == Spec => []NotWrittenIsProven
  <1>1. IInv => NotWrittenIsProven
    <2> SUFFICES ASSUME IInv, NEW c \in Call, outcome[c] = NotWritten, OwnId(c)
                 PROVE  c \notin wire
      BY DEF NotWrittenIsProven
    <2>1. c \in Ordinary
      BY DEF IInv, NotifyInv, Ordinary
    <2> QED
      BY <2>1 DEF IInv, CallInv, Owned, ProofInv
  <1> QED
    BY <1>1, Invariance, PTL

\* A response reaches the call that wrote the request it answers, also where
\* calls use the IDs of withdrawn ones again.
THEOREM ResponseOwn == Spec => []ResponseIsOwn
  <1>1. IInv => ResponseIsOwn
    BY EvidenceFacts DEF IInv, OwnInv, ResponseIsOwn
  <1> QED
    BY <1>1, Invariance, PTL

\* NextEvent returns the notifications that were kept in their order, then
\* a gap that counts all others, the disconnect and io.EOF, for queues of any
\* capacity and any number of notifications.
THEOREM StreamAccounted == Spec => []StreamIsAccounted
  <1>1. IInv => StreamIsAccounted
    BY StreamIsSafe DEF IInv
  <1> QED
    BY <1>1, Invariance, PTL

=============================================================================
