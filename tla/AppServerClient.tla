--------------------------- MODULE AppServerClient ---------------------------
(***************************************************************************)
(* One connection generation of go/appserver/client.go: callers of Call    *)
(* and Notify, the bounded command queue, the pump goroutine that owns every write and *)
(* every response, the reader goroutine, the event queue with its consumer *)
(* and Close.  Steps are the code's atomic sections: a channel operation,  *)
(* or what is done under one acquisition of mu, admitMu or activeMu.       *)
(*                                                                         *)
(* pendingCall.phase is left out: the pump writes synchronously, so a call *)
(* that is pending when the pump is elsewhere has phase WriteComplete.     *)
(* Byte budgets are a choice: a queue may be full before its capacity.     *)
(***************************************************************************)
EXTENDS Integers, Sequences, FiniteSets

CONSTANTS
    Call,            \* invocations of Call and Notify
    Id,              \* JSON-RPC request IDs
    None,
    Uses             \* the Options a client may have and what its users do

Use == [id : [Call -> Id],       \* the ID of every request
        notify : SUBSET Call,    \* the invocations of Notify, which have no ID and await no response
        writer : Nat \ {0},      \* length of the command queue
        events : Nat,            \* length of the event queue without its terminal slots
        reads : Nat \ {0},       \* length of the read queue
        notices : Nat,           \* bound: notifications the peer sends
        consuming : BOOLEAN]     \* whether somebody calls NextEvent while the pump runs

ASSUME UseAssumption == \A u \in Uses : u \in Use

VARIABLES
    use,        \* the use of this client
    pc,         \* pc[c]: where call c stands
    canceled,   \* calls whose context has ended
    phase,      \* phase[c]: the evidence withdraw found for c
    outcome,    \* outcome[c]: what Call returned
    accepting,  \* the admission flag
    commands,   \* the command queue
    reserved, retired, withdrawn, queued, completed,  \* the client's ID sets
    resultCh,   \* resultCh[c]: the buffered outcome of call c
    ackCh,      \* ackCh[c]: the buffered cancel acknowledgement
    pump,       \* where the pump stands
    current,    \* the call whose command the pump is handling
    pending,    \* written calls without a response
    up,         \* the transport is open
    wire,       \* calls whose request bytes crossed the transport
    answered,   \* calls the peer has answered
    reader,     \* where the read loop stands
    reads,      \* the read queue
    notices,    \* notifications read so far; they are numbered
    taken,      \* notifications the pump took from the read queue
    events,     \* the event queue
    lost,       \* events the pump dropped or evicted
    seen,       \* what NextEvent has returned, io.EOF included
    closing,    \* done is closed
    closed      \* closed is closed

callers == <<pc, canceled, phase, outcome>>
ids     == <<reserved, retired, withdrawn, queued, completed>>
replies == <<resultCh, ackCh>>
peer    == <<up, wire, answered, reader, reads, notices>>
stream  == <<taken, events, lost>>
vars == <<use, callers, accepting, commands, ids, replies, pump, current, pending, peer,
          stream, seen, closing, closed>>

idOf           == use.id
Notification   == use.notify
WriterCapacity == use.writer
EventCapacity  == use.events
ReadCapacity   == use.reads
MaxNotices     == use.notices
Consuming      == use.consuming

NotWritten == [evidence |-> "proven_before_write"]
MayBe      == [evidence |-> "may_have_written"]
Response(c) == [evidence |-> "complete", answers |-> c]

Sent   == [evidence |-> "sent"]
Failed == [evidence |-> "failed"]

Evidence == {NotWritten, MayBe, Sent, Failed} \cup { Response(c) : c \in Call }

ASSUME NoneAssumption == None \notin Call \cup Evidence

Request(c) == [kind |-> IF c \in Notification THEN "notify" ELSE "request", call |-> c]
Cancel(c)  == [kind |-> "cancel", call |-> c]

Init ==
    /\ use \in Uses
    /\ pc = [c \in Call |-> "idle"] /\ canceled = {}
    /\ phase = [c \in Call |-> None] /\ outcome = [c \in Call |-> None]
    /\ accepting = TRUE /\ commands = <<>>
    /\ reserved = {} /\ retired = {} /\ withdrawn = {} /\ queued = {} /\ completed = {}
    /\ resultCh = [c \in Call |-> None] /\ ackCh = [c \in Call |-> None]
    /\ pump = "select" /\ current = None /\ pending = {}
    /\ up = TRUE /\ wire = {} /\ answered = {}
    /\ reader = "reading" /\ reads = <<>> /\ notices = 0
    /\ taken = 0 /\ events = <<>> /\ lost = 0 /\ seen = <<>>
    /\ closing = FALSE /\ closed = FALSE

-----------------------------------------------------------------------------
(* A caller. *)

Goto(c, label) == pc' = [pc EXCEPT ![c] = label]
Return(c, e) == Goto(c, "done") /\ outcome' = [outcome EXCEPT ![c] = e]

\* release: the ID leaves every set but retired.
Release(k) ==
    /\ reserved' = reserved \ {k} /\ withdrawn' = withdrawn \ {k} /\ queued' = queued \ {k}

\* Call: reserve the ID, unless it is in use or was answered already.
Start(c) ==
    /\ pc[c] = "idle"
    /\ IF c \in Notification THEN Goto(c, "enqueue") /\ UNCHANGED <<reserved, outcome>>
       ELSE IF idOf[c] \in reserved \cup retired
       THEN Return(c, NotWritten) /\ UNCHANGED reserved
       ELSE Goto(c, "enqueue") /\ reserved' = reserved \cup {idOf[c]} /\ UNCHANGED outcome
    /\ UNCHANGED <<use, canceled, phase, accepting, commands, retired, withdrawn, queued, completed,
                   replies, pump, current, pending, peer, stream, seen, closing, closed>>

\* enqueue, under admitMu: the marker is published with the command.
Enqueue(c) ==
    /\ pc[c] = "enqueue"
    /\ \/ /\ accepting /\ Len(commands) < WriterCapacity
          /\ commands' = Append(commands, Request(c))
          /\ queued' = queued \cup (IF c \in Notification THEN {} ELSE {idOf[c]})
          /\ Goto(c, "wait")
          /\ UNCHANGED <<reserved, withdrawn, outcome>>
       \/ /\ ~accepting \/ closed \/ c \in canceled
          /\ IF c \in Notification THEN Return(c, Failed) /\ UNCHANGED <<reserved, withdrawn, queued>>
             ELSE Release(idOf[c]) /\ Return(c, NotWritten)
          /\ UNCHANGED commands
    /\ UNCHANGED <<use, canceled, phase, accepting, retired, completed, replies, pump, current,
                   pending, peer, stream, seen, closing, closed>>

\* A buffered outcome is preferred to a cancellation and to a closed client.
Await(c) ==
    /\ pc[c] = "wait" /\ c \notin Notification
    /\ \/ /\ resultCh[c] # None
          /\ Return(c, resultCh[c])
          /\ completed' = completed \ {idOf[c]}
       \/ /\ resultCh[c] = None /\ closed
          /\ Return(c, MayBe)
          /\ UNCHANGED completed
       \/ /\ resultCh[c] = None /\ c \in canceled
          /\ Goto(c, "withdraw")
          /\ UNCHANGED <<outcome, completed>>
    /\ UNCHANGED <<use, canceled, phase, accepting, commands, reserved, retired, withdrawn, queued,
                   replies, pump, current, pending, peer, stream, seen, closing, closed>>

\* Notify's select prefers nothing; a cancellation goes on to cancelAnyActiveWrite
\* and leaves the command wherever it is.
AwaitNotify(c) ==
    /\ pc[c] = "wait" /\ c \in Notification
    /\ \/ resultCh[c] # None /\ Return(c, resultCh[c])
       \/ closed /\ Return(c, Failed)
       \/ c \in canceled /\ Goto(c, "cutAny") /\ UNCHANGED outcome
    /\ UNCHANGED <<use, canceled, phase, accepting, commands, ids, replies, pump, current, pending,
                   peer, stream, seen, closing, closed>>
CutAny(c) ==
    /\ pc[c] = "cutAny"
    /\ up' = (up /\ pump # "writing")
    /\ Return(c, Failed)
    /\ UNCHANGED <<use, canceled, phase, accepting, commands, ids, replies, pump, current, pending,
                   wire, answered, reader, reads, notices, stream, seen, closing, closed>>

\* withdraw, under mu: a command still in the queue is left to the pump.
Withdraw(c) ==
    /\ pc[c] = "withdraw"
    /\ withdrawn' = withdrawn \cup {idOf[c]}
    /\ IF idOf[c] \in queued
       THEN Goto(c, "withdrawn") /\ phase' = [phase EXCEPT ![c] = NotWritten]
       ELSE Goto(c, "cancelWrite") /\ UNCHANGED phase
    /\ UNCHANGED <<use, canceled, outcome, accepting, commands, reserved, retired, queued, completed,
                   replies, pump, current, pending, peer, stream, seen, closing, closed>>

\* cancelActiveWrite: whoever's write is active, it is cut off.
CancelWrite(c) ==
    /\ pc[c] = "cancelWrite"
    /\ IF pump = "writing"
       THEN up' = FALSE /\ Goto(c, "withdrawn") /\ phase' = [phase EXCEPT ![c] = MayBe]
       ELSE UNCHANGED <<up, phase>> /\ Goto(c, "sendCancel")
    /\ UNCHANGED <<use, canceled, outcome, accepting, commands, ids, replies, pump, current, pending,
                   wire, answered, reader, reads, notices, stream, seen, closing, closed>>

\* The cancel command, sent in the background when the queue is full.
SendCancel(c) ==
    /\ pc[c] = "sendCancel"
    /\ \/ /\ Len(commands) < WriterCapacity
          /\ commands' = Append(commands, Cancel(c))
          /\ Goto(c, "awaitAck")
          /\ UNCHANGED phase
       \/ /\ closed
          /\ phase' = [phase EXCEPT ![c] = MayBe]
          /\ Goto(c, "withdrawn")
          /\ UNCHANGED commands
    /\ UNCHANGED <<use, canceled, outcome, accepting, ids, replies, pump, current, pending, peer,
                   stream, seen, closing, closed>>

AwaitAck_NotClosed(c) ==
    /\ pc[c] = "awaitAck"
    /\ ackCh[c] # None /\ phase' = [phase EXCEPT ![c] = ackCh[c]]
    /\ Goto(c, "withdrawn")
    /\ UNCHANGED <<use, canceled, outcome, accepting, commands, ids, replies, pump, current, pending,
                   peer, stream, seen, closing, closed>>
AwaitAck(c) ==
    /\ pc[c] = "awaitAck"
    /\ \/ ackCh[c] # None /\ phase' = [phase EXCEPT ![c] = ackCh[c]]
       \/ closed /\ phase' = [phase EXCEPT ![c] = MayBe]
    /\ Goto(c, "withdrawn")
    /\ UNCHANGED <<use, canceled, outcome, accepting, commands, ids, replies, pump, current, pending,
                   peer, stream, seen, closing, closed>>

\* Back in call: an outcome that raced the withdrawal wins over its evidence.
Withdrawn_TrustsAck(c) ==
    /\ pc[c] = "withdrawn"
    /\ Return(c, phase[c]) /\ UNCHANGED completed
    /\ UNCHANGED <<use, canceled, phase, accepting, commands, reserved, retired, withdrawn, queued,
                   replies, pump, current, pending, peer, stream, seen, closing, closed>>
Withdrawn(c) ==
    /\ pc[c] = "withdrawn"
    /\ IF resultCh[c] # None
       THEN Return(c, resultCh[c]) /\ completed' = completed \ {idOf[c]}
       ELSE Return(c, phase[c]) /\ UNCHANGED completed
    /\ UNCHANGED <<use, canceled, phase, accepting, commands, reserved, retired, withdrawn, queued,
                   replies, pump, current, pending, peer, stream, seen, closing, closed>>

CallStep(c) ==
    \/ Enqueue(c) \/ Await(c) \/ Withdraw(c) \/ CancelWrite(c) \/ SendCancel(c)
    \/ AwaitAck(c) \/ Withdrawn(c) \/ AwaitNotify(c) \/ CutAny(c)

\* The caller's context ends.
EndContext(c) ==
    /\ pc[c] \in {"enqueue", "wait"} /\ c \notin canceled
    /\ canceled' = canceled \cup {c}
    /\ UNCHANGED <<use, pc, phase, outcome, accepting, commands, ids, replies, pump, current, pending,
                   peer, stream, seen, closing, closed>>

-----------------------------------------------------------------------------
(* The pump's select. *)

\* The entry of the pending map under ID k.
PendingWith(k) == { c \in pending : idOf[c] = k }

\* A request leaves the queue; its marker goes first.
PumpRequest ==
    /\ pump = "select" /\ commands # <<>> /\ Head(commands).kind = "request"
    /\ current' = Head(commands).call
    /\ commands' = Tail(commands)
    /\ queued' = queued \ {idOf[current']}
    /\ pump' = "popped"
    /\ UNCHANGED <<use, callers, accepting, reserved, retired, withdrawn, completed, replies,
                   pending, peer, stream, seen, closing, closed>>

\* A notification is marshalled, observed and written, or ends the generation.
PumpNotify ==
    /\ pump = "select" /\ commands # <<>> /\ Head(commands).kind = "notify"
    /\ current' = Head(commands).call
    /\ commands' = Tail(commands)
    /\ \/ pump' = "writing" /\ UNCHANGED resultCh
       \/ pump' = "finish" /\ resultCh' = [resultCh EXCEPT ![current'] = Failed]
    /\ UNCHANGED <<use, callers, accepting, ids, ackCh, pending, peer, stream, seen, closing, closed>>

\* Then the withdrawal marker and the pending calls are looked at, and the
\* write begins; a request that cannot be marshalled or observed ends the
\* generation.
BeginWrite ==
    /\ pump = "popped"
    /\ \/ /\ idOf[current] \in withdrawn
          /\ Release(idOf[current])
          /\ pump' = "select"
          /\ UNCHANGED resultCh
       \/ /\ idOf[current] \notin withdrawn
          /\ PendingWith(idOf[current]) # {}
          /\ Release(idOf[current])
          /\ resultCh' = [resultCh EXCEPT ![current] = NotWritten]
          /\ pump' = "select"
       \/ /\ idOf[current] \notin withdrawn
          /\ PendingWith(idOf[current]) = {}
          /\ pump' = "writing"
          /\ UNCHANGED <<reserved, withdrawn, queued, resultCh>>
       \/ /\ idOf[current] \notin withdrawn
          /\ PendingWith(idOf[current]) = {}
          /\ Release(idOf[current])
          /\ \E e \in {NotWritten, MayBe} : resultCh' = [resultCh EXCEPT ![current] = e]
          /\ pump' = "finish"
    /\ UNCHANGED <<use, callers, accepting, commands, retired, completed, ackCh, current, pending,
                   peer, stream, seen, closing, closed>>

Written ==
    /\ pump = "writing" /\ up
    /\ wire' = wire \cup {current}
    /\ IF current \in Notification
       THEN resultCh' = [resultCh EXCEPT ![current] = Sent] /\ UNCHANGED pending
       ELSE pending' = pending \cup {current} /\ UNCHANGED resultCh
    /\ pump' = "select"
    /\ UNCHANGED <<use, callers, accepting, commands, ids, ackCh, current, up, answered, reader,
                   reads, notices, stream, seen, closing, closed>>

\* A write that fails: the transport says whether bytes may have crossed.
WriteFailed ==
    /\ pump = "writing"
    /\ \E e \in {NotWritten, MayBe} :
          /\ resultCh' = [resultCh EXCEPT ![current] = IF current \in Notification THEN Failed ELSE e]
          /\ wire' \in {wire} \cup (IF e = MayBe THEN {wire \cup {current}} ELSE {})
    /\ IF current \in Notification THEN UNCHANGED <<reserved, withdrawn, queued>> ELSE Release(idOf[current])
    /\ pump' = "finish"
    /\ UNCHANGED <<use, callers, accepting, commands, retired, completed, ackCh, current, pending,
                   up, answered, reader, reads, notices, stream, seen, closing, closed>>

\* commandCancel names an ID, not a call: a written call of that ID without a
\* response ends the generation.
PumpCancel_KeepsConnection ==
    /\ pump = "select" /\ commands # <<>> /\ Head(commands).kind = "cancel"
    /\ LET c == Head(commands).call
       IN /\ pending' = pending \ PendingWith(idOf[c])
          /\ ackCh' = [ackCh EXCEPT ![c] = IF c \in pending THEN MayBe ELSE NotWritten]
          /\ Release(idOf[c])
          /\ UNCHANGED <<pump, retired, completed>>
    /\ commands' = Tail(commands)
    /\ UNCHANGED <<use, callers, accepting, resultCh, current, peer, stream, seen, closing, closed>>
PumpCancel ==
    /\ pump = "select" /\ commands # <<>> /\ Head(commands).kind = "cancel"
    /\ LET c == Head(commands).call
           k == idOf[c]
       IN \/ /\ PendingWith(k) # {}
             /\ pending' = pending \ PendingWith(k)
             /\ Release(k) /\ retired' = retired \cup {k}
             /\ ackCh' = [ackCh EXCEPT ![c] = MayBe]
             /\ pump' = "finish"
             /\ UNCHANGED completed
          \/ /\ PendingWith(k) = {} /\ k \in completed
             /\ completed' = completed \ {k}
             /\ ackCh' = [ackCh EXCEPT ![c] = MayBe]
             /\ UNCHANGED <<pending, reserved, retired, withdrawn, queued, pump>>
          \/ /\ PendingWith(k) = {} /\ k \notin completed
             /\ IF k \in queued THEN UNCHANGED <<reserved, withdrawn, queued>> ELSE Release(k)
             /\ ackCh' = [ackCh EXCEPT ![c] = NotWritten]
             /\ UNCHANGED <<pending, retired, completed, pump>>
    /\ commands' = Tail(commands)
    /\ UNCHANGED <<use, callers, accepting, resultCh, current, peer, stream, seen, closing, closed>>

\* A response goes to the pending call with its ID, or nowhere.
PumpResponse ==
    /\ pump = "select" /\ reads # <<>> /\ Head(reads).kind = "response"
    /\ reads' = Tail(reads)
    /\ LET k == idOf[Head(reads).call]
       IN IF PendingWith(k) = {}
          THEN UNCHANGED <<pending, resultCh, ids>>
          ELSE \E c \in PendingWith(k) :
                  /\ pending' = pending \ {c}
                  /\ resultCh' = [resultCh EXCEPT ![c] = Response(Head(reads).call)]
                  /\ completed' = completed \cup {k}
                  /\ retired' = retired \cup {k}
                  /\ Release(k)
    /\ UNCHANGED <<use, callers, accepting, commands, ackCh, pump, current, up, wire, answered,
                   reader, notices, stream, seen, closing, closed>>

\* A notification goes to the event queue; if that is full it is dropped and
\* the generation ends.
PumpNotice ==
    /\ pump = "select" /\ reads # <<>> /\ Head(reads).kind = "notice"
    /\ reads' = Tail(reads)
    /\ taken' = taken + 1
    /\ \/ /\ Len(events) < EventCapacity + 2
          /\ events' = Append(events, [kind |-> "notice", n |-> Head(reads).n])
          /\ UNCHANGED <<lost, pump>>
       \/ lost' = lost + 1 /\ pump' = "finish" /\ UNCHANGED events
    /\ UNCHANGED <<use, callers, accepting, commands, ids, replies, current, pending, up, wire,
                   answered, reader, notices, seen, closing, closed>>

\* A read error, an unexpected frame, or Close.
PumpEnds ==
    /\ pump = "select"
    /\ \/ reads # <<>> /\ Head(reads).kind = "error" /\ reads' = Tail(reads)
       \/ closing /\ UNCHANGED reads
    /\ pump' = "finish"
    /\ UNCHANGED <<use, callers, accepting, commands, ids, replies, current, pending, up, wire,
                   answered, reader, notices, stream, seen, closing, closed>>

-----------------------------------------------------------------------------
(* finish, in the order of its parts. *)

\* Admission stops and every pending call gets conservative evidence.
ResolvePending ==
    /\ pump = "finish"
    /\ accepting' = FALSE
    /\ resultCh' = [c \in Call |-> IF c \in pending THEN MayBe ELSE resultCh[c]]
    /\ LET ks == { idOf[c] : c \in pending }
       IN /\ retired' = retired \cup ks /\ reserved' = reserved \ ks
          /\ withdrawn' = withdrawn \ ks /\ queued' = queued \ ks
    /\ pending' = {}
    /\ pump' = "drain"
    /\ UNCHANGED <<use, callers, commands, completed, ackCh, current, peer, stream, seen, closing, closed>>

\* Queued requests were never written; queued cancels are acknowledged.
DrainCommand ==
    /\ pump = "drain" /\ commands # <<>>
    /\ LET c == Head(commands).call
       IN \/ /\ Head(commands).kind = "request"
             /\ Release(idOf[c])
             /\ resultCh' = [resultCh EXCEPT ![c] = NotWritten]
             /\ UNCHANGED ackCh
          \/ /\ Head(commands).kind = "notify"
             /\ resultCh' = [resultCh EXCEPT ![c] = Failed]
             /\ UNCHANGED <<reserved, withdrawn, queued, ackCh>>
          \/ /\ Head(commands).kind = "cancel"
             /\ ackCh' = [ackCh EXCEPT ![c] = NotWritten]
             /\ UNCHANGED <<reserved, withdrawn, queued, resultCh>>
    /\ commands' = Tail(commands)
    /\ UNCHANGED <<use, callers, accepting, retired, completed, pump, current, pending, peer, stream,
                   seen, closing, closed>>

DrainReads ==
    /\ pump = "drain" /\ commands = <<>>
    /\ reads' = <<>>
    /\ pump' = "evict"
    /\ UNCHANGED <<use, callers, accepting, commands, ids, replies, current, pending, up, wire,
                   answered, reader, notices, stream, seen, closing, closed>>

\* `for len(c.events) > 0 { event := <-c.events`: the test and the receive
\* are two steps, and NextEvent may come between them.
TestEvents ==
    /\ pump = "evict"
    /\ pump' = IF events # <<>> THEN "evicting" ELSE "publish"
    /\ UNCHANGED <<use, callers, accepting, commands, ids, replies, current, pending, peer, stream,
                   seen, closing, closed>>
EvictEvent_Uncounted ==
    /\ pump = "evicting" /\ events # <<>>
    /\ events' = Tail(events)
    /\ pump' = "evict"
    /\ UNCHANGED <<use, callers, accepting, commands, ids, replies, current, pending, peer, taken, lost,
                   seen, closing, closed>>
EvictEvent ==
    /\ pump = "evicting" /\ events # <<>>
    /\ events' = Tail(events)
    /\ lost' = lost + 1
    /\ pump' = "evict"
    /\ UNCHANGED <<use, callers, accepting, commands, ids, replies, current, pending, peer, taken,
                   seen, closing, closed>>

\* The terminal evidence, and the deferred closes.
Publish ==
    /\ pump = "publish"
    /\ events' = events \o (IF lost > 0 THEN <<[kind |-> "gap", n |-> lost]>> ELSE <<>>)
                        \o <<[kind |-> "disconnected", n |-> 0]>>
    /\ pump' = "stopped"
    /\ closed' = TRUE /\ up' = FALSE
    /\ UNCHANGED <<use, callers, accepting, commands, ids, replies, current, pending, wire, answered,
                   reader, reads, notices, taken, lost, seen, closing>>

PumpStep ==
    \/ PumpRequest \/ PumpNotify \/ BeginWrite \/ PumpCancel \/ PumpResponse \/ PumpNotice \/ PumpEnds
    \/ ResolvePending \/ DrainCommand \/ DrainReads \/ TestEvents \/ EvictEvent \/ Publish

-----------------------------------------------------------------------------
(* The read loop and the peer. *)

Frame_OffByOne(f) ==
    IF Len(reads) <= ReadCapacity THEN reads' = Append(reads, f) /\ UNCHANGED reader
                                  ELSE reader' = "overflow" /\ UNCHANGED reads
Frame(f) ==
    IF Len(reads) < ReadCapacity THEN reads' = Append(reads, f) /\ UNCHANGED reader
                                 ELSE reader' = "overflow" /\ UNCHANGED reads

\* A frame is read and queued; when the queue is full the loop ends.
ReadFrame ==
    /\ reader = "reading" /\ up
    /\ \/ \E c \in wire \ (answered \cup Notification) :
             /\ answered' = answered \cup {c}
             /\ Frame([kind |-> "response", call |-> c])
             /\ UNCHANGED notices
       \/ /\ notices < MaxNotices
          /\ notices' = notices + 1
          /\ Frame([kind |-> "notice", n |-> notices'])
          /\ UNCHANGED answered
    /\ UNCHANGED <<use, callers, accepting, commands, ids, replies, pump, current, pending, up, wire,
                   stream, seen, closing, closed>>

\* transport.Read fails: the peer is gone, the transport was closed, or only
\* the incoming half is broken and writes still succeed.
ReadFails ==
    /\ reader = "reading"
    /\ reader' = "failed" /\ up' \in {up, FALSE}
    /\ UNCHANGED <<use, callers, accepting, commands, ids, replies, pump, current, pending, wire,
                   answered, reads, notices, stream, seen, closing, closed>>

\* The error is queued.  A read error waits a second for room and is then
\* dropped: a second in which the pump took nothing, being in Write.  An
\* overflow waits until there is room or the client is closing.
ReaderEnds ==
    /\ reader \in {"failed", "overflow"}
    /\ reader' = "stopped"
    /\ \/ Len(reads) < ReadCapacity /\ reads' = Append(reads, [kind |-> "error"])
       \/ reader = "failed" /\ Len(reads) = ReadCapacity /\ pump = "writing" /\ UNCHANGED reads
       \/ reader = "overflow" /\ closing /\ UNCHANGED reads
    /\ UNCHANGED <<use, callers, accepting, commands, ids, replies, pump, current, pending, up, wire,
                   answered, notices, stream, seen, closing, closed>>

-----------------------------------------------------------------------------
(* NextEvent and Close. *)

NextEvent ==
    /\ Consuming
    /\ \/ /\ events # <<>>
          /\ seen' = Append(seen, Head(events))
          /\ events' = Tail(events)
       \/ /\ events = <<>> /\ closed
          /\ seen = <<>> \/ seen[Len(seen)].kind # "eof"
          /\ seen' = Append(seen, [kind |-> "eof", n |-> 0])
          /\ UNCHANGED events
    /\ UNCHANGED <<use, callers, accepting, commands, ids, replies, pump, current, pending, peer,
                   taken, lost, closing, closed>>

Close ==
    /\ ~closing
    /\ closing' = TRUE /\ accepting' = FALSE /\ up' = FALSE
    /\ UNCHANGED <<use, callers, commands, ids, replies, pump, current, pending, wire, answered,
                   reader, reads, notices, stream, seen, closed>>

Next ==
    \/ \E c \in Call : Start(c) \/ CallStep(c) \/ EndContext(c)
    \/ PumpStep \/ Written \/ WriteFailed
    \/ ReadFrame \/ ReadFails \/ ReaderEnds
    \/ NextEvent \/ Close

Spec == Init /\ [][Next]_vars

\* Runnable goroutines run, and a transport's Write returns: callers pass it a
\* context with a deadline and closing the transport ends it.  Nobody has to
\* call, cancel, close or answer; a closed transport makes Read fail.
Fairness ==
    /\ \A c \in Call : WF_vars(CallStep(c))
    /\ WF_vars(PumpStep) /\ WF_vars(Written \/ WriteFailed)
    /\ WF_vars(ReaderEnds) /\ WF_vars(ReadFails /\ ~up) /\ WF_vars(NextEvent)

FairSpec == Spec /\ Fairness

-----------------------------------------------------------------------------
(* Properties. *)

\* Every variable has the type of what it models, and the queues their bound.
TypeOK ==
    /\ pc \in [Call -> {"idle", "enqueue", "wait", "withdraw", "cancelWrite", "sendCancel",
                        "awaitAck", "withdrawn", "cutAny", "done"}]
    /\ canceled \subseteq Call /\ pending \subseteq Call
    /\ wire \subseteq Call /\ answered \subseteq wire
    /\ phase \in [Call -> Evidence \cup {None}] /\ outcome \in [Call -> Evidence \cup {None}]
    /\ resultCh \in [Call -> Evidence \cup {None}] /\ ackCh \in [Call -> Evidence \cup {None}]
    /\ reserved \cup retired \cup withdrawn \cup queued \cup completed \subseteq Id
    /\ Len(commands) <= WriterCapacity /\ Len(reads) <= ReadCapacity
    /\ Len(events) <= EventCapacity + 2
    /\ pump \in {"select", "popped", "writing", "finish", "drain", "evict", "evicting",
                 "publish", "stopped"}
    /\ current \in Call \cup {None}
    /\ reader \in {"reading", "failed", "overflow", "stopped"}
    /\ {accepting, up, closing, closed} \subseteq BOOLEAN

\* A caller is told that its request was not written only if no byte of it
\* crosses the transport, before or after it is told: cancellation, response,
\* write failure and disconnect race in every order.  Requests that share an
\* ID are left out: a cancel command names the ID, and no caller reuses one.
OwnId(c) == \A d \in Call \ Notification : idOf[d] = idOf[c] => d = c
NotWrittenIsProven ==
    \A c \in Call : outcome[c] = NotWritten /\ OwnId(c) => c \notin wire

\* A response reaches the call that wrote the request it answers, although
\* request IDs are used again after a withdrawal.
ResponseIsOwn ==
    \A c \in Call : outcome[c] # None /\ outcome[c].evidence = "complete"
                        => outcome[c].answers = c

\* Nothing is lost in silence, although NextEvent and the eviction of finish
\* take from the same queue: a consumer sees notifications in order, then,
\* if it missed any, one gap that counts exactly those, then the disconnect,
\* then io.EOF.
StreamIsAccounted ==
    LET n == Cardinality({ k \in DOMAIN seen : seen[k].kind = "notice" })
        terminal == (IF n < taken THEN <<[kind |-> "gap", n |-> taken - n]>> ELSE <<>>)
                        \o <<[kind |-> "disconnected", n |-> 0], [kind |-> "eof", n |-> 0]>>
    IN /\ \A j, k \in 1..n : seen[k].kind = "notice" /\ (j < k => seen[j].n < seen[k].n)
       /\ \A k \in (n + 1)..Len(seen) : seen[k] = terminal[k - n]

\* A call whose context has ended returns.
CanceledCallReturns ==
    \A c \in Call : c \in canceled ~> pc[c] = "done"

\* "Dropping it here would leave the pump waiting forever", says readLoop of
\* the terminal read error: once reading has ended the client closes.
DisconnectCompletes == reader # "reading" ~> closed

\* "A closed stream returns io.EOF after the disconnect event": a consumer of
\* a client whose transport ended gets the disconnect and io.EOF.
ConsumerReachesEof ==
    reader # "reading" ~> \E k \in DOMAIN seen : seen[k].kind = "eof"
=============================================================================
