---------------------------- MODULE Remote_proofs ----------------------------
(***************************************************************************)
(* Proofs about what one machine does at another over ssh.  SSHProxy, for  *)
(* any uses of a child, any number of fragments of a message and any       *)
(* length of the read queue; RemoteCustody, for any deliverers, waiters,   *)
(* concurrent calls and finite set of replies.                             *)
(*                                                                         *)
(* SSHProxy: the child is started for one thing, and the sides it is not   *)
(* started for stay as they were (OneSide).  What is left are three        *)
(* invariants: where the message of a Write and its bytes are, where the   *)
(* chunks of the output are, and how far a control call has come.          *)
(*                                                                         *)
(* RemoteCustody: every call is a transaction of the custodian, so that    *)
(* what ReplyCustody_proofs shows holds here.  What was true of a decision *)
(* when an answer left stays true (TrueStays), so that the rows an import  *)
(* writes are copies of custody's however late it comes (LocalInv).        *)
(***************************************************************************)
EXTENDS SSHProxy, RemoteCustody, SequenceTheorems, FiniteSetTheorems,
        WellFoundedInduction, TLAPS

ConnType == [guard : {"armed", "ended", "expired", "stopped"},
             abort : {"no", "called", "signalled", "child", "done"},
             phase : Phases,
             writer : {"dialing", "adopting", "handshake", "idle", "admit", "store", "pending",
                       "expired", "stopped"},
             written : Nat, messages : Nat, deadline : {"none", "ahead", "passed"},
             result : Phases \cup {"none"}, failure : Phases \cup {"none"},
             watcher : Phases \cup {"watching", "left"}]
Item == {"chunk", "eof", "aborted"}
ReaderType == [pump : Item \cup {"reading", "ended"}, queue : Seq(Item), delivered : Nat,
               terminal : {"none", "eof", "aborted"}]
ControlType == [pc : {"start", "write", "read", "reap", "closing", "returned"},
                body : {"none", "empty", "response", "too_large", "error"},
                served : BOOLEAN, applied : BOOLEAN,
                result : {"none", "failed", "answered"}, evidence : Phases \cup {"none"}]

ProcessOK ==
    /\ use \in Uses /\ child \in {"none", "started", "failed"}
    /\ alive \in BOOLEAN /\ killed \in BOOLEAN /\ exit \in {"none", "ok", "failed"}
PipesOK ==
    /\ {stdin, stdout, stderr} \subseteq {"open", "closed"} /\ out \in Nat /\ read \in Nat
    /\ stdoutDone \in BOOLEAN /\ stderrDone \in BOOLEAN /\ reaped \in BOOLEAN
    /\ closing \in {"no", "waiting", "done"} /\ closeErr \in {"none", "kill", "timeout"}
    /\ pipe \in {"none", "writing", "ok", "failed"}
    /\ touched \in BOOLEAN /\ ever \in BOOLEAN /\ ctxEnded \in BOOLEAN
Typed == ProcessOK /\ PipesOK /\ conn \in ConnType /\ reader \in ReaderType /\ control \in ControlType

\* A process that is not alive any more does not come back, nor does it write.
ChildInv ==
    /\ ~Started => ~alive /\ exit = "none" /\ out = 0
    /\ alive => exit = "none"

OneSide ==
    /\ ~IsDial => conn = ConnInit /\ reader = ReaderInit
    /\ IsDial => control = ControlInit

\* Inside a message nothing has been said of it yet, and a fragment that is in
\* the pipe belongs to the message the Write is at, or to the last one there is.
InMessage == {"admit", "store", "pending", "expired"}
WriteInv ==
    /\ conn.writer \in InMessage => conn.written < Fragments /\ conn.messages > 0
    /\ conn.writer \in InMessage \cup {"dialing", "adopting", "handshake"} => conn.result = "none"
    /\ conn.result \in {"not_started", "complete"} => conn.writer = "idle"
    /\ IsDial /\ pipe # "none" => conn.writer \in {"pending", "expired", "stopped"}
    /\ IsDial /\ pipe = "ok" => touched
    /\ MessageEvidence
    /\ IsDial /\ conn.writer = "dialing" => child = "none"
    /\ DialLeavesNoChild

\* Every chunk that was read has been delivered, is queued, or is in the pump's
\* hands; only a pump that has ended may have dropped one, and then it did not
\* see the end of the stream.
Chunks(q) == \A j \in DOMAIN q : q[j] = "chunk"
ReadInv == IsDial =>
    /\ reader.pump # "reading" => Started
    /\ reader.pump # "ended" =>
          /\ Chunks(reader.queue) /\ reader.terminal = "none"
          /\ reader.delivered + Len(reader.queue) + (IF reader.pump = "chunk" THEN 1 ELSE 0) = read
    /\ reader.pump = "eof" => ~alive /\ read = out
    /\ \A j \in DOMAIN reader.queue : reader.queue[j] # "chunk" =>
          /\ j = Len(reader.queue) /\ reader.terminal = "none"
          /\ reader.queue[j] = "eof" =>
                ~alive /\ Started /\ read = out /\ reader.delivered + Len(reader.queue) - 1 = read
    /\ reader.terminal # "none" => reader.queue = <<>>
    /\ reader.terminal = "eof" => ~alive /\ Started /\ reader.delivered = out

\* Evidence of a control call follows the pipe its document is written to.
ControlInv == ~IsDial =>
    /\ control.pc = "start" => pipe = "none" /\ ~ever /\ control.evidence = "none"
    /\ control.pc # "returned" /\ control.pc # "closing" => control.result = "none" /\ control.evidence = "none"
    /\ control.evidence = "not_started" => control.pc = "returned" /\ pipe = "none" /\ ~ever
    /\ pipe \in {"none", "writing", "failed"} => ~control.served
    /\ pipe = "ok" => control.served
    /\ control.applied => control.served
    /\ control.pc \in {"read", "reap"} => control.served
    /\ control.evidence = "complete" => control.served
    /\ out > 0 => control.applied
    /\ control.body = "response" => out > 0
    /\ control.result = "answered" => control.applied /\ exit = "ok"

IInv == Typed /\ ChildInv /\ OneSide /\ WriteInv /\ ReadInv /\ ControlInv

-----------------------------------------------------------------------------
(* Types. *)

LEMMA ConnTypes ==
    ASSUME conn \in ConnType
    PROVE  /\ \A c \in ConnType : CloseAnd(c) \in ConnType
           /\ \A w \in {"adopting", "handshake", "idle", "admit", "store", "pending", "expired", "stopped"} :
                 GoOn(w) \in ConnType
           /\ \A e \in Phases, w \in {"idle", "stopped"} : MessageEnds(e, w) \in ConnType
           /\ MessageFails("not_started") \in ConnType /\ MessageFails("may_have_written") \in ConnType
  <1>1. \A c \in ConnType : CloseAnd(c) \in ConnType
    <2> SUFFICES ASSUME NEW c \in ConnType PROVE CloseAnd(c) \in ConnType
      OBVIOUS
    <2> QED
      BY DEF ConnType, CloseAnd
  <1>2. \A w \in {"adopting", "handshake", "idle", "admit", "store", "pending", "expired", "stopped"} :
           GoOn(w) \in ConnType
    BY DEF ConnType, GoOn
  <1>3. \A e \in Phases, w \in {"idle", "stopped"} : MessageEnds(e, w) \in ConnType
    BY DEF ConnType, MessageEnds
  <1> QED
    BY <1>1, <1>2, <1>3 DEF MessageFails, Phases

\* The steps that touch neither the child nor its pipes.
Quiet ==
    \/ ReceiverApplies \/ SetupEnds \/ GuardExpires \/ Adopt \/ Handshake
    \/ Close \/ AbortSignals \/ AbortReturns \/ WatcherCancels \/ WatcherLeaves \/ CancelRecords
    \/ DeadlinePasses \/ Admit \/ WriteCut \/ WriteExpires
    \/ ReadTakes \/ ControlWritten \/ ControlRead \/ ControlReaped \/ ControlReturns

LEMMA QuietSteps ==
    ASSUME Quiet
    PROVE  UNCHANGED <<use, child, alive, exit, killed, stdin, stdout, stderr, out, read, stdoutDone,
                       stderrDone, reaped, closing, closeErr, pipe, touched, ever, ctxEnded>>
  BY DEF Quiet, ReceiverApplies, SetupEnds, GuardExpires, Adopt, Handshake, Close, AbortSignals, AbortReturns,
     WatcherCancels, WatcherLeaves, CancelRecords, DeadlinePasses, Admit, WriteCut, WriteExpires, ReadTakes,
     ControlWritten, ControlRead, ControlReaped, ControlReturns,
     rest, rest2, restC, beside, process, pipes, closers, writing

LEMMA ProcessTyped ==
    ASSUME Typed, Next
    PROVE  ProcessOK' /\ PipesOK'
  <1> USE DEF rest, rest2, restC, beside, process, pipes, closers, writing
  <1>1. CASE ProcessWrites
    <2>1. ProcessOK'
      BY <1>1 DEF Typed, ProcessOK, ProcessWrites
    <2>2. PipesOK'
      BY <1>1 DEF Typed, PipesOK, ProcessWrites
    <2> QED
      BY <2>1, <2>2
  <1>2. ASSUME NEW code \in {"ok", "failed"}, ProcessExits(code) PROVE ProcessOK' /\ PipesOK'
    <2>1. ProcessOK'
      BY <1>2 DEF Typed, ProcessOK, ProcessExits
    <2>2. PipesOK'
      BY <1>2 DEF Typed, PipesOK, ProcessExits
    <2> QED
      BY <2>1, <2>2
  <1>3. CASE CollectStderr
    <2>1. ProcessOK'
      BY <1>3 DEF Typed, ProcessOK, CollectStderr
    <2>2. PipesOK'
      BY <1>3 DEF Typed, PipesOK, CollectStderr
    <2> QED
      BY <2>1, <2>2
  <1>4. CASE Reap
    <2>1. ProcessOK'
      BY <1>4 DEF Typed, ProcessOK, Reap
    <2>2. PipesOK'
      BY <1>4 DEF Typed, PipesOK, Reap
    <2> QED
      BY <2>1, <2>2
  <1>5. CASE FinishClose
    <2>1. ProcessOK'
      BY <1>5 DEF Typed, ProcessOK, FinishClose
    <2>2. PipesOK'
      BY <1>5 DEF Typed, PipesOK, FinishClose
    <2> QED
      BY <2>1, <2>2
  <1>6. CASE PipeWrite
    <2>1. ProcessOK'
      BY <1>6 DEF Typed, ProcessOK, PipeWrite
    <2>2. PipesOK'
      BY <1>6 DEF Typed, PipesOK, PipeWrite
    <2> QED
      BY <2>1, <2>2
  <1>7. CASE ContextEnds
    <2>1. ProcessOK'
      BY <1>7 DEF Typed, ProcessOK, ContextEnds
    <2>2. PipesOK'
      BY <1>7 DEF Typed, PipesOK, ContextEnds
    <2> QED
      BY <2>1, <2>2
  <1>8. CASE Dial
    <2>1. ProcessOK'
      BY <1>8 DEF Typed, ProcessOK, Dial, StartChild
    <2>2. PipesOK'
      BY <1>8 DEF Typed, PipesOK, Dial, StartChild
    <2> QED
      BY <2>1, <2>2
  <1>9. CASE AbortChild
    <2>1. ProcessOK'
      BY <1>9 DEF Typed, ProcessOK, AbortChild, BeginClose
    <2>2. PipesOK'
      BY <1>9 DEF Typed, PipesOK, AbortChild, BeginClose
    <2> QED
      BY <2>1, <2>2
  <1>10. CASE BeginMessage
    <2>1. ProcessOK'
      BY <1>10 DEF Typed, ProcessOK, BeginMessage
    <2>2. PipesOK'
      BY <1>10 DEF Typed, PipesOK, BeginMessage
    <2> QED
      BY <2>1, <2>2
  <1>11. CASE StorePhase
    <2>1. ProcessOK'
      BY <1>11 DEF Typed, ProcessOK, StorePhase
    <2>2. PipesOK'
      BY <1>11 DEF Typed, PipesOK, StorePhase
    <2> QED
      BY <2>1, <2>2
  <1>12. CASE WriteDone
    <2>1. ProcessOK'
      BY <1>12 DEF Typed, ProcessOK, WriteDone
    <2>2. PipesOK'
      BY <1>12 DEF Typed, PipesOK, WriteDone
    <2> QED
      BY <2>1, <2>2
  <1>13. CASE PumpReads
    <2>1. ProcessOK'
      BY <1>13 DEF Typed, ProcessOK, PumpReads
    <2>2. PipesOK'
      BY <1>13 DEF Typed, PipesOK, PumpReads
    <2> QED
      BY <2>1, <2>2
  <1>14. CASE PumpSends
    <2>1. ProcessOK'
      BY <1>14 DEF Typed, ProcessOK, PumpSends
    <2>2. PipesOK'
      BY <1>14 DEF Typed, PipesOK, PumpSends
    <2> QED
      BY <2>1, <2>2
  <1>15. CASE InvokeControl
    <2>1. ProcessOK'
      BY <1>15 DEF Typed, ProcessOK, InvokeControl, StartChild
    <2>2. PipesOK'
      BY <1>15 DEF Typed, PipesOK, InvokeControl, StartChild
    <2> QED
      BY <2>1, <2>2
  <1>16. CASE ControlCancels
    <2>1. ProcessOK'
      BY <1>16 DEF Typed, ProcessOK, ControlCancels, BeginClose
    <2>2. PipesOK'
      BY <1>16 DEF Typed, PipesOK, ControlCancels, BeginClose
    <2> QED
      BY <2>1, <2>2
  <1>17. CASE ControlReads
    <2>1. ProcessOK'
      BY <1>17 DEF Typed, ProcessOK, ControlReads
    <2>2. PipesOK'
      BY <1>17 DEF Typed, PipesOK, ControlReads
    <2> QED
      BY <2>1, <2>2
  <1>18. CASE ControlCloses
    <2>1. ProcessOK'
      BY <1>18 DEF Typed, ProcessOK, ControlCloses, BeginClose
    <2>2. PipesOK'
      BY <1>18 DEF Typed, PipesOK, ControlCloses, BeginClose
    <2> QED
      BY <2>1, <2>2
  <1>19. CASE Quiet
    BY <1>19, QuietSteps DEF Typed, ProcessOK, PipesOK
  <1> QED
    BY <1>1, <1>2, <1>3, <1>4, <1>5, <1>6, <1>7, <1>8, <1>9, <1>10, <1>11,
       <1>12, <1>13, <1>14, <1>15, <1>16, <1>17, <1>18, <1>19
       DEF Next, Peer, Child, Dials, Aborts, Writes, Reads, Controls, Quiet

LEMMA ConnTyped ==
    ASSUME Typed, Next
    PROVE  conn' \in ConnType
  <1> USE DEF rest, rest2, restC, beside, process, pipes, closers, writing
  <1>1. conn \in ConnType
    BY DEF Typed
  <1>2. CASE Dial
    BY <1>1, <1>2, ConnTypes DEF Dial
  <1>3. CASE SetupEnds
    BY <1>1, <1>3 DEF SetupEnds, ConnType
  <1>4. CASE GuardExpires
    <2>1. [conn EXCEPT !.guard = "expired"] \in ConnType
      BY <1>1 DEF ConnType
    <2> QED
      BY <1>1, <1>4, <2>1, ConnTypes DEF GuardExpires
  <1>5. CASE Adopt
    <2>1. GoOn("handshake") \in ConnType /\ GoOn("stopped") \in ConnType
      BY <1>1, ConnTypes
    <2>2. CloseAnd(GoOn("stopped")) \in ConnType
      BY <1>1, <2>1, ConnTypes
    <2> QED
      BY <1>5, <2>1, <2>2 DEF Adopt
  <1>6. CASE Handshake
    <2> DEFINE d == [conn EXCEPT !.guard = IF @ = "expired" THEN @ ELSE "stopped"]
    <2>1. d \in ConnType
      BY <1>1 DEF ConnType
    <2> HIDE DEF d
    <2>2. \A c \in ConnType : [c EXCEPT !.writer = "idle"] \in ConnType /\ [c EXCEPT !.writer = "stopped"] \in ConnType
      BY DEF ConnType
    <2>3. [d EXCEPT !.writer = "idle"] \in ConnType /\ CloseAnd([d EXCEPT !.writer = "stopped"]) \in ConnType
      BY <1>1, <2>1, <2>2, ConnTypes
    <2> QED
      BY <1>6, <2>3 DEF Handshake, d
  <1>7. CASE Close
    BY <1>1, <1>7, ConnTypes DEF Close
  <1>8. CASE AbortSignals \/ AbortChild \/ AbortReturns
    BY <1>1, <1>8 DEF AbortSignals, AbortChild, AbortReturns, ConnType
  <1>9. CASE WatcherCancels \/ WatcherLeaves
    BY <1>1, <1>9 DEF WatcherCancels, WatcherLeaves, ConnType
  <1>10. CASE CancelRecords
    <2> DEFINE f == IF conn.failure = "none" THEN conn.watcher ELSE conn.failure
    <2>1. f \in Phases \cup {"none"}
      BY <1>1, <1>10 DEF CancelRecords, ConnType, Phases
    <2> HIDE DEF f
    <2>2. [conn EXCEPT !.watcher = "left", !.failure = f] \in ConnType
      BY <1>1, <2>1 DEF ConnType
    <2> QED
      BY <1>1, <1>10, <2>2, ConnTypes DEF CancelRecords, f
  <1>11. CASE BeginMessage
    <2>1. conn.messages + 1 \in Nat
      BY <1>1 DEF ConnType
    <2>2. [conn EXCEPT !.messages = @ + 1, !.writer = "admit", !.written = 0,
                       !.result = "none", !.deadline = "ahead"] \in ConnType
      BY <1>1, <2>1 DEF ConnType
    <2>3. MessageEnds("not_started", "idle") \in ConnType
      <3>1. "not_started" \in Phases
        BY DEF Phases
      <3> QED
        BY <1>1, <3>1, ConnTypes
    <2> QED
      BY <1>11, <2>2, <2>3 DEF BeginMessage
  <1>12. CASE DeadlinePasses \/ StorePhase
    <2>1. [conn EXCEPT !.deadline = "passed"] \in ConnType
      BY <1>1 DEF ConnType
    <2>2. "may_have_written" \in Phases
      BY DEF Phases
    <2>3. [conn EXCEPT !.phase = "may_have_written", !.writer = "pending"] \in ConnType
      BY <1>1, <2>2 DEF ConnType
    <2> QED
      BY <1>12, <2>1, <2>3 DEF DeadlinePasses, StorePhase
  <1>13. CASE Admit \/ WriteCut \/ WriteExpires
    BY <1>1, <1>13, ConnTypes DEF Admit, WriteCut, WriteExpires
  <1>14. CASE WriteDone
    <2> DEFINE w == [conn EXCEPT !.phase = "complete", !.written = @ + 1]
    <2>1. w \in ConnType
      <3>1. conn.written + 1 \in Nat
        BY <1>1 DEF ConnType
      <3> QED
        BY <1>1, <3>1 DEF ConnType, Phases
    <2>2. \A c \in ConnType : [c EXCEPT !.writer = "admit"] \in ConnType
      BY DEF ConnType
    <2>3. \A c \in ConnType : [c EXCEPT !.result = "complete", !.writer = "idle"] \in ConnType
      <3> SUFFICES ASSUME NEW c \in ConnType
                   PROVE  [c EXCEPT !.result = "complete", !.writer = "idle"] \in ConnType
        OBVIOUS
      <3>1. "complete" \in Phases \cup {"none"}
        BY DEF Phases
      <3> QED
        BY <3>1 DEF ConnType
    <2> QED
      BY <1>1, <1>14, <2>1, <2>2, <2>3, ConnTypes DEF WriteDone
  <1>15. CASE Peer \/ Child \/ Reads \/ Controls
    BY <1>1, <1>15 DEF Peer, ProcessWrites, ProcessExits, ReceiverApplies, Child, CollectStderr, Reap, FinishClose,
       PipeWrite, ContextEnds, Reads, PumpReads, PumpSends, ReadTakes, Controls, InvokeControl, ControlCancels,
       ControlWritten, ControlReads, ControlRead, ControlReaped, ControlCloses, ControlReturns
  <1> QED
    BY <1>2, <1>3, <1>4, <1>5, <1>6, <1>7, <1>8, <1>9, <1>10, <1>11, <1>12, <1>13, <1>14, <1>15
       DEF Next, Dials, Aborts, Writes

LEMMA ReaderTyped ==
    ASSUME Typed, Next
    PROVE  reader' \in ReaderType
  <1> USE DEF rest, rest2, restC, beside, process, pipes, closers, writing
  <1>1. CASE PumpReads
    BY <1>1 DEF Typed, PumpReads, ReaderType, Item
  <1>2. CASE PumpSends
    <2>1. reader.pump \in Item /\ reader.queue \in Seq(Item)
      BY <1>2 DEF PumpSends, Typed, ReaderType, Item
    <2>2. Append(reader.queue, reader.pump) \in Seq(Item)
      BY <2>1
    <2> QED
      BY <1>2, <2>1, <2>2 DEF Typed, PumpSends, ReaderType
  <1>3. CASE ReadTakes
    <2>1. reader \in ReaderType /\ reader.queue \in Seq(Item) /\ reader.queue # <<>>
      BY <1>3 DEF ReadTakes, Typed, ReaderType
    <2>2. Head(reader.queue) \in Item /\ Tail(reader.queue) \in Seq(Item) /\ reader.delivered + 1 \in Nat
      BY <2>1 DEF ReaderType
    <2>3. CASE Head(reader.queue) = "chunk"
      BY <1>3, <2>1, <2>2, <2>3 DEF ReadTakes, ReaderType
    <2>4. CASE Head(reader.queue) \in {"eof", "aborted"}
      BY <1>3, <2>1, <2>2, <2>4 DEF ReadTakes, ReaderType
    <2> QED
      BY <2>2, <2>3, <2>4 DEF Item
  <1>4. CASE Peer \/ Child \/ Dials \/ Aborts \/ Writes \/ Controls
    BY <1>4 DEF Typed, Peer, ProcessWrites, ProcessExits, ReceiverApplies, Child, CollectStderr, Reap, FinishClose,
       PipeWrite, ContextEnds, Dials, Dial, SetupEnds, GuardExpires, Adopt, Handshake, Aborts, Close, AbortSignals,
       AbortChild, AbortReturns, WatcherCancels, WatcherLeaves, CancelRecords, Writes, BeginMessage, DeadlinePasses,
       Admit, StorePhase, WriteCut, WriteExpires, WriteDone, Controls, InvokeControl, ControlCancels,
       ControlWritten, ControlReads, ControlRead, ControlReaped, ControlCloses, ControlReturns
  <1> QED
    BY <1>1, <1>2, <1>3, <1>4 DEF Next, Reads

LEMMA ControlTyped ==
    ASSUME Typed, Next
    PROVE  control' \in ControlType
  <1> USE DEF rest, rest2, restC, beside, process, pipes, closers, writing
  <1>1. control \in ControlType
    BY DEF Typed
  <1>2. \A e \in Phases \cup {"none"} :
           Fails(e) \in ControlType /\ [Fails(e) EXCEPT !.pc = "returned"] \in ControlType
    BY <1>1 DEF Fails, ControlType
  <1>3. \A l \in {"write", "read", "reap", "closing", "returned"} : To(l) \in ControlType
    BY <1>1 DEF To, ControlType
  <1>4. CASE InvokeControl \/ ControlWritten \/ ControlRead
    BY <1>1, <1>2, <1>3, <1>4 DEF InvokeControl, ControlWritten, ControlRead, Phases
  <1>5. CASE ControlCancels \/ ControlReads \/ ControlCloses
    BY <1>1, <1>5 DEF ControlCancels, ControlReads, ControlCloses, ControlType
  <1>6. CASE ControlReaped
    <2>1. [To("closing") EXCEPT !.result = "answered"] \in ControlType
      BY <1>1 DEF To, ControlType
    <2> QED
      BY <1>1, <1>2, <1>6, <2>1 DEF ControlReaped, Judge, Phases
  <1>7. CASE ControlReturns
    BY <1>1, <1>7 DEF ControlReturns, To, ControlType
  <1>8. CASE PipeWrite
    <2>1. PICK b \in BOOLEAN : control' = [control EXCEPT !.served = b]
      BY <1>8 DEF PipeWrite
    <2> QED
      BY <1>1, <2>1 DEF ControlType
  <1>9. CASE ReceiverApplies
    BY <1>1, <1>9 DEF ReceiverApplies, ControlType
  <1>10. CASE Dials \/ Aborts \/ Writes \/ Reads
    BY <1>1, <1>10 DEF Dials, Dial, SetupEnds, GuardExpires, Adopt, Handshake, Aborts, Close, AbortSignals,
       AbortChild, AbortReturns, WatcherCancels, WatcherLeaves, CancelRecords, Writes, BeginMessage, DeadlinePasses,
       Admit, StorePhase, WriteCut, WriteExpires, WriteDone, Reads, PumpReads, PumpSends, ReadTakes
  <1>11. CASE ProcessWrites \/ (\E code \in {"ok", "failed"} : ProcessExits(code)) \/ CollectStderr \/ Reap
              \/ FinishClose \/ ContextEnds
    BY <1>1, <1>11 DEF ProcessWrites, ProcessExits, CollectStderr, Reap, FinishClose, ContextEnds
  <1> QED
    BY <1>4, <1>5, <1>6, <1>7, <1>8, <1>9, <1>10, <1>11 DEF Next, Peer, Child, Controls

LEMMA TypedStep ==
    ASSUME Typed, Next
    PROVE  Typed'
  BY ProcessTyped, ConnTyped, ReaderTyped, ControlTyped DEF Typed

-----------------------------------------------------------------------------
(* The side that a child was not started for, and the process. *)

LEMMA UseStays ==
    ASSUME Next
    PROVE  use' = use /\ (IsDial' <=> IsDial)
  <1>1. use' = use
    BY DEF Next, Peer, ProcessWrites, ProcessExits, ReceiverApplies, Child, CollectStderr, Reap, FinishClose,
       PipeWrite, ContextEnds, Dials, Dial, SetupEnds, GuardExpires, Adopt, Handshake, Aborts, Close, AbortSignals,
       AbortChild, AbortReturns, WatcherCancels, WatcherLeaves, CancelRecords, Writes, BeginMessage, DeadlinePasses,
       Admit, StorePhase, WriteCut, WriteExpires, WriteDone, Reads, PumpReads, PumpSends, ReadTakes, Controls,
       InvokeControl, ControlCancels, ControlWritten, ControlReads, ControlRead, ControlReaped, ControlCloses,
       ControlReturns, rest, rest2, restC, beside
  <1> QED
    BY <1>1 DEF IsDial

LEMMA NoDialSteps ==
    ASSUME OneSide, ~IsDial
    PROVE  ~Dials /\ ~Aborts /\ ~Writes /\ ~Reads
  BY DEF OneSide, ConnInit, ReaderInit, Dials, Dial, SetupEnds, GuardExpires, Adopt, Handshake, Aborts, Close,
     AbortSignals, AbortChild, AbortReturns, WatcherCancels, WatcherLeaves, CancelRecords, Writes, BeginMessage,
     DeadlinePasses, Admit, StorePhase, WriteCut, WriteExpires, WriteDone, Reads, PumpReads, PumpSends, ReadTakes,
     Dialed

LEMMA NoControlSteps ==
    ASSUME OneSide, IsDial
    PROVE  ~Controls /\ ~ReceiverApplies
  BY DEF OneSide, ControlInit, ReceiverApplies, Controls, InvokeControl, ControlCancels, ControlWritten,
     ControlReads, ControlRead, ControlReaped, ControlCloses, ControlReturns, At

LEMMA OneSideStep ==
    ASSUME OneSide, Next
    PROVE  OneSide'
  <1>1. CASE ~IsDial
    <2>1. conn' = conn /\ reader' = reader
      BY <1>1, NoDialSteps DEF Next, Peer, ProcessWrites, ProcessExits, ReceiverApplies, Child, CollectStderr,
         Reap, FinishClose, PipeWrite, ContextEnds, Controls, InvokeControl, ControlCancels, ControlWritten,
         ControlReads, ControlRead, ControlReaped, ControlCloses, ControlReturns, restC, beside
    <2> QED
      BY <1>1, <2>1, UseStays DEF OneSide, ConnInit, ReaderInit
  <1>2. CASE IsDial
    <2>1. CASE PipeWrite
      <3>1. control' = [control EXCEPT !.served = FALSE]
        BY <1>2, <2>1 DEF PipeWrite
      <3>2. [ControlInit EXCEPT !.served = FALSE] = ControlInit
        <4>1. \A c \in ControlType : c.served = FALSE => [c EXCEPT !.served = FALSE] = c
          BY DEF ControlType
        <4>2. ControlInit \in ControlType /\ ControlInit.served = FALSE
          BY DEF ControlType, ControlInit
        <4> QED
          BY <4>1, <4>2
      <3>3. conn' = conn /\ reader' = reader
        BY <2>1 DEF PipeWrite
      <3>4. control = ControlInit /\ (IsDial' <=> IsDial)
        BY <1>2, UseStays DEF OneSide
      <3>5. control' = ControlInit
        BY <3>1, <3>2, <3>4
      <3> QED
        BY <1>2, <3>4, <3>5 DEF OneSide, ControlInit
    <2>2. CASE ~PipeWrite
      <3>1. control' = control
        BY <1>2, <2>2, NoControlSteps DEF Next, Peer, ProcessWrites, ProcessExits, Child, CollectStderr, Reap,
           FinishClose, ContextEnds, Dials, Dial, SetupEnds, GuardExpires, Adopt, Handshake, Aborts, Close,
           AbortSignals, AbortChild, AbortReturns, WatcherCancels, WatcherLeaves, CancelRecords, Writes,
           BeginMessage, DeadlinePasses, Admit, StorePhase, WriteCut, WriteExpires, WriteDone, Reads, PumpReads,
           PumpSends, ReadTakes, rest, rest2
      <3> QED
        BY <1>2, <3>1, UseStays DEF OneSide, ControlInit
    <2> QED
      BY <2>1, <2>2
  <1> QED
    BY <1>1, <1>2

\* What a step may do to the process.
LEMMA ProcessMoves ==
    ASSUME Typed, ChildInv, Next
    PROVE  \/ UNCHANGED <<child, alive, exit, out>>
           \/ UNCHANGED <<child, alive, exit>> /\ alive /\ out' = out + 1 /\ ProcessWrites
           \/ UNCHANGED <<child, out>> /\ alive /\ ~alive' /\ exit' \in {"ok", "failed"}
           \/ child = "none" /\ UNCHANGED <<exit, out>> /\ (alive' => Started')
  <1> USE DEF rest, rest2, restC, beside, process, pipes, closers, writing
  <1>1. CASE Dial \/ InvokeControl
    BY <1>1 DEF Dial, InvokeControl, StartChild, Started
  <1>2. CASE ProcessWrites
    BY <1>2 DEF ProcessWrites
  <1>3. CASE \E code \in {"ok", "failed"} : ProcessExits(code)
    BY <1>3 DEF ProcessExits
  <1>4. CASE Quiet
    BY <1>4, QuietSteps
  <1>5. CASE CollectStderr \/ Reap \/ FinishClose \/ PipeWrite \/ ContextEnds \/ BeginMessage \/ StorePhase
             \/ WriteDone \/ PumpReads \/ PumpSends
    BY <1>5 DEF CollectStderr, Reap, FinishClose, PipeWrite, ContextEnds, BeginMessage, StorePhase, WriteDone,
       PumpReads, PumpSends
  <1>6. CASE AbortChild \/ ControlCancels \/ ControlReads \/ ControlCloses
    BY <1>6 DEF AbortChild, ControlCancels, ControlReads, ControlCloses, BeginClose
  <1> QED
    BY <1>1, <1>2, <1>3, <1>4, <1>5, <1>6 DEF Next, Peer, Child, Dials, Aborts, Writes, Reads, Controls, Quiet

LEMMA ChildStep ==
    ASSUME Typed, ChildInv, Next
    PROVE  ChildInv'
  BY ProcessMoves DEF Typed, ProcessOK, ChildInv, Started

-----------------------------------------------------------------------------
(* The bytes of a message.  A step of Dial's side moves one of: where the    *)
(* Write is, the pipe, or the abort.                                          *)

\* The steps that leave the connection, its pipe and the child alone.
LEMMA BesideWrites ==
    ASSUME WriteInv, Typed, Next,
           UNCHANGED <<conn, pipe, touched>>, child' = child \/ ~IsDial
    PROVE  IsDial => WriteInv'
  <1> SUFFICES ASSUME IsDial PROVE WriteInv'
    OBVIOUS
  <1>1. IsDial' /\ use' = use /\ child' = child
    BY UseStays
  <1> QED
    BY <1>1 DEF WriteInv, MessageEvidence, DialLeavesNoChild, Started

LEMMA DialWrites ==
    ASSUME Typed, WriteInv, IsDial, Dials
    PROVE  WriteInv'
  <1> USE DEF rest, process, pipes, closers, writing
  <1>1. conn \in ConnType /\ conn' \in ConnType /\ use' = use /\ IsDial' /\ UNCHANGED <<pipe, touched>>
    <2>1. Next
      BY DEF Next
    <2>2. UNCHANGED <<pipe, touched>>
      BY DEF Dials, Dial, SetupEnds, GuardExpires, Adopt, Handshake
    <2> QED
      BY <2>1, <2>2, UseStays, ConnTyped DEF Typed
  <1>2. /\ conn'.written = conn.written /\ conn'.messages = conn.messages /\ conn'.result = conn.result
        /\ conn.abort # "no" => conn'.abort # "no"
    <2>1. CASE Dial
      <3>1. \E w \in {"adopting", "stopped"} : conn' = GoOn(w)
        BY <2>1 DEF Dial
      <3> QED
        BY <1>1, <3>1 DEF GoOn, ConnType
    <2>2. CASE SetupEnds
      BY <1>1, <2>2 DEF SetupEnds, ConnType
    <2>3. CASE GuardExpires
      BY <1>1, <2>3 DEF GuardExpires, CloseAnd, ConnType
    <2>4. CASE Adopt
      <3>1. CASE conn' = GoOn("handshake")
        BY <1>1, <3>1 DEF GoOn, ConnType
      <3>2. CASE conn' = CloseAnd(GoOn("stopped"))
        BY <1>1, <3>2 DEF GoOn, CloseAnd, ConnType
      <3> QED
        BY <2>4, <3>1, <3>2 DEF Adopt
    <2>5. CASE Handshake
      <3> DEFINE detached == [conn EXCEPT !.guard = IF @ = "expired" THEN @ ELSE "stopped"]
      <3>1. CASE conn' = [detached EXCEPT !.writer = "idle"]
        BY <1>1, <3>1 DEF ConnType
      <3>2. CASE conn' = CloseAnd([detached EXCEPT !.writer = "stopped"])
        BY <1>1, <3>2 DEF CloseAnd, ConnType
      <3> QED
        BY <2>5, <3>1, <3>2 DEF Handshake
    <2> QED
      BY <2>1, <2>2, <2>3, <2>4, <2>5 DEF Dials
  <1>3. \/ conn'.writer = conn.writer /\ child' = child
        \/ /\ conn.writer = "dialing" /\ conn'.writer \in {"adopting", "stopped"}
           /\ conn'.writer = "stopped" => ~Started'
        \/ /\ conn.writer \in {"adopting", "handshake"} /\ child' = child
           /\ conn'.writer \in {"handshake", "idle", "stopped"}
           /\ conn'.writer = "stopped" => conn'.abort # "no"
    <2>1. CASE Dial
      BY <1>1, <2>1 DEF Dial, StartChild, GoOn, ConnType, WriteInv, Started
    <2>2. CASE SetupEnds
      BY <1>1, <2>2 DEF SetupEnds, ConnType
    <2>3. CASE GuardExpires
      BY <1>1, <2>3 DEF GuardExpires, CloseAnd, ConnType
    <2>4. CASE Adopt
      BY <1>1, <2>4 DEF Adopt, GoOn, CloseAnd, ConnType
    <2>5. CASE Handshake
      BY <1>1, <2>5 DEF Handshake, CloseAnd, ConnType
    <2> QED
      BY <2>1, <2>2, <2>3, <2>4, <2>5 DEF Dials
  <1> QED
    BY <1>1, <1>2, <1>3 DEF WriteInv, MessageEvidence, DialLeavesNoChild, InMessage, Started

LEMMA AbortWrites ==
    ASSUME Typed, WriteInv, IsDial, Aborts
    PROVE  WriteInv'
  <1> USE DEF rest, process, pipes, closers, writing
  <1>1. conn \in ConnType /\ use' = use /\ IsDial'
    <2>1. Next
      BY DEF Next
    <2> QED
      BY <2>1, UseStays DEF Typed
  <1>2. UNCHANGED <<pipe, touched, child>>
    BY DEF Aborts, Close, AbortSignals, AbortChild, AbortReturns, WatcherCancels, WatcherLeaves, CancelRecords,
       BeginClose
  <1>3. /\ conn'.written = conn.written /\ conn'.messages = conn.messages /\ conn'.result = conn.result
        /\ conn'.writer = conn.writer
        /\ conn.abort # "no" => conn'.abort # "no"
    <2>1. CASE Close
      BY <1>1, <2>1 DEF Close, CloseAnd, ConnType
    <2>2. CASE AbortSignals \/ AbortChild \/ AbortReturns
      BY <1>1, <2>2 DEF AbortSignals, AbortChild, AbortReturns, ConnType
    <2>3. CASE WatcherCancels \/ WatcherLeaves
      BY <1>1, <2>3 DEF WatcherCancels, WatcherLeaves, ConnType
    <2>4. CASE CancelRecords
      BY <1>1, <2>4 DEF CancelRecords, CloseAnd, ConnType
    <2> QED
      BY <2>1, <2>2, <2>3, <2>4 DEF Aborts
  <1> QED
    BY <1>1, <1>2, <1>3 DEF WriteInv, MessageEvidence, DialLeavesNoChild, InMessage, Started

LEMMA MessageWrites ==
    ASSUME Typed, WriteInv, IsDial, Writes
    PROVE  WriteInv'
  <1> USE DEF rest, process, pipes, closers, writing
  <1>1. conn \in ConnType /\ use' = use /\ IsDial' /\ Fragments \in Nat \ {0}
    <2>1. Next
      BY DEF Next
    <2> QED
      BY <2>1, UseStays, SizeAssumption DEF Typed
  <1>2. child' = child
    BY DEF Writes, BeginMessage, DeadlinePasses, Admit, StorePhase, WriteCut, WriteExpires, WriteDone
  <1>3. conn.abort # "no" => conn'.abort # "no"
    <2>1. CASE BeginMessage \/ DeadlinePasses \/ StorePhase
      BY <1>1, <2>1 DEF BeginMessage, MessageEnds, DeadlinePasses, StorePhase, ConnType
    <2>2. CASE Admit \/ WriteCut
      BY <1>1, <2>2 DEF Admit, WriteCut, MessageFails, MessageEnds, GoOn, ConnType
    <2>3. CASE WriteExpires
      BY <1>1, <2>3 DEF WriteExpires, MessageFails, MessageEnds, GoOn, CloseAnd, ConnType
    <2>4. CASE WriteDone
      BY <1>1, <2>4 DEF WriteDone, MessageFails, MessageEnds, ConnType
    <2> QED
      BY <2>1, <2>2, <2>3, <2>4 DEF Writes
  <1>4. CASE BeginMessage
    <2>1. \/ conn'.writer = "idle" /\ conn'.result = "not_started" /\ conn'.messages = conn.messages
             /\ conn'.written = conn.written
          \/ conn'.writer = "admit" /\ conn'.result = "none" /\ conn'.messages = conn.messages + 1
             /\ conn'.written = 0
      BY <1>1, <1>4 DEF BeginMessage, MessageEnds, ConnType
    <2>2. ~touched' /\ pipe' = pipe /\ pipe = "none"
      BY <1>4 DEF BeginMessage, WriteInv, Typed, PipesOK
    <2>3. conn.messages \in Nat
      BY <1>1 DEF ConnType
    <2>4. conn.writer = "idle"
      BY <1>4 DEF BeginMessage
    <2>5. MessageEvidence'
      BY <2>1, <2>2 DEF MessageEvidence
    <2>6. DialLeavesNoChild'
      BY <2>1 DEF DialLeavesNoChild
    <2> QED
      BY <1>1, <1>2, <2>1, <2>2, <2>3, <2>4, <2>5, <2>6 DEF WriteInv, InMessage
  <1>5. CASE DeadlinePasses \/ Admit \/ WriteCut \/ WriteExpires
    <2>1. UNCHANGED <<pipe, touched>>
      BY <1>5 DEF DeadlinePasses, Admit, WriteCut, WriteExpires
    <2>2. /\ conn'.written = conn.written /\ conn'.messages = conn.messages /\ conn.writer \in InMessage
          /\ \/ conn'.writer = conn.writer /\ conn'.result = conn.result
             \/ conn'.writer = "stopped" /\ conn'.result = "may_have_written"
             \/ conn.writer = "admit" /\ conn'.writer = "store" /\ conn'.result = conn.result
             \/ conn.writer = "pending" /\ conn'.writer = "expired" /\ conn'.result = conn.result
      BY <1>1, <1>5 DEF DeadlinePasses, Admit, WriteCut, WriteExpires, MessageFails, MessageEnds, GoOn, CloseAnd,
         ConnType, InMessage
    <2> QED
      BY <1>1, <1>2, <2>1, <2>2 DEF WriteInv, MessageEvidence, DialLeavesNoChild, InMessage
  <1>6. CASE StorePhase
    <2>1. /\ conn'.written = conn.written /\ conn'.messages = conn.messages /\ conn'.result = conn.result
          /\ conn.writer = "store" /\ conn'.writer = "pending" /\ pipe' = "writing" /\ touched' = touched
      BY <1>1, <1>6 DEF StorePhase, ConnType
    <2> QED
      BY <1>1, <1>2, <2>1 DEF WriteInv, MessageEvidence, DialLeavesNoChild, InMessage
  <1>7. CASE WriteDone
    <2>1. /\ conn'.messages = conn.messages /\ conn.writer = "pending" /\ pipe' = "none" /\ touched' = touched
          /\ \/ conn'.writer = "stopped" /\ conn'.result = "may_have_written" /\ conn'.written = conn.written
             \/ pipe = "ok" /\ conn'.writer = "admit" /\ conn'.written = conn.written + 1
                /\ conn'.written < Fragments /\ conn'.result = conn.result
             \/ pipe = "ok" /\ conn'.writer = "idle" /\ conn'.written = conn.written + 1
                /\ ~(conn'.written < Fragments) /\ conn'.result = "complete"
      BY <1>1, <1>7 DEF WriteDone, MessageFails, MessageEnds, ConnType
    <2>2. conn.written \in Nat /\ conn.written < Fragments
      BY <1>1, <2>1 DEF ConnType, WriteInv, InMessage
    <2>3. conn.messages > 0 /\ conn.result = "none"
      BY <2>1 DEF WriteInv, InMessage
    <2>4. pipe = "ok" => touched
      BY DEF WriteInv
    <2>5. MessageEvidence'
      BY <1>1, <2>1, <2>2, <2>3, <2>4 DEF MessageEvidence
    <2>6. DialLeavesNoChild'
      BY <2>1, <2>3 DEF DialLeavesNoChild
    <2> QED
      BY <1>1, <1>2, <2>1, <2>2, <2>3, <2>5, <2>6 DEF WriteInv, InMessage
  <1> QED
    BY <1>4, <1>5, <1>6, <1>7 DEF Writes

LEMMA PipeWrites ==
    ASSUME Typed, WriteInv, IsDial, PipeWrite
    PROVE  WriteInv'
  <1>1. use' = use /\ IsDial' /\ conn' = conn /\ child' = child
    <2>1. Next
      BY DEF Next, Child
    <2> QED
      BY <2>1, UseStays DEF PipeWrite, process
  <1>2. pipe = "writing" /\ pipe' \in {"ok", "failed"} /\ (touched => touched') /\ (pipe' = "ok" => touched')
    BY DEF PipeWrite
  <1>3. conn.writer \in {"pending", "expired", "stopped"} /\ conn.result # "not_started"
    BY <1>2 DEF WriteInv
  <1>4. MessageEvidence'
    BY <1>1, <1>2, <1>3 DEF MessageEvidence, WriteInv
  <1>5. DialLeavesNoChild'
    BY <1>1 DEF DialLeavesNoChild, WriteInv, Started
  <1> QED
    BY <1>1, <1>2, <1>3, <1>4, <1>5 DEF WriteInv

LEMMA WriteStep ==
    ASSUME Typed, OneSide, WriteInv, Next
    PROVE  WriteInv'
  <1> USE DEF rest, rest2, beside, process, pipes, closers, writing
  <1>1. CASE ~IsDial
    <2>1. conn' = ConnInit /\ ~IsDial'
      BY <1>1, OneSideStep, UseStays DEF OneSide
    <2> QED
      BY <2>1 DEF WriteInv, MessageEvidence, DialLeavesNoChild, ConnInit, InMessage
  <1>2. CASE IsDial
    <2>1. CASE Peer \/ Reads \/ CollectStderr \/ Reap \/ FinishClose \/ ContextEnds
      <3>1. UNCHANGED <<conn, pipe, touched, child>>
        BY <1>2, <2>1, NoControlSteps DEF Peer, ProcessWrites, ProcessExits, Reads, PumpReads, PumpSends,
           ReadTakes, CollectStderr, Reap, FinishClose, ContextEnds
      <3> QED
        BY <1>2, <3>1, BesideWrites
    <2> QED
      BY <1>2, <2>1, NoControlSteps, DialWrites, AbortWrites, MessageWrites, PipeWrites DEF Next, Child
  <1> QED
    BY <1>1, <1>2

-----------------------------------------------------------------------------
(* The chunks of the output. *)

LEMMA AppendFacts ==
    ASSUME NEW q \in Seq(Item), NEW x \in Item
    PROVE  /\ Len(Append(q, x)) = Len(q) + 1 /\ DOMAIN Append(q, x) = 1..(Len(q) + 1)
           /\ \A j \in 1..Len(q) : Append(q, x)[j] = q[j]
           /\ Append(q, x)[Len(q) + 1] = x
  OBVIOUS

LEMMA TailFacts ==
    ASSUME NEW q \in Seq(Item), q # <<>>
    PROVE  /\ Len(q) \in Nat /\ Len(q) > 0 /\ Head(q) = q[1] /\ Len(Tail(q)) = Len(q) - 1
           /\ DOMAIN Tail(q) = 1..(Len(q) - 1)
           /\ \A j \in 1..(Len(q) - 1) : Tail(q)[j] = q[j + 1]
  BY HeadTailProperties

\* What the process does, and the start of one, in the eyes of its reader.
LEMMA BesideReads ==
    ASSUME Typed, ChildInv, ReadInv, IsDial, Next, UNCHANGED <<reader, read>>
    PROVE  ReadInv'
  <1>1. IsDial' /\ UNCHANGED <<reader, read>>
    BY UseStays
  <1>2. CASE UNCHANGED <<child, alive, exit, out>>
    BY <1>1, <1>2 DEF ReadInv, Chunks, Started
  <1>3. CASE UNCHANGED <<child, alive, exit>> /\ alive /\ out' = out + 1
    BY <1>1, <1>3 DEF ReadInv, Chunks, Started
  <1>4. CASE UNCHANGED <<child, out>> /\ alive /\ ~alive'
    BY <1>1, <1>4 DEF ReadInv, Chunks, Started
  <1>5. CASE child = "none"
    <2>1. ~Started
      BY <1>5 DEF Started
    <2>2. reader.pump = "reading" /\ Chunks(reader.queue) /\ reader.terminal = "none"
          /\ reader.delivered + Len(reader.queue) = read
      BY <2>1 DEF ReadInv, Typed, ReaderType, PipesOK
    <2> QED
      BY <1>1, <2>2 DEF ReadInv, Chunks
  <1> QED
    BY <1>2, <1>3, <1>4, <1>5, ProcessMoves

LEMMA PumpReadsKeeps ==
    ASSUME Typed, ReadInv, IsDial, PumpReads
    PROVE  ReadInv'
  <1>1. IsDial' /\ UNCHANGED <<child, alive, out>>
    <2>1. Next
      BY DEF Next, Reads
    <2> QED
      BY <2>1, UseStays DEF PumpReads, rest2, beside, process
  <1>2. Started /\ reader.pump = "reading"
    BY DEF PumpReads, Dialed
  <1>3. Chunks(reader.queue) /\ reader.terminal = "none" /\ reader.delivered + Len(reader.queue) = read
    BY <1>2 DEF ReadInv, Typed, ReaderType, PipesOK
  <1>4. /\ reader'.queue = reader.queue /\ reader'.delivered = reader.delivered
        /\ reader'.terminal = reader.terminal
        /\ \/ reader'.pump = "chunk" /\ read' = read + 1
           \/ reader'.pump = "eof" /\ read' = read /\ ~alive /\ read = out
           \/ reader'.pump = "aborted" /\ read' = read
    BY DEF PumpReads, Typed, ReaderType
  <1>5. reader.queue \in Seq(Item) /\ reader.delivered \in Nat /\ read \in Nat
    BY DEF Typed, ReaderType, PipesOK
  <1> QED
    BY <1>1, <1>2, <1>3, <1>4, <1>5 DEF ReadInv, Chunks, Started

LEMMA PumpSendsKeeps ==
    ASSUME Typed, ReadInv, IsDial, PumpSends
    PROVE  ReadInv'
  <1>1. IsDial' /\ UNCHANGED <<child, alive, out, read>>
    <2>1. Next
      BY DEF Next, Reads
    <2> QED
      BY <2>1, UseStays DEF PumpSends, rest2, beside, process
  <1> DEFINE q == reader.queue
  <1>2. reader.pump \in Item /\ q \in Seq(Item) /\ reader.delivered \in Nat /\ read \in Nat /\ DOMAIN q = 1..Len(q)
        /\ Len(q) \in Nat
    BY DEF PumpSends, Typed, ReaderType, PipesOK, Item
  <1>3. /\ Started /\ Chunks(q) /\ reader.terminal = "none"
        /\ reader.delivered + Len(q) + (IF reader.pump = "chunk" THEN 1 ELSE 0) = read
        /\ reader.pump = "eof" => ~alive /\ read = out
    BY <1>2 DEF ReadInv, Item
  <1>4. /\ reader'.delivered = reader.delivered /\ reader'.terminal = "none"
        /\ \/ /\ reader'.queue = Append(q, reader.pump)
              /\ reader'.pump = IF reader.pump = "chunk" THEN "reading" ELSE "ended"
           \/ reader'.queue = q /\ reader'.pump = "ended"
    BY <1>3 DEF PumpSends, Typed, ReaderType
  <1>5. CASE reader'.queue = q /\ reader'.pump = "ended"
    BY <1>1, <1>3, <1>4, <1>5 DEF ReadInv, Chunks, Started
  <1>6. CASE /\ reader'.queue = Append(q, reader.pump)
             /\ reader'.pump = IF reader.pump = "chunk" THEN "reading" ELSE "ended"
    <2> DEFINE r == reader'.queue
    <2>1. /\ Len(r) = Len(q) + 1 /\ DOMAIN r = 1..(Len(q) + 1)
          /\ \A j \in 1..Len(q) : r[j] = q[j]
          /\ r[Len(q) + 1] = reader.pump
      BY <1>2, <1>6, AppendFacts
    <2>2. \A j \in 1..Len(q) : r[j] = "chunk"
      BY <1>2, <1>3, <2>1 DEF Chunks
    <2>3. \A j \in DOMAIN r : j = Len(q) + 1 \/ r[j] = "chunk"
      BY <1>2, <2>1, <2>2
    <2> HIDE DEF q, r
    <2>4. CASE reader.pump = "chunk"
      <3>1. Chunks(r)
        BY <2>1, <2>3, <2>4 DEF Chunks
      <3> QED
        BY <1>1, <1>2, <1>3, <1>4, <1>6, <2>1, <2>4, <3>1 DEF ReadInv, Chunks, Started, r
    <2>5. CASE reader.pump \in {"eof", "aborted"}
      BY <1>1, <1>2, <1>3, <1>4, <1>6, <2>1, <2>3, <2>5 DEF ReadInv, Chunks, Started, r
    <2> QED
      BY <1>2, <2>4, <2>5 DEF Item
  <1> QED
    BY <1>4, <1>5, <1>6

LEMMA ReadTakesKeeps ==
    ASSUME Typed, ReadInv, IsDial, ReadTakes
    PROVE  ReadInv'
  <1>1. IsDial' /\ UNCHANGED <<child, alive, out, read>>
    <2>1. Next
      BY DEF Next, Reads
    <2> QED
      BY <2>1, UseStays DEF ReadTakes, rest2, beside, process
  <1> DEFINE q == reader.queue
  <1>2. q \in Seq(Item) /\ q # <<>> /\ reader.terminal = "none" /\ reader.delivered \in Nat /\ read \in Nat
    BY DEF ReadTakes, Typed, ReaderType, PipesOK
  <1>3. /\ Len(q) \in Nat /\ Len(q) > 0 /\ Head(q) = q[1] /\ Len(Tail(q)) = Len(q) - 1
        /\ DOMAIN Tail(q) = 1..(Len(q) - 1) /\ DOMAIN q = 1..Len(q) /\ 1 \in DOMAIN q
        /\ \A j \in DOMAIN Tail(q) : j + 1 \in DOMAIN q /\ Tail(q)[j] = q[j + 1]
    BY <1>2, TailFacts
  <1>4. /\ reader'.queue = Tail(q) /\ reader'.pump = reader.pump
        /\ reader'.delivered = IF Head(q) = "chunk" THEN reader.delivered + 1 ELSE reader.delivered
        /\ reader'.terminal = IF Head(q) = "chunk" THEN "none" ELSE Head(q)
    BY <1>2 DEF ReadTakes, Typed, ReaderType
  <1>5. CASE Head(q) = "chunk"
    <2>1. reader'.terminal = "none" /\ reader'.delivered = reader.delivered + 1
      BY <1>4, <1>5
    <2>2. reader.pump # "ended" =>
             /\ Chunks(Tail(q))
             /\ reader.delivered + 1 + Len(Tail(q)) + (IF reader.pump = "chunk" THEN 1 ELSE 0) = read
      <3> SUFFICES ASSUME reader.pump # "ended"
                   PROVE  /\ Chunks(Tail(q))
                          /\ reader.delivered + 1 + Len(Tail(q)) + (IF reader.pump = "chunk" THEN 1 ELSE 0) = read
        OBVIOUS
      <3>1. Chunks(q) /\ reader.delivered + Len(q) + (IF reader.pump = "chunk" THEN 1 ELSE 0) = read
        BY DEF ReadInv
      <3>2. Chunks(Tail(q))
        BY <1>3, <3>1 DEF Chunks
      <3>3. reader.delivered + 1 + Len(Tail(q)) = reader.delivered + Len(q)
        BY <1>2, <1>3
      <3> QED
        BY <3>1, <3>2, <3>3
    <2>3. \A j \in DOMAIN Tail(q) : Tail(q)[j] # "chunk" =>
             /\ j = Len(Tail(q))
             /\ Tail(q)[j] = "eof" => ~alive /\ Started /\ read = out
                                      /\ reader.delivered + 1 + Len(Tail(q)) - 1 = read
      <3> SUFFICES ASSUME NEW j \in DOMAIN Tail(q), Tail(q)[j] # "chunk"
                   PROVE  /\ j = Len(Tail(q))
                          /\ Tail(q)[j] = "eof" => ~alive /\ Started /\ read = out
                                                   /\ reader.delivered + 1 + Len(Tail(q)) - 1 = read
        OBVIOUS
      <3>1. j + 1 \in DOMAIN q /\ Tail(q)[j] = q[j + 1] /\ j \in Nat
        BY <1>3
      <3>2. /\ j + 1 = Len(q)
            /\ q[j + 1] = "eof" => ~alive /\ Started /\ read = out /\ reader.delivered + Len(q) - 1 = read
        BY <3>1 DEF ReadInv
      <3>3. Len(Tail(q)) = j /\ Len(q) = j + 1
        BY <1>3, <3>1, <3>2
      <3> QED
        BY <1>2, <3>1, <3>2, <3>3
    <2> QED
      BY <1>1, <1>4, <2>1, <2>2, <2>3 DEF ReadInv, Started
  <1>6. CASE Head(q) # "chunk"
    <2>1. Len(q) = 1 /\ reader.pump = "ended"
      BY <1>3, <1>6 DEF ReadInv, Chunks
    <2>2. Tail(q) = <<>> /\ DOMAIN Tail(q) = {}
      BY <1>2, <1>3, <2>1
    <2>3. Head(q) = "eof" => ~alive /\ Started /\ read = out /\ reader.delivered = read
      BY <1>2, <1>3, <2>1 DEF ReadInv
    <2> QED
      BY <1>1, <1>4, <1>6, <2>1, <2>2, <2>3 DEF ReadInv, Started
  <1> QED
    BY <1>5, <1>6

LEMMA ReadStep ==
    ASSUME Typed, ChildInv, OneSide, ReadInv, Next
    PROVE  ReadInv'
  <1> USE DEF rest, process, pipes, closers, writing
  <1>1. CASE ~IsDial
    BY <1>1, UseStays DEF ReadInv
  <1>2. CASE IsDial
    <2>1. CASE Peer \/ Child \/ Dials \/ Aborts \/ Writes
      <3>1. UNCHANGED <<reader, read>>
        BY <1>2, <2>1, NoControlSteps DEF Peer, ProcessWrites, ProcessExits, Child, CollectStderr, Reap, FinishClose,
           PipeWrite, ContextEnds, Dials, Dial, StartChild, SetupEnds, GuardExpires, Adopt, Handshake, Aborts,
           Close, AbortSignals, AbortChild, AbortReturns, BeginClose, WatcherCancels, WatcherLeaves, CancelRecords,
           Writes, BeginMessage, DeadlinePasses, Admit, StorePhase, WriteCut, WriteExpires, WriteDone
      <3> QED
        BY <1>2, <3>1, BesideReads
    <2> QED
      BY <1>2, <2>1, NoControlSteps, PumpReadsKeeps, PumpSendsKeeps, ReadTakesKeeps DEF Next, Reads
  <1> QED
    BY <1>1, <1>2

-----------------------------------------------------------------------------
(* Control calls. *)

LEMMA ControlStep ==
    ASSUME Typed, ChildInv, OneSide, ControlInv, Next
    PROVE  ControlInv'
  <1> USE DEF restC, rest, beside, process, pipes, closers, writing
  <1> SUFFICES ASSUME ~IsDial PROVE ControlInv'
    BY UseStays DEF ControlInv
  <1>1. ~IsDial' /\ control \in ControlType
    BY UseStays DEF Typed
  <1>2. CASE ProcessWrites
    <2>1. UNCHANGED <<pipe, ever, control, exit>> /\ out' = out + 1 /\ control.applied
      BY <1>2 DEF ProcessWrites
    <2> QED
      BY <1>1, <2>1 DEF ControlInv, Typed, PipesOK
  <1>3. ASSUME NEW code \in {"ok", "failed"}, ProcessExits(code) PROVE ControlInv'
    <2>1. UNCHANGED <<pipe, ever, control, out>> /\ alive
      BY <1>3 DEF ProcessExits
    <2>2. control.result # "answered"
      BY <2>1 DEF ControlInv, ChildInv
    <2> QED
      BY <1>1, <2>1, <2>2 DEF ControlInv
  <1>4. CASE ReceiverApplies
    <2>1. UNCHANGED <<pipe, ever, out, exit>> /\ control.served
      BY <1>4 DEF ReceiverApplies
    <2>2. /\ control'.pc = control.pc /\ control'.body = control.body /\ control'.served = control.served
          /\ control'.result = control.result /\ control'.evidence = control.evidence /\ control'.applied
      BY <1>1, <1>4 DEF ReceiverApplies, ControlType
    <2> QED
      BY <1>1, <2>1, <2>2 DEF ControlInv
  <1>5. CASE CollectStderr \/ Reap \/ FinishClose \/ ContextEnds \/ ControlCancels \/ ControlCloses
    <2>1. UNCHANGED <<pipe, ever, out, exit, control>>
      BY <1>5 DEF CollectStderr, Reap, FinishClose, ContextEnds, ControlCancels, ControlCloses, BeginClose
    <2> QED
      BY <1>1, <2>1 DEF ControlInv
  <1>6. CASE PipeWrite
    <2>1. UNCHANGED <<out, exit>> /\ pipe = "writing" /\ pipe' \in {"ok", "failed"}
      BY <1>6 DEF PipeWrite
    <2>2. /\ control'.pc = control.pc /\ control'.body = control.body /\ control'.applied = control.applied
          /\ control'.result = control.result /\ control'.evidence = control.evidence
      BY <1>1, <1>6 DEF PipeWrite, ControlType
    <2>3. control'.served <=> pipe' = "ok"
      BY <1>1, <1>6 DEF PipeWrite, ControlType
    <2>4. ~control.served
      BY <2>1 DEF ControlInv
    <2>5. ~control.applied /\ control.pc \notin {"start", "read", "reap"}
          /\ control.evidence \notin {"not_started", "complete"}
      BY <2>1, <2>4 DEF ControlInv
    <2> QED
      BY <1>1, <2>1, <2>2, <2>3, <2>4, <2>5 DEF ControlInv
  <1>7. CASE InvokeControl
    <2>1. control.pc = "start" /\ UNCHANGED <<out, exit, ever>>
      BY <1>7 DEF InvokeControl, At, StartChild
    <2>2. pipe = "none" /\ ~ever /\ control.evidence = "none" /\ control.result = "none" /\ ~control.served
      BY <2>1 DEF ControlInv
    <2>3. /\ control'.served = control.served /\ control'.applied = control.applied /\ control'.body = control.body
          /\ \/ control'.pc = "write" /\ pipe' = "writing" /\ control'.result = control.result
                /\ control'.evidence = control.evidence
             \/ control'.pc = "returned" /\ pipe' = pipe /\ control'.result = "failed"
                /\ control'.evidence = "not_started"
      BY <1>1, <1>7 DEF InvokeControl, To, Fails, ControlType
    <2> QED
      BY <1>1, <2>1, <2>2, <2>3 DEF ControlInv
  <1>8. CASE ControlWritten \/ ControlRead \/ ControlReaped \/ ControlReturns
    <2>1. UNCHANGED <<out, exit, pipe, ever>>
      BY <1>8 DEF ControlWritten, ControlRead, ControlReaped, ControlReturns
    <2>2. control'.served = control.served /\ control'.applied = control.applied /\ control'.body = control.body
      BY <1>1, <1>8 DEF ControlWritten, ControlRead, ControlReaped, ControlReturns, To, Fails, Judge, ControlType
    <2>3. CASE ControlWritten
      <3>1. /\ control.pc = "write"
            /\ \/ control'.pc = "read" /\ pipe = "ok" /\ control'.result = control.result
                  /\ control'.evidence = control.evidence
               \/ control'.pc = "closing" /\ control'.result = "failed"
                  /\ control'.evidence \in {"none", "may_have_written"}
        BY <1>1, <2>3 DEF ControlWritten, At, To, Fails, ControlType
      <3> QED
        BY <1>1, <2>1, <2>2, <3>1 DEF ControlInv
    <2>4. CASE ControlRead
      <3>1. /\ control.pc = "read"
            /\ \/ control'.pc = "reap" /\ control'.result = control.result /\ control'.evidence = control.evidence
               \/ control'.pc = "closing" /\ control'.result = "failed" /\ control'.evidence = "complete"
        BY <1>1, <2>4 DEF ControlRead, At, To, Fails, ControlType
      <3> QED
        BY <1>1, <2>1, <2>2, <3>1 DEF ControlInv
    <2>5. CASE ControlReaped
      <3>1. /\ control.pc = "reap" /\ control'.pc = "closing"
            /\ \/ control'.result = "answered" /\ control'.evidence = control.evidence
                  /\ exit = "ok" /\ control.body = "response"
               \/ control'.result = "failed" /\ control'.evidence = "complete"
        BY <1>1, <2>5 DEF ControlReaped, Judge, At, To, Fails, ControlType
      <3> QED
        BY <1>1, <2>1, <2>2, <3>1 DEF ControlInv
    <2>6. CASE ControlReturns
      <3>1. /\ control.pc = "closing" /\ control'.pc = "returned" /\ control'.evidence = control.evidence
            /\ control'.result \in {control.result, "failed"}
        BY <1>1, <2>6 DEF ControlReturns, At, To, ControlType
      <3> QED
        BY <1>1, <2>1, <2>2, <3>1 DEF ControlInv
    <2> QED
      BY <1>8, <2>3, <2>4, <2>5, <2>6
  <1>9. CASE ControlReads
    <2>1. UNCHANGED <<out, exit, pipe, ever>> /\ out \in Nat
      BY <1>9 DEF ControlReads, Typed, PipesOK
    <2>2. /\ control'.pc = control.pc /\ control'.served = control.served /\ control'.applied = control.applied
          /\ control'.result = control.result /\ control'.evidence = control.evidence
          /\ control'.body = "response" => out # 0
      BY <1>1, <1>9 DEF ControlReads, ControlType
    <2> QED
      BY <1>1, <2>1, <2>2 DEF ControlInv
  <1> QED
    BY <1>2, <1>3, <1>4, <1>5, <1>6, <1>7, <1>8, <1>9, NoDialSteps DEF Next, Peer, Child, Controls

-----------------------------------------------------------------------------

LEMMA Invariance == Spec => []IInv
  <1>1. Init => IInv
    <2> SUFFICES ASSUME Init PROVE IInv
      OBVIOUS
    <2>1. ProcessOK /\ PipesOK
      BY DEF Init, ProcessOK, PipesOK
    <2>2. conn \in ConnType /\ reader \in ReaderType /\ control \in ControlType
      <3>1. <<>> \in Seq(Item)
        OBVIOUS
      <3> QED
        BY <3>1 DEF Init, ConnInit, ReaderInit, ControlInit, ConnType, ReaderType, ControlType, Phases
    <2>3. ChildInv /\ OneSide
      BY DEF Init, ChildInv, OneSide, Started
    <2>4. WriteInv
      BY DEF Init, WriteInv, ConnInit, InMessage, MessageEvidence, DialLeavesNoChild, Started
    <2>5. ReadInv
      BY DEF Init, ReadInv, ReaderInit, Chunks, Started
    <2>6. ControlInv
      BY DEF Init, ControlInv, ControlInit
    <2> QED
      BY <2>1, <2>2, <2>3, <2>4, <2>5, <2>6 DEF IInv, Typed
  <1>2. IInv /\ [Next]_vars => IInv'
    <2> SUFFICES ASSUME IInv, [Next]_vars PROVE IInv'
      OBVIOUS
    <2>1. CASE Next
      BY <2>1, TypedStep, ChildStep, OneSideStep, WriteStep, ReadStep, ControlStep DEF IInv
    <2>2. CASE UNCHANGED vars
      BY <2>2 DEF vars, process, pipes, closers, writing, IInv, Typed, ProcessOK, PipesOK, ChildInv, OneSide,
         WriteInv, MessageEvidence, DialLeavesNoChild, ReadInv, Chunks, ControlInv, Started, IsDial
    <2> QED
      BY <2>1, <2>2
  <1> QED
    BY <1>1, <1>2, PTL DEF Spec

\* What the proxy reports of bytes written, read and answered is true: the
\* evidence of Transport.Write, the io.EOF of Read, and the answer and the
\* evidence of InvokeControl.
THEOREM ReportsTrue == Spec => []ReportsAreTrue
  <1>1. IInv => ReportsAreTrue
    <2> SUFFICES ASSUME IInv PROVE ReportsAreTrue
      OBVIOUS
    <2>1. MessageEvidence
      BY DEF IInv, WriteInv
    <2>2. EofIsComplete
      BY DEF IInv, OneSide, ReadInv, ReaderInit, EofIsComplete
    <2>3. AnswerIsTrue
      BY DEF IInv, OneSide, ControlInv, ControlInit, AnswerIsTrue
    <2> QED
      BY <2>1, <2>2, <2>3 DEF ReportsAreTrue
  <1> QED
    BY <1>1, Invariance, PTL

\* A child whose connection nobody was given is being closed, in whatever order
\* the setup context, the guard and the handshake end (newDialGuard).
THEOREM NoOrphanChild == Spec => []DialLeavesNoChild
  <1>1. IInv => DialLeavesNoChild
    BY DEF IInv, WriteInv
  <1> QED
    BY <1>1, Invariance, PTL

-----------------------------------------------------------------------------
(* The bounds of the counters.  What ended the pump may be the last element  *)
(* of the queue, and was not read from the pipe.                             *)

Accounted ==
    LET sum  == reader.delivered + Len(reader.queue)
        last == reader.queue[Len(reader.queue)]
    IN sum <= read + 1 /\ (Len(reader.queue) = 0 \/ last = "chunk" => sum <= read)
Bounds ==
    /\ read <= out /\ out <= use.chunks
    /\ conn.written <= Fragments /\ conn.messages <= use.messages
    /\ Len(reader.queue) <= ReadCapacity
    /\ IsDial => Accounted

LEMMA PipeBounds ==
    ASSUME IInv, Bounds, Next
    PROVE  (read <= out /\ out <= use.chunks)' /\ read <= read'
  <1> USE DEF rest, rest2, restC, beside, process, pipes, closers, writing
  <1>1. use' = use /\ read \in Nat /\ out \in Nat /\ use.chunks \in Nat
    BY UseStays, UsesAssumption DEF IInv, Typed, ProcessOK, PipesOK
  <1>2. CASE ProcessWrites
    BY <1>1, <1>2 DEF ProcessWrites, Bounds
  <1>3. CASE PumpReads
    BY <1>1, <1>3 DEF PumpReads, Bounds
  <1>4. CASE ControlReads
    BY <1>1, <1>4 DEF ControlReads, Bounds
  <1>5. CASE Quiet
    BY <1>1, <1>5, QuietSteps DEF Bounds
  <1>6. CASE \/ \E code \in {"ok", "failed"} : ProcessExits(code)
             \/ CollectStderr \/ Reap \/ FinishClose \/ PipeWrite \/ ContextEnds \/ Dial \/ AbortChild
             \/ BeginMessage \/ StorePhase \/ WriteDone \/ PumpSends \/ InvokeControl \/ ControlCancels
             \/ ControlCloses
    <2>1. UNCHANGED <<read, out>>
      BY <1>6 DEF ProcessExits, CollectStderr, Reap, FinishClose, PipeWrite, ContextEnds, Dial, StartChild,
         AbortChild, BeginClose, BeginMessage, StorePhase, WriteDone, PumpSends, InvokeControl, ControlCancels,
         ControlCloses
    <2> QED
      BY <1>1, <2>1 DEF Bounds
  <1> QED
    BY <1>2, <1>3, <1>4, <1>5, <1>6 DEF Next, Peer, Child, Dials, Aborts, Writes, Reads, Controls, Quiet

LEMMA ConnBounds ==
    ASSUME IInv, Bounds, Next
    PROVE  (conn.written <= Fragments /\ conn.messages <= use.messages)'
  <1> USE DEF rest, rest2, restC, beside, process, pipes, closers, writing
  <1>1. use' = use /\ use.messages \in Nat /\ Fragments \in Nat /\ conn \in ConnType
        /\ conn.written \in Nat /\ conn.messages \in Nat
    BY UseStays, UsesAssumption, SizeAssumption DEF IInv, Typed, ProcessOK, ConnType
  <1>2. CASE BeginMessage
    <2>1. conn.messages < use.messages
      BY <1>2 DEF BeginMessage
    <2>2. \/ conn'.messages = conn.messages /\ conn'.written = conn.written
          \/ conn'.messages = conn.messages + 1 /\ conn'.written = 0
      BY <1>1, <1>2 DEF BeginMessage, MessageEnds, ConnType
    <2> QED
      BY <1>1, <2>1, <2>2 DEF Bounds
  <1>3. CASE WriteDone
    <2>1. conn.written < Fragments
      BY <1>3 DEF WriteDone, IInv, WriteInv, InMessage
    <2>2. conn'.messages = conn.messages /\ conn'.written \in {conn.written, conn.written + 1}
      BY <1>1, <1>3 DEF WriteDone, MessageFails, MessageEnds, ConnType
    <2> QED
      BY <1>1, <2>1, <2>2 DEF Bounds
  <1>4. CASE Dials \/ Aborts \/ DeadlinePasses \/ Admit \/ StorePhase \/ WriteCut \/ WriteExpires
    <2>1. conn'.messages = conn.messages /\ conn'.written = conn.written
      <3>1. CASE Dials
        BY <1>1, <3>1 DEF Dials, Dial, SetupEnds, GuardExpires, Adopt, Handshake, GoOn, CloseAnd, ConnType
      <3>2. CASE Aborts
        BY <1>1, <3>2 DEF Aborts, Close, AbortSignals, AbortChild, AbortReturns, WatcherCancels, WatcherLeaves,
           CancelRecords, CloseAnd, ConnType
      <3>3. CASE DeadlinePasses \/ Admit \/ StorePhase
        BY <1>1, <3>3 DEF DeadlinePasses, Admit, StorePhase, MessageFails, MessageEnds, GoOn, ConnType
      <3>4. CASE WriteCut \/ WriteExpires
        BY <1>1, <3>4 DEF WriteCut, WriteExpires, MessageFails, MessageEnds, GoOn, CloseAnd, ConnType
      <3> QED
        BY <1>4, <3>1, <3>2, <3>3, <3>4
    <2> QED
      BY <1>1, <2>1 DEF Bounds
  <1>5. CASE Peer \/ Child \/ Reads \/ Controls
    <2>1. conn' = conn
      BY <1>5 DEF Peer, ProcessWrites, ProcessExits, ReceiverApplies, Child, CollectStderr, Reap, FinishClose,
         PipeWrite, ContextEnds, Reads, PumpReads, PumpSends, ReadTakes, Controls, InvokeControl, ControlCancels,
         ControlWritten, ControlReads, ControlRead, ControlReaped, ControlCloses, ControlReturns
    <2> QED
      BY <1>1, <2>1 DEF Bounds
  <1> QED
    BY <1>2, <1>3, <1>4, <1>5 DEF Next, Writes

\* Taking the first of what is queued: a chunk is counted on the other side, and anything else is the last.
LEMMA TakeAccounts ==
    ASSUME NEW q \in Seq(Item), q # <<>>, NEW d \in Nat, NEW k \in Nat, NEW l \in Nat, k <= l,
           d + Len(q) <= k + 1, q[Len(q)] = "chunk" => d + Len(q) <= k, q[1] # "chunk" => Len(q) = 1
    PROVE  LET e == IF Head(q) = "chunk" THEN d + 1 ELSE d
           IN /\ e + Len(Tail(q)) <= l + 1
              /\ Len(Tail(q)) = 0 \/ Tail(q)[Len(Tail(q))] = "chunk" => e + Len(Tail(q)) <= l
  <1> DEFINE n == Len(q)
             e == IF Head(q) = "chunk" THEN d + 1 ELSE d
             m == Len(Tail(q))
  <1>1. n \in Nat /\ n > 0 /\ Head(q) = q[1] /\ m = n - 1
    BY TailFacts
  <1>2. m > 0 => Tail(q)[m] = q[n]
    BY <1>1, TailFacts
  <1>3. CASE q[1] = "chunk"
    <2>1. e = d + 1 /\ (n = 1 => q[n] = "chunk")
      BY <1>1, <1>3
    <2> HIDE DEF n, m, e
    <2>2. e + m = d + n
      BY <1>1, <2>1
    <2> QED
      BY <1>1, <1>2, <2>1, <2>2 DEF n, m, e
  <1>4. CASE q[1] # "chunk"
    <2>1. e = d /\ n = 1 /\ m = 0
      BY <1>1, <1>4
    <2>2. d + n <= k + 1
      OBVIOUS
    <2> HIDE DEF n, m, e
    <2> QED
      BY <2>1, <2>2 DEF m, e
  <1> QED
    BY <1>3, <1>4

LEMMA QueueBounds ==
    ASSUME IInv, Bounds, Next
    PROVE  (Len(reader.queue) <= ReadCapacity /\ (IsDial => Accounted))'
  <1> DEFINE q == reader.queue
  <1>1. /\ q \in Seq(Item) /\ reader.delivered \in Nat /\ read \in Nat /\ read' \in Nat /\ ReadCapacity \in Nat
        /\ Len(q) \in Nat /\ DOMAIN q = 1..Len(q) /\ (IsDial' <=> IsDial)
    BY UseStays, TypedStep, SizeAssumption DEF IInv, Typed, PipesOK, ReaderType
  <1>2. read <= read'
    BY PipeBounds
  <1>3. CASE reader'.queue = q /\ reader'.delivered = reader.delivered
    BY <1>1, <1>2, <1>3 DEF Bounds, Accounted
  <1>4. CASE PumpSends
    <2>1. CASE reader'.queue = Append(q, reader.pump) /\ Len(q) < ReadCapacity /\ reader'.delivered = reader.delivered
      <3>1. reader.pump \in Item /\ IsDial
        BY <1>4, NoDialSteps DEF PumpSends, Item, IInv, Reads
      <3>2. Len(reader'.queue) = Len(q) + 1 /\ reader'.queue[Len(q) + 1] = reader.pump
        BY <1>1, <2>1, <3>1, AppendFacts
      <3>3. reader.delivered + Len(q) + (IF reader.pump = "chunk" THEN 1 ELSE 0) = read
        BY <3>1 DEF IInv, ReadInv, Item
      <3>4. Accounted'
        BY <1>1, <1>2, <2>1, <3>2, <3>3 DEF Accounted
      <3> QED
        BY <1>1, <2>1, <3>2, <3>4
    <2> QED
      BY <1>3, <1>4, <2>1 DEF PumpSends, IInv, Typed, ReaderType
  <1>5. CASE ReadTakes
    <2>1. q # <<>> /\ IsDial
      BY <1>5, NoDialSteps DEF ReadTakes, IInv, Reads
    <2>2. /\ Len(q) > 0 /\ Head(q) = q[1] /\ Len(Tail(q)) = Len(q) - 1
          /\ \A j \in 1..(Len(q) - 1) : Tail(q)[j] = q[j + 1]
      BY <1>1, <2>1, TailFacts
    <2>3. /\ reader'.queue = Tail(q)
          /\ reader'.delivered = IF Head(q) = "chunk" THEN reader.delivered + 1 ELSE reader.delivered
      BY <1>5 DEF ReadTakes, IInv, Typed, ReaderType
    <2>4. q[1] # "chunk" => Len(q) = 1
      <3>1. 1 \in DOMAIN q
        BY <1>1, <2>2
      <3> QED
        BY <2>1, <3>1 DEF IInv, ReadInv
    <2>5. Accounted
      BY <2>1 DEF Bounds
    <2>6. Accounted'
      <3> DEFINE e == IF Head(q) = "chunk" THEN reader.delivered + 1 ELSE reader.delivered
      <3>1. reader.delivered \in Nat /\ read \in Nat
        BY <1>1
      <3>2. reader.delivered + Len(q) <= read + 1 /\ (q[Len(q)] = "chunk" => reader.delivered + Len(q) <= read)
        BY <2>5 DEF Accounted
      <3>3. /\ e + Len(Tail(q)) <= read' + 1
            /\ Len(Tail(q)) = 0 \/ Tail(q)[Len(Tail(q))] = "chunk" => e + Len(Tail(q)) <= read'
        BY <1>1, <1>2, <2>1, <2>4, <3>1, <3>2, TakeAccounts
      <3> QED
        BY <2>3, <3>3 DEF Accounted
    <2> QED
      BY <1>1, <2>2, <2>3, <2>6 DEF Bounds
  <1>6. CASE PumpReads
    BY <1>3, <1>6 DEF PumpReads, IInv, Typed, ReaderType
  <1>7. CASE Peer \/ Child \/ Dials \/ Aborts \/ Writes \/ Controls
    <2>1. reader' = reader
      BY <1>7 DEF Peer, ProcessWrites, ProcessExits, ReceiverApplies, Child, CollectStderr, Reap, FinishClose,
         PipeWrite, ContextEnds, Dials, Dial, SetupEnds, GuardExpires, Adopt, Handshake, Aborts, Close,
         AbortSignals, AbortChild, AbortReturns, WatcherCancels, WatcherLeaves, CancelRecords, Writes,
         BeginMessage, DeadlinePasses, Admit, StorePhase, WriteCut, WriteExpires, WriteDone, Controls,
         InvokeControl, ControlCancels, ControlWritten, ControlReads, ControlRead, ControlReaped, ControlCloses,
         ControlReturns, rest, restC, beside
    <2> QED
      BY <1>3, <2>1
  <1> QED
    BY <1>4, <1>5, <1>6, <1>7 DEF Next, Reads

\* Every reachable state of the proxy is well typed: it never reads more than
\* was written, never hands on more than was read, and its queue keeps to its
\* capacity.
THEOREM TypeCorrect == Spec => []TypeOK
  <1>1. Init => Bounds
    <2> SUFFICES ASSUME Init PROVE Bounds
      OBVIOUS
    <2>1. use.chunks \in Nat /\ use.messages \in Nat
      BY UsesAssumption DEF Init
    <2>2. Accounted
      BY DEF Init, ReaderInit, Accounted
    <2> QED
      BY <2>1, <2>2, SizeAssumption DEF Init, Bounds, ConnInit, ReaderInit
  <1>2. IInv /\ Bounds /\ [Next]_vars => Bounds'
    <2> SUFFICES ASSUME IInv, Bounds, [Next]_vars PROVE Bounds'
      OBVIOUS
    <2>1. CASE Next
      BY <2>1, PipeBounds, ConnBounds, QueueBounds DEF Bounds
    <2>2. CASE UNCHANGED vars
      BY <2>2 DEF vars, pipes, Bounds, Accounted, IsDial
    <2> QED
      BY <2>1, <2>2
  <1>3. IInv /\ Bounds => TypeOK
    <2> SUFFICES ASSUME IInv, Bounds PROVE TypeOK
      OBVIOUS
    <2>1. Typed /\ use.chunks \in Nat /\ use.messages \in Nat
      BY UsesAssumption DEF IInv, Typed, ProcessOK
    <2>2. reader.delivered <= read
      <3>1. CASE IsDial
        <4>1. reader.queue \in Seq(Item) /\ reader.delivered \in Nat /\ read \in Nat /\ Len(reader.queue) \in Nat
          BY <2>1 DEF Typed, ReaderType, PipesOK
        <4> QED
          BY <3>1, <4>1 DEF Bounds, Accounted
      <3>2. CASE ~IsDial
        BY <2>1, <3>2 DEF IInv, OneSide, ReaderInit, Typed, PipesOK
      <3> QED
        BY <3>1, <3>2
    <2>3. read \in 0..out /\ out \in 0..use.chunks /\ reader.delivered \in 0..read
      BY <2>1, <2>2 DEF Typed, PipesOK, ReaderType, Bounds
    <2>4. conn.written \in 0..Fragments /\ conn.messages \in 0..use.messages
      BY <2>1, SizeAssumption DEF Typed, ConnType, Bounds
    <2>5. {alive, killed, stdoutDone, stderrDone, reaped, touched, ever, ctxEnded} \subseteq BOOLEAN
      BY <2>1 DEF Typed, ProcessOK, PipesOK
    <2>6. /\ conn.phase \in Phases /\ conn.result \in Phases \cup {"none"} /\ conn.failure \in Phases \cup {"none"}
          /\ control.result \in {"none", "failed", "answered"} /\ control.evidence \in Phases \cup {"none"}
      BY <2>1 DEF Typed, ConnType, ControlType
    <2> QED
      BY <2>1, <2>3, <2>4, <2>5, <2>6 DEF TypeOK, Typed, ProcessOK, PipesOK, Bounds
  <1> QED
    BY <1>1, <1>2, <1>3, Invariance, PTL DEF Spec


(***************************************************************************)
(* RemoteCustody: what another machine was told stays true.                *)
(***************************************************************************)
CP == INSTANCE ReplyCustody_proofs WITH
        Original <- {O}, Holder <- Deliverer, Body <- {"declared"}, Item <- Reply, MaxStale <- 0

\* The assumptions under which the custodian's theorems hold.
LEMMA CustodianAssumptions ==
    /\ Lease \in Nat \ {0} /\ 0 \in Nat
    /\ CP!IsFiniteSet(Reply)
    /\ None \notin Reply \cup {O} \cup Deliverer \cup {"declared"} \cup Reply
  BY RemoteAssumption DEF IsFiniteSet, CP!IsFiniteSet

\* The definitions of C and CP are the same ones: the proof module extends the
\* module it is about.
LEMMA SameCustodian == (C!Init => CP!Init) /\ (C!Next => CP!Next) /\ C!vars = CP!vars
  <1>1. C!Next => CP!Next
    BY DEF C!Cardinality, CP!Cardinality, C!claim, CP!claim, C!winners, CP!winners, C!unknown,
       CP!unknown, C!vars, CP!vars, C!Decided, CP!Decided, C!State, CP!State, C!IsNextCommit,
       CP!IsNextCommit, C!CommitAs, CP!CommitAs, C!AssignReplyCommit, CP!AssignReplyCommit,
       C!Orders, CP!Orders, C!ExpireAll, CP!ExpireAll, C!Due, CP!Due, C!Holds, CP!Holds,
       C!Observable, CP!Observable, C!RecordObservation, CP!RecordObservation, C!PrepareOriginal,
       CP!PrepareOriginal, C!ClaimNew, CP!ClaimNew, C!ClaimExisting, CP!ClaimExisting,
       C!ClaimReply, CP!ClaimReply, C!Heartbeat, CP!Heartbeat, C!CommitReply, CP!CommitReply,
       C!AbandonReply, CP!AbandonReply, C!ExpireClaims, CP!ExpireClaims, C!OriginalStatus,
       CP!OriginalStatus, C!ObserveReply, CP!ObserveReply, C!ReconcileReplyObservation,
       CP!ReconcileReplyObservation, C!ReconcileReplyObservationWithReceipt,
       CP!ReconcileReplyObservationWithReceipt, C!ReconcileReplyAccepted,
       CP!ReconcileReplyAccepted, C!Tick, CP!Tick, C!Next, CP!Next
  <1> QED
    BY <1>1 DEF C!Init, CP!Init, C!vars, CP!vars

\* Whatever a control call asks for is a transaction of the custodian.
LEMMA CallsCustody == delivered \subseteq Reply /\ [RemoteNext]_remoteVars => [C!Next]_(C!vars)
  <1>0. O \in {O} /\ "declared" \in {"declared"} /\ 0 \in 0..0 /\ TRUE \in BOOLEAN
    OBVIOUS
  <1>1. ASSUME NEW d \in Deliverer, NEW t \in Thread, NEW r \in Reply,
               \/ Claim(d, t, r) \/ Heartbeat(d, t, r) \/ Commit(d, t, r) \/ Abandon(d, t, r)
               \/ Status(d, t, r)
        PROVE  [C!Next]_(C!vars)
    <2>1. CASE Claim(d, t, r)
      <3>1. C!ClaimNew(d, r, O, "declared", TRUE) => C!Next
        BY <1>0 DEF C!Next, C!ClaimReply
      <3>2. C!ClaimExisting(d, r, O, "declared") => C!Next
        BY <1>0 DEF C!Next, C!ClaimReply
      <3> QED
        BY <2>1, <3>1, <3>2 DEF Claim, C!vars, custody
    <2>2. CASE Heartbeat(d, t, r) \/ Commit(d, t, r) \/ Abandon(d, t, r)
      BY <2>2 DEF Heartbeat, Commit, Abandon, C!Next
    <2>3. CASE Status(d, t, r)
      BY <2>3 DEF Status, C!vars, custody
    <2> QED
      BY <1>1, <2>1, <2>2, <2>3
  <1>2. ASSUME NEW w \in Waiter, OriginalStatus(w) PROVE [C!Next]_(C!vars)
    BY <1>0, <1>2 DEF OriginalStatus, C!Next, C!vars, custody
  <1>3. ASSUME NEW w \in Waiter, NEW r \in Reply, Observe(w, r) PROVE [C!Next]_(C!vars)
    BY <1>3 DEF Observe, C!Next
  <1>4. ASSUME delivered \subseteq Reply, CustodianSteps PROVE [C!Next]_(C!vars)
    BY <1>0, <1>4 DEF CustodianSteps, C!Next
  <1>5. ASSUME UNCHANGED custody PROVE [C!Next]_(C!vars)
    BY <1>5 DEF C!vars, custody
  <1>6. ASSUME NEW s \in Slot, Lose(s) \/ ReturnUnusable(s) PROVE UNCHANGED custody
    BY <1>6 DEF Lose, ReturnUnusable
  <1>7. ASSUME NEW d \in Deliverer, NEW t \in Thread, ReturnClaim(d, t) \/ ReturnHeartbeat(d, t) \/ ReturnPlain(d, t)
        PROVE  UNCHANGED custody
    BY <1>7 DEF ReturnClaim, ReturnHeartbeat, ReturnPlain
  <1>8. ASSUME NEW w \in Waiter, ReturnOriginalStatus(w) \/ ReturnObserve(w) PROVE UNCHANGED custody
    BY <1>8 DEF ReturnOriginalStatus, ReturnObserve
  <1>9. ASSUME NEW d \in Deliverer, NEW r \in Reply, Deliver(d, r) PROVE UNCHANGED custody
    BY <1>9 DEF Deliver
  <1>10. UNCHANGED remoteVars => UNCHANGED custody
    BY DEF remoteVars
  <1> QED
    BY <1>1, <1>2, <1>3, <1>4, <1>5, <1>6, <1>7, <1>8, <1>9, <1>10 DEF RemoteNext

-----------------------------------------------------------------------------
(* What the custodian's invariant says, in the terms of this module.        *)

CustodianSays ==
    /\ state \in [Reply -> C!State \cup {"absent"}]
    /\ winner[O] \in Reply \cup {None} /\ winnerSeq[O] \in Nat
    /\ item \in [Reply -> Reply \cup {None}]
    /\ unknownAt \in [Reply -> Nat]
    /\ winner[O] # None => winnerSeq[O] > 0 /\ state[winner[O]] \in Decided
    /\ \A r \in Reply :
        /\ state[r] \in Decided => winner[O] # None
        /\ item[r] # None <=> state[r] = "reply_observed"
        /\ state[r] = "reply_outcome_unknown" => unknownAt[r] > 0

\* What a transaction never takes back.
CustodianKeeps ==
    /\ \A r \in Reply :
        /\ state[r] \in Decided => state'[r] \in Decided
        /\ state[r] = "reply_observed" => state'[r] = "reply_observed"
        /\ item[r] # None => item'[r] = item[r]
        /\ unknownAt[r] > 0 => unknownAt'[r] > 0
    /\ winner[O] # None => winner'[O] = winner[O] /\ winnerSeq'[O] = winnerSeq[O]

LEMMA CustodianFacts == CP!IInv => CustodianSays
  <1> SUFFICES ASSUME CP!IInv PROVE CustodianSays
    OBVIOUS
  <1>1. /\ state \in [Reply -> C!State \cup {"absent"}]
        /\ winner \in [{O} -> Reply \cup {None}] /\ winnerSeq \in [{O} -> Nat]
        /\ item \in [Reply -> Reply \cup {None}]
        /\ unknownAt \in [Reply -> Nat] /\ seq \in [Reply -> Nat]
    BY DEF CP!IInv, CP!TypeOK, C!State, CP!State, C!Decided, CP!Decided
  <1>2. winner[O] # None => winnerSeq[O] > 0 /\ seq[winner[O]] = winnerSeq[O]
    BY DEF CP!IInv, CP!OrderInv, CP!WinnerHasPosition, CP!WinnerIsFirstCommit
  <1>3. \A r \in Reply : seq[r] > 0 <=> state[r] \in Decided
    BY DEF CP!IInv, CP!OrderInv, CP!CommitOrderIsTotal, CP!Decided, C!Decided, Decided
  <1>4. winner[O] # None => state[winner[O]] \in Decided
    BY <1>1, <1>2, <1>3
  <1>5. ASSUME NEW r \in Reply, state[r] \in Decided PROVE winner[O] # None
    <2>1. seq[r] > 0 /\ state[r] # "absent"
      BY <1>3, <1>5 DEF Decided, C!Decided
    <2>2. original[r] = O
      BY <2>1 DEF CP!IInv, CP!RowInv
    <2> QED
      BY <2>1, <2>2 DEF CP!IInv, CP!OrderInv, CP!WinnerIsFirstCommit
  <1>6. \A r \in Reply : item[r] # None <=> state[r] = "reply_observed"
    BY DEF CP!IInv, CP!EvidenceInv, CP!ItemInv
  <1>7. \A r \in Reply : state[r] = "reply_outcome_unknown" => unknownAt[r] > 0
    BY DEF CP!IInv, CP!EventInv
  <1> QED
    BY <1>1, <1>2, <1>4, <1>5, <1>6, <1>7 DEF CustodianSays

LEMMA CustodianMoves == CP!IInv /\ CP!IInv' /\ [C!Next]_(C!vars) => CustodianKeeps
  <1> SUFFICES ASSUME CP!IInv, CP!IInv', [C!Next]_(C!vars) PROVE CustodianKeeps
    OBVIOUS
  <1>0. CustodianSays
    BY CustodianFacts
  <1>1. CASE CP!vars' = CP!vars
    BY <1>1 DEF CP!vars, CustodianKeeps
  <1>2. CASE CP!StepStrengthens
    <2>1. \A r \in Reply :
            /\ state'[r] # state[r] => <<state[r], state'[r]>> \in CP!Strengthening
            /\ seq[r] # 0 => seq'[r] = seq[r]
            /\ item[r] # None => item'[r] = item[r]
            /\ unknownAt[r] # 0 => unknownAt'[r] = unknownAt[r]
      BY <1>2 DEF CP!StepStrengthens
    <2>2. winner[O] # None => winner'[O] = winner[O]
      BY <1>2 DEF CP!StepStrengthens
    <2>3. ASSUME NEW r \in Reply
          PROVE  /\ state[r] \in Decided => state'[r] \in Decided
                 /\ state[r] = "reply_observed" => state'[r] = "reply_observed"
      BY <2>1 DEF Decided, C!Decided, CP!Strengthening
    <2>4. ASSUME NEW r \in Reply, unknownAt[r] > 0 PROVE unknownAt'[r] > 0
      <3>1. unknownAt[r] # 0
        BY <2>4, <1>0 DEF CustodianSays
      <3> QED
        BY <2>1, <2>4, <3>1
    <2>5. ASSUME winner[O] # None PROVE winnerSeq'[O] = winnerSeq[O]
      <3>1. seq[winner[O]] = winnerSeq[O] /\ winnerSeq[O] > 0 /\ winner[O] \in Reply
        BY <2>5, <1>0 DEF CP!IInv, CP!OrderInv, CP!WinnerHasPosition, CP!WinnerIsFirstCommit, CustodianSays
      <3>2. winner'[O] # None /\ winner'[O] = winner[O]
        BY <2>2, <2>5
      <3>3. seq'[winner'[O]] = winnerSeq'[O]
        BY <3>2 DEF CP!IInv, CP!OrderInv, CP!WinnerIsFirstCommit
      <3>4. seq[winner[O]] # 0 /\ seq'[winner[O]] = seq[winner[O]]
        <4>1. seq[winner[O]] # 0
          BY <3>1, <1>0 DEF CustodianSays
        <4> QED
          BY <2>1, <3>1, <4>1
      <3> QED
        BY <3>1, <3>2, <3>3, <3>4
    <2> QED
      BY <2>1, <2>2, <2>3, <2>4, <2>5 DEF CustodianKeeps
  <1>3. [CP!Next]_(CP!vars)
    BY SameCustodian DEF C!vars, CP!vars
  <1> QED
    BY <1>1, <1>2, <1>3, CP!NextStrengthens, CustodianAssumptions

-----------------------------------------------------------------------------
(* Local rows and answers on their way.                                     *)

\* What answers speak of.
Known == [state |-> state, item |-> item, winner |-> winner[O], number |-> winnerSeq[O], unknownAt |-> unknownAt]

\* v is the winner, n its number, and native nothing or the item of its body.
IsWinner(k, v, n, native) ==
    v = k.winner /\ v \in Reply /\ n = k.number /\ native \in {None, k.item[v]}

\* An answer on its way was true when it left, and stays so.
IsTrue(c, k) ==
    /\ c.op \in {"claim", "heartbeat"} => c.reply \in Reply
    /\ c.op = "originalStatus" =>
          /\ c.result.selection = "winner" => IsWinner(k, c.result.reply, c.result.seq, c.result.native)
          /\ c.result.selection = "terminal_unknown" =>
                c.result.reply \in Reply /\ k.unknownAt[c.result.reply] > 0
    /\ c.op = "observe" =>
          /\ c.reply \in Reply /\ k.state[c.reply] = "reply_observed" /\ k.item[c.reply] = c.reply
          /\ IsWinner(k, c.result.winner, c.result.seq, c.result.native)
          /\ c.result.winner = c.reply => c.result.native = c.reply
CallInv ==
    /\ call = [s \in Slot |-> call[s]]
    /\ \A s \in Slot : /\ call[s].step \in {"idle", "answered"}
                       /\ call[s].step = "answered" => IsTrue(call[s], Known)

\* Who holds a token has its lease.
CacheInv ==
    /\ cache \in [Deliverer -> [Reply -> {"absent", "joined", "owner"}]]
    /\ held \in [Deliverer -> SUBSET Reply] /\ delivered \subseteq Reply
    /\ \A d \in Deliverer : \A r \in held[d] : cache[d][r] = "owner"

\* The rows of the waiting machine are copies of custody's, numbered so that
\* the winner comes first.
LocalTypes ==
    /\ lstate \in [Reply -> {"absent", "reply_outcome_unknown"} \cup Decided]
    /\ lseq \in [Reply -> Nat] /\ litem \in [Reply -> Reply \cup {None}]
    /\ lwinner \in Reply \cup {None} /\ lwinnerSeq \in Nat
LocalOrder ==
    /\ lwinner # None =>
          /\ lwinner = winner[O] /\ lwinnerSeq = winnerSeq[O]
          /\ lseq[lwinner] = lwinnerSeq
    /\ \A r \in Reply :
          /\ lstate[r] \in Decided <=> lseq[r] > 0
          /\ lseq[r] > 0 => lwinner # None /\ (r # lwinner => lwinnerSeq < lseq[r])
LocalRows == \A r \in Reply :
    /\ litem[r] # None <=> lstate[r] = "reply_observed"
    /\ lstate[r] = "reply_observed" => state[r] = "reply_observed" /\ litem[r] = item[r]
    /\ lstate[r] = "reply_accepted" => state[r] \in Decided
    /\ lstate[r] = "reply_outcome_unknown" => unknownAt[r] > 0
LocalInv == LocalTypes /\ LocalOrder /\ LocalRows

RemoteInv == CP!IInv /\ CallInv /\ CacheInv /\ LocalInv

LEMMA TrueStays ==
    ASSUME CustodianSays, CustodianKeeps, NEW c, IsTrue(c, Known)
    PROVE  IsTrue(c, Known')
  <1>1. ASSUME NEW v, NEW n, NEW native, IsWinner(Known, v, n, native) PROVE IsWinner(Known', v, n, native)
    <2>1. v = winner[O] /\ v \in Reply /\ n = winnerSeq[O] /\ native \in {None, item[v]}
      BY <1>1 DEF IsWinner, Known
    <2>2. v # None
      BY <2>1, RemoteAssumption
    <2>3. v = winner'[O] /\ n = winnerSeq'[O] /\ native \in {None, item'[v]}
      BY <2>1, <2>2 DEF CustodianKeeps
    <2> QED
      BY <2>1, <2>3 DEF IsWinner, Known
  <1>2. ASSUME NEW r \in Reply, Known.unknownAt[r] > 0 PROVE Known'.unknownAt[r] > 0
    BY <1>2 DEF CustodianKeeps, Known
  <1>3. ASSUME NEW r \in Reply, Known.state[r] = "reply_observed", Known.item[r] = r
        PROVE  Known'.state[r] = "reply_observed" /\ Known'.item[r] = r
    BY <1>3, RemoteAssumption DEF CustodianKeeps, Known
  <1>4. c.op = "originalStatus" =>
          /\ c.result.selection = "winner" => IsWinner(Known', c.result.reply, c.result.seq, c.result.native)
          /\ c.result.selection = "terminal_unknown" =>
                c.result.reply \in Reply /\ Known'.unknownAt[c.result.reply] > 0
    BY <1>1, <1>2 DEF IsTrue
  <1>5. c.op = "observe" =>
          /\ c.reply \in Reply /\ Known'.state[c.reply] = "reply_observed" /\ Known'.item[c.reply] = c.reply
          /\ IsWinner(Known', c.result.winner, c.result.seq, c.result.native)
    BY <1>1, <1>3 DEF IsTrue
  <1> QED
    BY <1>4, <1>5 DEF IsTrue

\* The calls that do not move stay answered truly.
LEMMA CallsStay ==
    ASSUME CustodianSays, CustodianKeeps, CallInv, UNCHANGED call
    PROVE  CallInv'
  BY TrueStays DEF CallInv

\* A call that is answered, and one that ends.
LEMMA CallAnswered ==
    ASSUME CustodianSays, CustodianKeeps, CallInv, NEW s \in Slot, NEW op, NEW r, NEW result,
           call' = [call EXCEPT ![s] = [step |-> "answered", op |-> op, reply |-> r, result |-> result]],
           IsTrue([step |-> "answered", op |-> op, reply |-> r, result |-> result], Known')
    PROVE  CallInv'
  <1> DEFINE c == [step |-> "answered", op |-> op, reply |-> r, result |-> result]
  <1>1. call' = [q \in Slot |-> IF q = s THEN c ELSE call[q]]
    BY DEF CallInv
  <1> HIDE DEF c
  <1>2. c.step = "answered" /\ IsTrue(c, Known')
    BY DEF c
  <1>3. ASSUME NEW q \in Slot
        PROVE  call'[q].step \in {"idle", "answered"} /\ (call'[q].step = "answered" => IsTrue(call'[q], Known'))
    <2>1. CASE q = s
      BY <1>1, <1>2, <2>1
    <2>2. CASE q # s
      <3>1. call'[q] = call[q]
        BY <1>1, <2>2
      <3> QED
        BY <3>1, TrueStays DEF CallInv
    <2> QED
      BY <2>1, <2>2
  <1> QED
    BY <1>1, <1>3 DEF CallInv

LEMMA CallEnds ==
    ASSUME CallInv, UNCHANGED custody, NEW s \in Slot, End(s)
    PROVE  CallInv'
  <1>1. call' = [q \in Slot |-> IF q = s THEN Idle ELSE call[q]]
    BY DEF CallInv, End
  <1>2. Known' = Known
    BY DEF Known, custody
  <1>3. Idle.step = "idle"
    BY DEF Idle
  <1> QED
    BY <1>1, <1>2, <1>3 DEF CallInv

\* The rows of the waiting machine stay true of custody.
LEMMA LocalStays ==
    ASSUME CustodianSays, CustodianKeeps, LocalInv, UNCHANGED local
    PROVE  LocalInv'
  <1>1. LocalTypes' /\ UNCHANGED <<lstate, lseq, litem, lwinner, lwinnerSeq>>
    BY DEF LocalInv, LocalTypes, local
  <1>2. LocalOrder'
    BY <1>1 DEF LocalInv, LocalOrder, CustodianKeeps
  <1>3. LocalRows'
    <2>1. ASSUME NEW r \in Reply, lstate[r] = "reply_observed" PROVE state'[r] = "reply_observed" /\ litem[r] = item'[r]
      BY <2>1 DEF LocalInv, LocalRows, CustodianKeeps
    <2> QED
      BY <1>1, <2>1 DEF LocalInv, LocalRows, CustodianKeeps
  <1> QED
    BY <1>1, <1>2, <1>3 DEF LocalInv

-----------------------------------------------------------------------------
(* Numbers: a set of finitely many numbers has a largest one.               *)

LEMMA LargestExists ==
    ASSUME NEW S, IsFiniteSet(S), S # {}, \A n \in S : n \in Nat
    PROVE  \E n \in S : \A m \in S : m <= n
  <1> DEFINE Beyond(n) == { m \in S : m > n }
             T == { Cardinality(Beyond(n)) : n \in S }
  <1>1. \A n \in S : IsFiniteSet(Beyond(n)) /\ Cardinality(Beyond(n)) \in Nat
    <2>1. ASSUME NEW n \in S PROVE IsFiniteSet(Beyond(n)) /\ Cardinality(Beyond(n)) \in Nat
      <3>1. Beyond(n) \in SUBSET S
        OBVIOUS
      <3> QED
        BY <3>1, FS_Subset, FS_CardinalityType
    <2> QED
      BY <2>1
  <1>2. T \subseteq Nat /\ T # {}
    BY <1>1
  <1>3. \E x \in T : \A y \in T : ~ (<<y, x>> \in OpToRel(<, Nat))
    <2>1. IsWellFoundedOn(OpToRel(<, Nat), Nat)
      BY NatLessThanWellFounded
    <2> HIDE DEF T
    <2> QED
      BY <1>2, <2>1, WFMin
  <1>4. PICK x \in T : \A y \in T : ~ (y < x)
    BY <1>2, <1>3 DEF OpToRel
  <1>5. PICK n \in S : x = Cardinality(Beyond(n))
    BY <1>4
  <1>6. ASSUME NEW m \in S, m > n PROVE FALSE
    <2>1. Beyond(m) \in SUBSET Beyond(n) /\ m \in Beyond(n) /\ m \notin Beyond(m)
      BY <1>6
    <2>2. Cardinality(Beyond(m)) <= Cardinality(Beyond(n)) /\ Cardinality(Beyond(m)) # Cardinality(Beyond(n))
      <3>1. Beyond(m) # Beyond(n)
        BY <2>1
      <3> HIDE DEF Beyond
      <3>2. IsFiniteSet(Beyond(n))
        BY <1>1
      <3> QED
        BY <2>1, <3>1, <3>2, FS_Subset
    <2>3. ~ (Cardinality(Beyond(m)) < Cardinality(Beyond(n)))
      BY <1>4, <1>5
    <2>4. Cardinality(Beyond(m)) \in Nat /\ Cardinality(Beyond(n)) \in Nat
      BY <1>1
    <2> HIDE DEF Beyond
    <2> QED
      BY <2>2, <2>3, <2>4
  <1> QED
    BY <1>6

\* assignReplyCommitTx numbers a row after all others.
LEMMA MaxSeqIsLast ==
    ASSUME NEW f \in [Reply -> Nat]
    PROVE  MaxSeq(f) \in Nat /\ \A q \in Reply : f[q] <= MaxSeq(f)
  <1> DEFINE S == {LocalSeq} \cup { f[q] : q \in Reply }
  <1>1. \A n \in S : n \in Nat
    BY RemoteAssumption
  <1>2. IsFiniteSet(S)
    <2>1. IsFiniteSet({ f[q] : q \in Reply })
      <3>1. f \in Surjection(Reply, { f[q] : q \in Reply })
        BY DEF Surjection
      <3> QED
        BY <3>1, RemoteAssumption, FS_Surjection
    <2> QED
      BY <2>1, FS_AddElement
  <1>3. \E n \in S : \A m \in S : m <= n
    <2>1. S # {}
      OBVIOUS
    <2> HIDE DEF S
    <2> QED
      BY <1>1, <1>2, <2>1, LargestExists
  <1>4. MaxSeq(f) \in S /\ \A m \in S : m <= MaxSeq(f)
    BY <1>3 DEF MaxSeq
  <1> QED
    BY <1>1, <1>4

LEMMA NumberedIs ==
    ASSUME NEW f \in [Reply -> Nat], NEW r \in Reply, NEW v \in Reply, NEW n \in Nat, lseq = f, n > 0
    PROVE  /\ Numbered(r, v, n) \in [Reply -> Nat]
           /\ \A q \in Reply \ {r, v} : Numbered(r, v, n)[q] = f[q]
           /\ Numbered(r, v, n)[v] = n
           /\ r # v => /\ Numbered(r, v, n)[r] > 0
                       /\ IF f[r] > 0 THEN Numbered(r, v, n)[r] = f[r] ELSE Numbered(r, v, n)[r] > n
  <1> DEFINE g == [f EXCEPT ![v] = n]
  <1>1. g \in [Reply -> Nat] /\ g[v] = n /\ \A q \in Reply \ {v} : g[q] = f[q]
    OBVIOUS
  <1>2. Numbered(r, v, n) = IF g[r] # 0 THEN g ELSE [g EXCEPT ![r] = MaxSeq(g) + 1]
    BY DEF Numbered
  <1> HIDE DEF g
  <1>3. MaxSeq(g) \in Nat /\ n <= MaxSeq(g)
    BY <1>1, MaxSeqIsLast
  <1> QED
    BY <1>1, <1>2, <1>3

-----------------------------------------------------------------------------
(* Imports: what is imported is true, so nothing conflicts and rows stay    *)
(* copies.                                                                  *)

\* What the custodian says of its winner.
LEMMA WinnerFacts ==
    ASSUME CustodianSays, NEW v, NEW n, NEW native, IsWinner(Known, v, n, native)
    PROVE  /\ v = winner[O] /\ v \in Reply /\ v # None /\ n = winnerSeq[O] /\ n \in Nat /\ n > 0
           /\ state[v] \in Decided /\ native \in Reply \cup {None} /\ native \in {None, item[v]}
           /\ native # None => native = item[v] /\ state[v] = "reply_observed"
  <1>1. v = winner[O] /\ v \in Reply /\ n = winnerSeq[O] /\ native \in {None, item[v]}
    BY DEF IsWinner, Known
  <1>2. v # None
    BY <1>1, RemoteAssumption
  <1> QED
    BY <1>1, <1>2 DEF CustodianSays

LEMMA WinnerAgrees ==
    ASSUME CustodianSays, LocalInv, NEW v, NEW n, NEW native, IsWinner(Known, v, n, native)
    PROVE  ~WinnerConflicts(v, n, native)
  <1>1. /\ v = winner[O] /\ v \in Reply /\ v # None /\ n = winnerSeq[O]
        /\ native \in {None, item[v]}
    BY WinnerFacts
  <1>2. lwinner \in {None, v} /\ (lwinner = v => lwinnerSeq = n)
    BY <1>1 DEF LocalInv, LocalTypes, LocalOrder
  <1>3. lseq[v] \in {0, n}
    <2>1. lseq[v] \in Nat
      BY <1>1 DEF LocalInv, LocalTypes
    <2>2. lseq[v] > 0 => lwinner = v /\ lseq[v] = n
      BY <1>1, <1>2 DEF LocalInv, LocalOrder
    <2> QED
      BY <2>1, <2>2
  <1>4. litem[v] \in {None, item[v]}
    BY <1>1 DEF LocalInv, LocalRows
  <1> QED
    BY <1>1, <1>2, <1>3, <1>4 DEF WinnerConflicts

\* A row with the evidence of a winner.
LEMMA StrengthenedIs ==
    ASSUME LocalTypes, NEW v \in Reply, NEW native
    PROVE  /\ Strengthened(lstate[v], native) \in Decided
           /\ native # None => Strengthened(lstate[v], native) = "reply_observed"
           /\ native = None => \/ Strengthened(lstate[v], native) = lstate[v] /\ lstate[v] \in Decided
                               \/ Strengthened(lstate[v], native) = "reply_accepted" /\ lstate[v] \notin Decided
  BY DEF Strengthened, Decided, C!Decided

LEMMA WinnerImported ==
    ASSUME CustodianSays, LocalInv, UNCHANGED custody, NEW v, NEW n, NEW native,
           IsWinner(Known, v, n, native), ImportWinner(v, n, native)
    PROVE  LocalInv' /\ LocalStep
  <1>0. /\ v = winner[O] /\ v \in Reply /\ v # None /\ n = winnerSeq[O] /\ n \in Nat /\ n > 0
        /\ state[v] \in Decided /\ native \in Reply \cup {None}
        /\ native # None => native = item[v] /\ state[v] = "reply_observed"
    BY WinnerFacts
  <1> DEFINE strong == Strengthened(lstate[v], native)
             shown == IF native = None THEN litem[v] ELSE native
  <1>1. /\ LocalTypes /\ LocalOrder /\ LocalRows
        /\ UNCHANGED <<state, item, winner, winnerSeq, unknownAt>>
    BY DEF LocalInv, custody
  <1>2. /\ strong \in Decided
        /\ native # None => strong = "reply_observed"
        /\ native = None => \/ strong = lstate[v] /\ lstate[v] \in Decided
                            \/ strong = "reply_accepted" /\ lstate[v] \notin Decided
    BY <1>0, <1>1, StrengthenedIs
  <1>3. /\ lstate' = [r \in Reply |-> IF r = v THEN strong ELSE lstate[r]]
        /\ lseq' = [r \in Reply |-> IF r = v THEN n ELSE lseq[r]]
        /\ litem' = [r \in Reply |-> IF r = v THEN shown ELSE litem[r]]
        /\ lwinner' = v /\ lwinnerSeq' = n
    BY <1>1 DEF ImportWinner, LocalTypes
  <1> HIDE DEF strong
  <1>4. LocalTypes'
    BY <1>0, <1>1, <1>2, <1>3 DEF LocalTypes
  <1>5. lwinner \in {None, v} /\ \A r \in Reply : lseq[r] > 0 => lwinner = v /\ (r # v => n < lseq[r])
    BY <1>0, <1>1 DEF LocalTypes, LocalOrder
  <1>6. LocalOrder'
    <2>1. ASSUME NEW r \in Reply
          PROVE  /\ lstate'[r] \in Decided <=> lseq'[r] > 0
                 /\ lseq'[r] > 0 => lwinner' # None /\ (r # lwinner' => lwinnerSeq' < lseq'[r])
      <3>1. CASE r = v
        BY <1>0, <1>2, <1>3, <3>1
      <3>2. CASE r # v
        BY <1>0, <1>1, <1>3, <1>5, <3>2 DEF LocalOrder
      <3> QED
        BY <3>1, <3>2
    <2>2. lwinner' = winner'[O] /\ lwinnerSeq' = winnerSeq'[O] /\ lseq'[lwinner'] = lwinnerSeq'
      BY <1>0, <1>1, <1>3
    <2> QED
      BY <2>1, <2>2 DEF LocalOrder
  <1>7. shown \in Reply \cup {None} /\ (strong = "reply_observed" <=> shown # None)
        /\ (strong = "reply_observed" => state[v] = "reply_observed" /\ shown = item[v])
    BY <1>0, <1>1, <1>2 DEF LocalTypes, LocalRows, Decided, C!Decided
  <1> HIDE DEF shown
  <1>8. LocalRows'
    <2> SUFFICES ASSUME NEW r \in Reply
                 PROVE  /\ litem'[r] # None <=> lstate'[r] = "reply_observed"
                        /\ lstate'[r] = "reply_observed" => state'[r] = "reply_observed" /\ litem'[r] = item'[r]
                        /\ lstate'[r] = "reply_accepted" => state'[r] \in Decided
                        /\ lstate'[r] = "reply_outcome_unknown" => unknownAt'[r] > 0
      BY DEF LocalRows
    <2>1. CASE r = v
      BY <1>0, <1>1, <1>2, <1>3, <1>7, <2>1 DEF Decided, C!Decided
    <2>2. CASE r # v
      BY <1>1, <1>3, <2>2 DEF LocalRows
    <2> QED
      BY <2>1, <2>2
  <1>9. LocalStep
    <2>1. ASSUME NEW r \in Reply, lstate'[r] # lstate[r]
          PROVE  <<lstate[r], lstate'[r]>> \in
                   {<<"absent", "reply_outcome_unknown">>, <<"absent", "reply_accepted">>,
                    <<"absent", "reply_observed">>} \cup C!Strengthening
      <3>1. r = v /\ lstate'[r] = strong /\ strong # lstate[v]
        BY <1>3, <2>1
      <3>2. lstate[v] = "reply_observed" => strong = "reply_observed"
        BY <1>0, <1>1, <1>2 DEF Decided, C!Decided
      <3>3. lstate[v] \in {"absent", "reply_outcome_unknown", "reply_accepted", "reply_observed"}
        BY <1>0, <1>1 DEF LocalTypes, Decided, C!Decided
      <3> QED
        BY <1>2, <3>1, <3>2, <3>3 DEF C!Strengthening, Decided, C!Decided
    <2>2. ASSUME NEW r \in Reply, lseq[r] # 0 PROVE lseq'[r] = lseq[r]
      <3>1. lseq[r] > 0
        BY <1>1, <2>2 DEF LocalTypes
      <3> QED
        BY <1>0, <1>1, <1>3, <1>5, <3>1 DEF LocalOrder
    <2>3. ASSUME NEW r \in Reply, litem[r] # None PROVE litem'[r] = litem[r]
      BY <1>0, <1>1, <1>3, <1>7, <2>3 DEF LocalRows, shown
    <2>4. lwinner # None => lwinner' = lwinner
      BY <1>3, <1>5
    <2> QED
      BY <2>1, <2>2, <2>3, <2>4 DEF LocalStep
  <1> QED
    BY <1>4, <1>6, <1>8, <1>9 DEF LocalInv

LEMMA UnknownImported ==
    ASSUME CustodianSays, LocalInv, UNCHANGED custody, NEW v \in Reply, unknownAt[v] > 0,
           ~UnknownConflicts(v), ImportUnknown(v)
    PROVE  LocalInv' /\ LocalStep
  <1>1. /\ LocalTypes /\ LocalOrder /\ LocalRows
        /\ UNCHANGED <<state, item, winner, winnerSeq, unknownAt>>
    BY DEF LocalInv, custody
  <1>2. lstate[v] \in {"absent", "reply_outcome_unknown"}
    BY DEF UnknownConflicts
  <1>3. /\ lstate' = [r \in Reply |-> IF r = v THEN "reply_outcome_unknown" ELSE lstate[r]]
        /\ UNCHANGED <<lseq, litem, lwinner, lwinnerSeq>>
    BY <1>1 DEF ImportUnknown, LocalTypes
  <1>4. LocalTypes'
    BY <1>1, <1>3 DEF LocalTypes
  <1>5. LocalOrder'
    BY <1>1, <1>2, <1>3 DEF LocalOrder, Decided, C!Decided
  <1>6. LocalRows'
    BY <1>1, <1>2, <1>3 DEF LocalRows, Decided, C!Decided
  <1>7. LocalStep
    BY <1>1, <1>2, <1>3 DEF LocalStep
  <1> QED
    BY <1>4, <1>5, <1>6, <1>7 DEF LocalInv

\* What an observation answers fits the rows there are.
LEMMA ObservationAgrees ==
    ASSUME CustodianSays, LocalInv, NEW r \in Reply, item[r] = r, NEW v, NEW n, NEW native,
           IsWinner(Known, v, n, native), v = r => native = r
    PROVE  ~ObservedConflicts(r, v, native)
  <1>1. v = winner[O] /\ v \in Reply /\ v # None /\ native \in {None, item[v]}
    BY WinnerFacts
  <1>2. lwinner \in {None, v}
    BY <1>1 DEF LocalInv, LocalTypes, LocalOrder
  <1>3. litem[r] \in {None, item[r]} /\ litem[v] \in {None, item[v]}
    BY <1>1 DEF LocalInv, LocalRows
  <1> QED
    BY <1>1, <1>2, <1>3 DEF ObservedConflicts

LEMMA ObservationRecorded ==
    ASSUME CustodianSays, LocalInv, UNCHANGED custody,
           NEW r \in Reply, state[r] = "reply_observed", item[r] = r, NEW v, NEW n, NEW native,
           IsWinner(Known, v, n, native), v = r => native = r,
           RecordObservedReplyAndWinner(r, v, n, native)
    PROVE  LocalInv' /\ LocalStep
  <1>0. /\ v = winner[O] /\ v \in Reply /\ v # None /\ n = winnerSeq[O] /\ n \in Nat /\ n > 0
        /\ state[v] \in Decided /\ native \in Reply \cup {None} /\ r # None
        /\ native # None => native = item[v] /\ state[v] = "reply_observed"
    BY WinnerFacts, RemoteAssumption
  <1> DEFINE strong == Strengthened(lstate[v], native)
             shown == IF native = None THEN litem[v] ELSE native
             number == Numbered(r, v, n)
  <1>1. /\ LocalTypes /\ LocalOrder /\ LocalRows
        /\ UNCHANGED <<state, item, winner, winnerSeq, unknownAt>>
    BY DEF LocalInv, custody
  <1>2. /\ strong \in Decided
        /\ native # None => strong = "reply_observed"
        /\ native = None => \/ strong = lstate[v] /\ lstate[v] \in Decided
                            \/ strong = "reply_accepted" /\ lstate[v] \notin Decided
    BY <1>0, <1>1, StrengthenedIs
  <1>3. /\ lstate' = [q \in Reply |-> IF q = r THEN "reply_observed" ELSE IF q = v THEN strong ELSE lstate[q]]
        /\ litem' = [q \in Reply |-> IF q = r THEN r ELSE IF q = v THEN shown ELSE litem[q]]
        /\ lseq' = number
        /\ lwinner' = v /\ lwinnerSeq' = n
    BY <1>1 DEF RecordObservedReplyAndWinner, LocalTypes
  <1>4. /\ number \in [Reply -> Nat] /\ number[v] = n
        /\ \A q \in Reply \ {r, v} : number[q] = lseq[q]
        /\ r # v => number[r] > 0 /\ (IF lseq[r] > 0 THEN number[r] = lseq[r] ELSE number[r] > n)
    BY <1>0, <1>1, NumberedIs DEF LocalTypes
  <1> HIDE DEF strong, number
  <1>5. LocalTypes'
    BY <1>0, <1>1, <1>2, <1>3, <1>4 DEF LocalTypes, Decided, C!Decided
  <1>6. lwinner \in {None, v} /\ \A q \in Reply : lseq[q] > 0 => lwinner = v /\ (q # v => n < lseq[q])
    BY <1>0, <1>1 DEF LocalTypes, LocalOrder
  <1>7. LocalOrder'
    <2>1. ASSUME NEW q \in Reply
          PROVE  /\ lstate'[q] \in Decided <=> lseq'[q] > 0
                 /\ lseq'[q] > 0 => lwinner' # None /\ (q # lwinner' => lwinnerSeq' < lseq'[q])
      <3>1. CASE q = v
        <4>1. lstate'[v] \in Decided
          BY <1>0, <1>2, <1>3 DEF Decided, C!Decided
        <4> QED
          BY <1>0, <1>3, <1>4, <3>1, <4>1
      <3>2. CASE q = r /\ q # v
        <4>1. lstate'[q] \in Decided
          BY <1>3, <3>2 DEF Decided, C!Decided
        <4>2. number[q] > 0 /\ n < number[q]
          BY <1>0, <1>4, <1>6, <3>2
        <4> QED
          BY <1>0, <1>3, <3>2, <4>1, <4>2
      <3>3. CASE q # v /\ q # r
        BY <1>0, <1>1, <1>3, <1>4, <1>6, <3>3 DEF LocalOrder
      <3> QED
        BY <3>1, <3>2, <3>3
    <2>2. lwinner' = winner'[O] /\ lwinnerSeq' = winnerSeq'[O] /\ lseq'[lwinner'] = lwinnerSeq'
      BY <1>0, <1>1, <1>3, <1>4
    <2> QED
      BY <2>1, <2>2 DEF LocalOrder
  <1>8. shown \in Reply \cup {None} /\ (strong = "reply_observed" <=> shown # None)
        /\ (strong = "reply_observed" => state[v] = "reply_observed" /\ shown = item[v])
    BY <1>0, <1>1, <1>2 DEF LocalTypes, LocalRows, Decided, C!Decided
  <1>9. lstate[v] = "reply_observed" => strong = "reply_observed"
    BY <1>0, <1>1, <1>2 DEF Decided, C!Decided
  <1>10. ASSUME NEW q \in Reply, litem[q] # None PROVE litem'[q] = litem[q]
    <2>1. litem[q] = item[q]
      BY <1>1, <1>10 DEF LocalRows
    <2>2. q = v => shown = litem[q]
      BY <1>0, <1>10, <2>1 DEF shown
    <2> QED
      BY <1>3, <2>1, <2>2
  <1> HIDE DEF shown
  <1>11. LocalRows'
    <2> SUFFICES ASSUME NEW q \in Reply
                 PROVE  /\ litem'[q] # None <=> lstate'[q] = "reply_observed"
                        /\ lstate'[q] = "reply_observed" => state'[q] = "reply_observed" /\ litem'[q] = item'[q]
                        /\ lstate'[q] = "reply_accepted" => state'[q] \in Decided
                        /\ lstate'[q] = "reply_outcome_unknown" => unknownAt'[q] > 0
      BY DEF LocalRows
    <2>1. CASE q = r
      BY <1>0, <1>1, <1>3, <2>1
    <2>2. CASE q = v /\ q # r
      BY <1>0, <1>1, <1>2, <1>3, <1>8, <2>2 DEF Decided, C!Decided
    <2>3. CASE q # v /\ q # r
      BY <1>1, <1>3, <2>3 DEF LocalRows
    <2> QED
      BY <2>1, <2>2, <2>3
  <1>12. LocalStep
    <2>1. ASSUME NEW q \in Reply, lstate'[q] # lstate[q]
          PROVE  <<lstate[q], lstate'[q]>> \in
                   {<<"absent", "reply_outcome_unknown">>, <<"absent", "reply_accepted">>,
                    <<"absent", "reply_observed">>} \cup C!Strengthening
      <3>1. lstate[q] \in {"absent", "reply_outcome_unknown", "reply_accepted", "reply_observed"}
        BY <1>1 DEF LocalTypes, Decided, C!Decided
      <3>2. lstate'[q] \in Decided /\ (lstate[q] = "reply_observed" => lstate'[q] = "reply_observed")
        BY <1>2, <1>3, <1>9, <2>1 DEF Decided, C!Decided
      <3> QED
        BY <2>1, <3>1, <3>2 DEF C!Strengthening, Decided, C!Decided
    <2>2. ASSUME NEW q \in Reply, lseq[q] # 0 PROVE lseq'[q] = lseq[q]
      <3>1. lseq[q] > 0
        BY <1>1, <2>2 DEF LocalTypes
      <3>2. q = v => lseq[q] = n
        BY <1>0, <1>1, <1>6, <3>1 DEF LocalOrder
      <3> QED
        BY <1>3, <1>4, <3>1, <3>2
    <2>3. lwinner # None => lwinner' = lwinner
      BY <1>3, <1>6
    <2> QED
      BY <1>10, <2>1, <2>2, <2>3 DEF LocalStep
  <1> QED
    BY <1>5, <1>7, <1>11, <1>12 DEF LocalInv

-----------------------------------------------------------------------------
(* Calls: what an answer says was true when it left.                        *)

\* What a read of the original selects.
SelectionIsTrue ==
    LET chosen == C!Selection(O)
    IN /\ chosen.selection = "winner" => chosen.reply = winner[O] /\ winner[O] # None
       /\ chosen.selection = "terminal_unknown" => chosen.reply \in Reply /\ unknownAt[chosen.reply] > 0

LEMMA SelectionFacts == CP!IInv => SelectionIsTrue
  <1> SUFFICES ASSUME CP!IInv PROVE SelectionIsTrue
    OBVIOUS
  <1>1. CASE winner[O] # None
    BY <1>1 DEF SelectionIsTrue, C!Selection
  <1>2. CASE winner[O] = None /\ C!Unknowns(O) = {}
    BY <1>2 DEF SelectionIsTrue, C!Selection
  <1>3. CASE winner[O] = None /\ C!Unknowns(O) # {}
    <2>1. CP!Unknowns(O) # {} /\ O \in {O} /\ C!EarliestUnknown(O) = CP!EarliestUnknown(O)
      BY <1>3 DEF C!Unknowns, CP!Unknowns, C!EarliestUnknown, CP!EarliestUnknown
    <2>2. \E r \in CP!Unknowns(O) : CP!IsEarliest(r, O)
      BY <2>1, CP!EarliestExists, CustodianAssumptions
    <2>3. CP!IsEarliest(CP!EarliestUnknown(O), O)
      BY <2>1, <2>2, CP!EarliestChosen, CustodianAssumptions
    <2>4. C!EarliestUnknown(O) \in Reply /\ state[C!EarliestUnknown(O)] = "reply_outcome_unknown"
      BY <2>1, <2>3 DEF CP!IsEarliest, CP!Unknowns
    <2>5. C!Selection(O) = [selection |-> "terminal_unknown", reply |-> C!EarliestUnknown(O)]
      BY <1>3 DEF C!Selection
    <2>6. unknownAt[C!EarliestUnknown(O)] > 0
      BY <2>4, CustodianFacts DEF CustodianSays
    <2> QED
      BY <2>4, <2>5, <2>6 DEF SelectionIsTrue
  <1> QED
    BY <1>1, <1>2, <1>3

LEMMA SelectedIsTrue ==
    ASSUME CustodianSays', SelectionIsTrue', NEW r, NEW c,
           c = [step |-> "answered", op |-> "originalStatus", reply |-> r, result |-> Selected(C!Selection(O)')]
    PROVE  IsTrue(c, Known')
  <1> DEFINE chosen == C!Selection(O)'
  <1>1. /\ chosen.selection = "winner" => chosen.reply = winner'[O] /\ winner'[O] # None
        /\ chosen.selection = "terminal_unknown" => chosen.reply \in Reply /\ unknownAt'[chosen.reply] > 0
    BY DEF SelectionIsTrue
  <1>2. /\ c.op = "originalStatus" /\ c.result = Selected(chosen)
    OBVIOUS
  <1> HIDE DEF chosen
  <1>3. CASE chosen.selection = "winner"
    <2>1. /\ c.result.selection = "winner" /\ c.result.reply = chosen.reply /\ c.result.seq = winnerSeq'[O]
          /\ c.result.native = item'[chosen.reply]
      BY <1>2, <1>3 DEF Selected, WinnerResult
    <2>2. chosen.reply \in Reply
      BY <1>1, <1>3 DEF CustodianSays
    <2> QED
      BY <1>1, <1>2, <1>3, <2>1, <2>2 DEF IsTrue, IsWinner, Known
  <1>4. CASE chosen.selection = "terminal_unknown"
    <2>1. c.result.selection = "terminal_unknown" /\ c.result.reply = chosen.reply
      BY <1>2, <1>4 DEF Selected, UnknownResult
    <2> QED
      BY <1>1, <1>2, <1>4, <2>1 DEF IsTrue, Known
  <1>5. CASE chosen.selection \notin {"winner", "terminal_unknown"}
    <2>1. c.result.selection = "pending"
      BY <1>2, <1>5 DEF Selected, PendingResult
    <2> QED
      BY <1>2, <2>1 DEF IsTrue
  <1> QED
    BY <1>3, <1>4, <1>5

LEMMA ObservedIsTrue ==
    ASSUME CustodianSays, CustodianSays', NEW r \in Reply, C!ObserveReply(r, r), NEW c,
           c = [step |-> "answered", op |-> "observe", reply |-> r,
                result |-> ObserveResult(winner'[O], winnerSeq'[O], item'[winner'[O]])]
    PROVE  IsTrue(c, Known')
  <1>1. item'[r] = r /\ state'[r] = "reply_observed"
    <2>1. item' = [item EXCEPT ![r] = r] /\ state' = [state EXCEPT ![r] = "reply_observed"]
      BY DEF C!ObserveReply, C!RecordObservation
    <2> QED
      BY <2>1 DEF CustodianSays
  <1>2. winner'[O] # None /\ winner'[O] \in Reply
    BY <1>1 DEF CustodianSays, Decided, C!Decided
  <1>3. /\ c.op = "observe" /\ c.reply = r /\ c.result.winner = winner'[O] /\ c.result.seq = winnerSeq'[O]
        /\ c.result.native = item'[winner'[O]]
    BY DEF ObserveResult
  <1> QED
    BY <1>1, <1>2, <1>3 DEF IsTrue, IsWinner, Known

\* The calls of a deliverer are answered with nothing that a waiter believes.
LEMMA DelivererAnswers ==
    ASSUME NEW op \in {"claim", "heartbeat", "commit", "abandon", "status"}, NEW r \in Reply, NEW result, NEW k
    PROVE  IsTrue([step |-> "answered", op |-> op, reply |-> r, result |-> result], k)
  BY DEF IsTrue

LEMMA DelivererCalls ==
    ASSUME CustodianSays, CustodianKeeps, CallInv, NEW d \in Deliverer, NEW t \in Thread, NEW r \in Reply,
           \/ Claim(d, t, r) \/ Heartbeat(d, t, r) \/ Commit(d, t, r) \/ Abandon(d, t, r)
           \/ Status(d, t, r)
    PROVE  CallInv' /\ UNCHANGED <<cache, held, delivered, local>>
  <1>1. <<d, t>> \in Slot
    BY DEF Slot
  <1>2. ASSUME NEW op \in {"claim", "heartbeat", "commit", "abandon", "status"}, NEW doc, NEW result,
               Call(<<d, t>>, op, r, doc, result)
        PROVE  CallInv' /\ UNCHANGED <<cache, held, delivered, local>>
    <2>1. /\ call' = [call EXCEPT ![<<d, t>>] = [step |-> "answered", op |-> op, reply |-> r, result |-> result]]
          /\ UNCHANGED <<cache, held, delivered, local>>
      BY <1>2 DEF Call
    <2>2. IsTrue([step |-> "answered", op |-> op, reply |-> r, result |-> result], Known')
      BY DelivererAnswers
    <2>3. CallInv'
      BY <1>1, <2>1, <2>2, CallAnswered
    <2> QED
      BY <2>1, <2>3
  <1>3. ASSUME NEW doc, CallFails(<<d, t>>, doc) PROVE CallInv' /\ UNCHANGED <<cache, held, delivered, local>>
    BY <1>3, CallsStay DEF CallFails
  <1> QED
    BY <1>2, <1>3 DEF Claim, Heartbeat, Commit, Abandon, Status

LEMMA WaiterCalls ==
    ASSUME CP!IInv, CP!IInv', CustodianKeeps, CallInv, NEW w \in Waiter,
           OriginalStatus(w) \/ \E r \in Reply : Observe(w, r)
    PROVE  CallInv' /\ UNCHANGED <<cache, held, delivered, local>>
  <1>1. w \in Slot /\ CustodianSays
    BY CustodianFacts DEF Slot
  <1>2. CustodianSays' /\ SelectionIsTrue'
    BY CustodianFacts, SelectionFacts, PTL
  <1>3. CASE OriginalStatus(w)
    <2>1. /\ call' = [call EXCEPT ![w] = [step |-> "answered", op |-> "originalStatus", reply |-> None,
                                          result |-> Selected(C!Selection(O)')]]
          /\ UNCHANGED <<cache, held, delivered, local>>
      BY <1>3 DEF OriginalStatus, Call
    <2>2. CallInv'
      BY <1>1, <1>2, <2>1, CallAnswered, SelectedIsTrue
    <2> QED
      BY <2>1, <2>2
  <1>4. ASSUME NEW r \in Reply, Observe(w, r) PROVE CallInv' /\ UNCHANGED <<cache, held, delivered, local>>
    <2>1. /\ call' = [call EXCEPT ![w] = [step |-> "answered", op |-> "observe", reply |-> r,
                                          result |-> ObserveResult(winner'[O], winnerSeq'[O], item'[winner'[O]])]]
          /\ C!ObserveReply(r, r)
          /\ UNCHANGED <<cache, held, delivered, local>>
      BY <1>4 DEF Observe, Call
    <2>2. CallInv'
      BY <1>1, <1>2, <2>1, CallAnswered, ObservedIsTrue
    <2> QED
      BY <2>1, <2>2
  <1> QED
    BY <1>3, <1>4

-----------------------------------------------------------------------------
(* Returns: what an answer changes where it arrives.                        *)

LEMMA DelivererReturns ==
    ASSUME CallInv, CacheInv, NEW d \in Deliverer, NEW t \in Thread,
           ReturnClaim(d, t) \/ ReturnHeartbeat(d, t) \/ ReturnPlain(d, t)
    PROVE  CallInv' /\ CacheInv' /\ UNCHANGED <<custody, local>>
  <1>1. <<d, t>> \in Slot /\ UNCHANGED <<custody, local, delivered>> /\ End(<<d, t>>)
    BY DEF Slot, ReturnClaim, ReturnHeartbeat, ReturnPlain
  <1>2. CallInv'
    BY <1>1, CallEnds
  <1>3. CASE ReturnClaim(d, t)
    <2> DEFINE r == call[<<d, t>>].reply
               joined == call[<<d, t>>].result.disposition = "existing"
    <2>1. r \in Reply
      BY <1>1, <1>3 DEF ReturnClaim, Answered, CallInv, IsTrue
    <2>2. /\ cache' = [cache EXCEPT ![d][r] = Remember(@, joined)]
          /\ held' = IF joined THEN held ELSE [held EXCEPT ![d] = @ \cup {r}]
      BY <1>3 DEF ReturnClaim
    <2> HIDE DEF r, joined
    <2>3. Remember(cache[d][r], joined) \in {"joined", "owner"}
          /\ (~joined \/ cache[d][r] = "owner" => Remember(cache[d][r], joined) = "owner")
      BY DEF Remember
    <2>4. cache' \in [Deliverer -> [Reply -> {"absent", "joined", "owner"}]] /\ held' \in [Deliverer -> SUBSET Reply]
      BY <2>1, <2>2, <2>3 DEF CacheInv
    <2>5. ASSUME NEW e \in Deliverer, NEW q \in held'[e] PROVE cache'[e][q] = "owner"
      <3>1. CASE e = d /\ q = r
        <4>1. ~joined \/ cache[d][r] = "owner"
          BY <2>2, <2>5, <3>1 DEF CacheInv
        <4> QED
          BY <2>1, <2>2, <2>3, <3>1, <4>1 DEF CacheInv
      <3>2. CASE ~(e = d /\ q = r)
        <4>1. q \in held[e]
          BY <2>2, <2>5, <3>2 DEF CacheInv
        <4>2. cache'[e][q] = cache[e][q]
          BY <2>2, <3>2 DEF CacheInv
        <4> QED
          BY <4>1, <4>2 DEF CacheInv
      <3> QED
        BY <3>1, <3>2
    <2> QED
      BY <1>1, <1>2, <2>4, <2>5 DEF CacheInv
  <1>4. CASE ReturnHeartbeat(d, t)
    <2>1. /\ cache' = [cache EXCEPT ![d][call[<<d, t>>].reply] = "owner"] /\ UNCHANGED held
          /\ call[<<d, t>>].reply \in Reply
      BY <1>1, <1>4 DEF ReturnHeartbeat, Answered, CallInv, IsTrue
    <2>2. CacheInv'
      BY <1>1, <2>1 DEF CacheInv
    <2> QED
      BY <1>1, <1>2, <2>2
  <1>5. CASE ReturnPlain(d, t)
    BY <1>1, <1>2, <1>5 DEF ReturnPlain, CacheInv
  <1> QED
    BY <1>3, <1>4, <1>5

LEMMA WaiterReturns ==
    ASSUME CustodianSays, CallInv, LocalInv, NEW w \in Waiter, ReturnOriginalStatus(w) \/ ReturnObserve(w)
    PROVE  CallInv' /\ LocalInv' /\ LocalStep /\ UNCHANGED <<custody, cache, held, delivered>>
  <1>1. w \in Slot /\ UNCHANGED <<custody, cache, held, delivered>> /\ End(w)
    BY DEF Slot, ReturnOriginalStatus, ReturnObserve
  <1>2. CallInv'
    BY <1>1, CallEnds
  <1>3. ASSUME UNCHANGED local PROVE LocalInv' /\ LocalStep
    BY <1>1, <1>3 DEF LocalInv, LocalTypes, LocalOrder, LocalRows, LocalStep, local, custody
  <1>4. CASE ReturnOriginalStatus(w)
    <2> DEFINE result == call[w].result
    <2>1. /\ result.selection = "winner" => IsWinner(Known, result.reply, result.seq, result.native)
          /\ result.selection = "terminal_unknown" => result.reply \in Reply /\ unknownAt[result.reply] > 0
      BY <1>1, <1>4 DEF ReturnOriginalStatus, Answered, CallInv, IsTrue, Known
    <2>2. \/ UNCHANGED local
          \/ result.selection = "winner" /\ ImportWinner(result.reply, result.seq, result.native)
          \/ result.selection = "terminal_unknown" /\ ~UnknownConflicts(result.reply) /\ ImportUnknown(result.reply)
      BY <1>4 DEF ReturnOriginalStatus, Refused
    <2> HIDE DEF result
    <2>3. LocalInv' /\ LocalStep
      BY <1>1, <1>3, <2>1, <2>2, WinnerImported, UnknownImported
    <2> QED
      BY <1>1, <1>2, <2>3
  <1>5. CASE ReturnObserve(w)
    <2> DEFINE r == call[w].reply
               result == call[w].result
    <2>1. /\ r \in Reply /\ state[r] = "reply_observed" /\ item[r] = r
          /\ IsWinner(Known, result.winner, result.seq, result.native)
          /\ result.winner = r => result.native = r
      BY <1>1, <1>5 DEF ReturnObserve, Answered, CallInv, IsTrue, Known
    <2>2. UNCHANGED local \/ RecordObservedReplyAndWinner(r, result.winner, result.seq, result.native)
      BY <1>5 DEF ReturnObserve
    <2> HIDE DEF r, result
    <2>3. LocalInv' /\ LocalStep
      BY <1>1, <1>3, <2>1, <2>2, ObservationRecorded
    <2> QED
      BY <1>1, <1>2, <2>3
  <1> QED
    BY <1>4, <1>5

-----------------------------------------------------------------------------
(* The invariant.                                                           *)

LEMMA InitRemote == RemoteInit => RemoteInv
  <1> SUFFICES ASSUME RemoteInit PROVE RemoteInv
    OBVIOUS
  <1>1. CP!IInv
    BY CustodianAssumptions, CP!InitIInv, SameCustodian DEF RemoteInit
  <1>2. CallInv
    BY DEF RemoteInit, CallInv, Idle
  <1>3. CacheInv
    BY DEF RemoteInit, CacheInv
  <1>4. LocalInv
    BY DEF RemoteInit, LocalInv, LocalTypes, LocalOrder, LocalRows, Decided, C!Decided
  <1> QED
    BY <1>1, <1>2, <1>3, <1>4 DEF RemoteInv

LEMMA NextRemote == RemoteInv /\ [RemoteNext]_remoteVars => RemoteInv' /\ [LocalStep]_remoteVars
  <1> SUFFICES ASSUME RemoteInv, [RemoteNext]_remoteVars PROVE RemoteInv' /\ [LocalStep]_remoteVars
    OBVIOUS
  <1>1. CP!IInv /\ CallInv /\ CacheInv /\ LocalInv /\ delivered \subseteq Reply
    BY DEF RemoteInv, CacheInv
  <1>2. [C!Next]_(C!vars)
    BY <1>1, CallsCustody
  <1>3. [CP!Next]_(CP!vars)
    BY <1>2, SameCustodian DEF C!vars, CP!vars
  <1>4. CP!IInv'
    BY <1>1, <1>3, CustodianAssumptions, CP!NextIInv
  <1>5. CustodianKeeps /\ CustodianSays
    BY <1>1, <1>2, <1>4, CustodianMoves, CustodianFacts
  <1>6. ASSUME UNCHANGED local PROVE LocalInv' /\ LocalStep
    <2>1. LocalInv'
      BY <1>1, <1>5, <1>6, LocalStays
    <2>2. LocalStep
      BY <1>6 DEF LocalStep, local
    <2> QED
      BY <2>1, <2>2
  <1>7. ASSUME UNCHANGED <<cache, held, delivered>> PROVE CacheInv'
    BY <1>1, <1>7 DEF CacheInv
  <1>8. ASSUME NEW d \in Deliverer, NEW t \in Thread, NEW r \in Reply,
               \/ Claim(d, t, r) \/ Heartbeat(d, t, r) \/ Commit(d, t, r) \/ Abandon(d, t, r)
               \/ Status(d, t, r)
        PROVE  CallInv' /\ CacheInv' /\ LocalInv' /\ LocalStep
    BY <1>1, <1>5, <1>6, <1>7, <1>8, DelivererCalls
  <1>9. ASSUME NEW d \in Deliverer, NEW r \in Reply, Deliver(d, r)
        PROVE  CallInv' /\ CacheInv' /\ LocalInv' /\ LocalStep
    <2>1. UNCHANGED <<call, cache, held, local>> /\ delivered' = delivered \cup {r}
      BY <1>9 DEF Deliver
    <2>2. CacheInv'
      BY <1>1, <2>1 DEF CacheInv
    <2> QED
      BY <1>1, <1>5, <1>6, <2>1, <2>2, CallsStay
  <1>10. ASSUME NEW w \in Waiter, OriginalStatus(w) \/ \E r \in Reply : Observe(w, r)
         PROVE  CallInv' /\ CacheInv' /\ LocalInv' /\ LocalStep
    BY <1>1, <1>4, <1>5, <1>6, <1>7, <1>10, WaiterCalls
  <1>11. ASSUME NEW s \in Slot, Lose(s) \/ ReturnUnusable(s)
         PROVE  CallInv' /\ CacheInv' /\ LocalInv' /\ LocalStep
    <2>1. End(s) /\ UNCHANGED <<custody, cache, held, delivered, local>>
      BY <1>11 DEF Lose, ReturnUnusable
    <2> QED
      BY <1>1, <1>6, <1>7, <2>1, CallEnds
  <1>12. ASSUME NEW d \in Deliverer, NEW t \in Thread, ReturnClaim(d, t) \/ ReturnHeartbeat(d, t) \/ ReturnPlain(d, t)
         PROVE  CallInv' /\ CacheInv' /\ LocalInv' /\ LocalStep
    BY <1>1, <1>6, <1>12, DelivererReturns
  <1>13. ASSUME NEW w \in Waiter, ReturnOriginalStatus(w) \/ ReturnObserve(w)
         PROVE  CallInv' /\ CacheInv' /\ LocalInv' /\ LocalStep
    BY <1>1, <1>5, <1>7, <1>13, WaiterReturns
  <1>14. ASSUME CustodianSteps \/ UNCHANGED remoteVars PROVE CallInv' /\ CacheInv' /\ LocalInv' /\ LocalStep
    <2>1. UNCHANGED <<call, cache, held, delivered, local>>
      BY <1>14 DEF CustodianSteps, remoteVars
    <2> QED
      BY <1>1, <1>5, <1>6, <1>7, <2>1, CallsStay
  <1>15. CallInv' /\ CacheInv' /\ LocalInv' /\ LocalStep
    BY <1>8, <1>9, <1>10, <1>11, <1>12, <1>13, <1>14 DEF RemoteNext
  <1> QED
    BY <1>4, <1>15 DEF RemoteInv

-----------------------------------------------------------------------------
(* The properties.                                                          *)

\* A claim that carries its token and its lease is a request of its owner.
LEMMA OwnersMayAsk ==
    ASSUME CacheInv PROVE OwnerKeepsLease
  <1> SUFFICES ASSUME NEW d \in Deliverer, NEW r \in held[d], NEW op \in {"heartbeat", "commit", "abandon"}
               PROVE  ValidRequest(OwnerDoc(d, op, r))
    BY DEF OwnerKeepsLease
  <1>1. cache[d][r] = "owner"
    BY DEF CacheInv
  <1> DEFINE code == IF r \in ErrorCode THEN {"replyErrorCode"} ELSE {}
             has == ((Content \cup {"replyMessageId", "attemptOwner", "requestedAt"} \cup code)
                     \cup {"fencingToken"}) \cup {"lease"}
             doc == OwnerDoc(d, op, r)
  <1>2. /\ doc.op = op /\ doc.has = has /\ doc.whole = {}
        /\ doc.status = IF r \in ErrorCode THEN "error" ELSE "success"
    BY <1>1 DEF OwnerDoc, OwnerRequest, ClaimRequest, TupleRequest
  <1> HIDE DEF doc
  <1>3. WellFormed(doc)
    BY <1>2 DEF WellFormed, Content
  <1>4. Authorized(doc)
    BY <1>2 DEF Authorized, Content
  <1> QED
    BY <1>3, <1>4 DEF ValidRequest, doc

LEMMA RefusalsAreOvertaken ==
    ASSUME CustodianSays, CallInv, LocalInv PROVE RefusedOnlyIfOvertaken
  <1> SUFFICES ASSUME NEW w \in Waiter, call[w].step = "answered"
               PROVE  /\ call[w].op = "originalStatus" /\ Refused(call[w].result) =>
                            call[w].result.selection = "terminal_unknown"
                            /\ lstate[call[w].result.reply] \in Decided
                      /\ call[w].op = "observe" =>
                            ~ObservedConflicts(call[w].reply, call[w].result.winner, call[w].result.native)
    BY DEF RefusedOnlyIfOvertaken
  <1> DEFINE c == call[w]
  <1>1. IsTrue(c, Known)
    BY DEF CallInv, Slot
  <1> HIDE DEF c
  <1>2. ASSUME c.op = "originalStatus", Refused(c.result)
        PROVE  c.result.selection = "terminal_unknown" /\ lstate[c.result.reply] \in Decided
    <2>1. c.result.selection # "winner" \/ ~WinnerConflicts(c.result.reply, c.result.seq, c.result.native)
      BY <1>1, <1>2, WinnerAgrees DEF IsTrue
    <2>2. c.result.selection = "terminal_unknown" /\ UnknownConflicts(c.result.reply)
      BY <1>2, <2>1 DEF Refused
    <2>3. c.result.reply \in Reply
      BY <1>1, <1>2, <2>2 DEF IsTrue
    <2> QED
      BY <2>2, <2>3 DEF UnknownConflicts, LocalInv, LocalTypes
  <1>3. ASSUME c.op = "observe" PROVE ~ObservedConflicts(c.reply, c.result.winner, c.result.native)
    <2>1. /\ c.reply \in Reply /\ item[c.reply] = c.reply
          /\ IsWinner(Known, c.result.winner, c.result.seq, c.result.native)
          /\ c.result.winner = c.reply => c.result.native = c.reply
      BY <1>1, <1>3 DEF IsTrue, Known
    <2> QED
      BY <2>1, ObservationAgrees
  <1> QED
    BY <1>2, <1>3 DEF c

LEMMA RowsAreCopies ==
    ASSUME CustodianSays, LocalInv PROVE LocalAgrees /\ LookupNamesWinner
  <1>1. LocalTypes /\ LocalOrder /\ LocalRows
    BY DEF LocalInv
  <1>2. ASSUME lwinner # None
        PROVE  /\ lwinner = winner[O] /\ lwinnerSeq = winnerSeq[O] /\ lseq[lwinner] = lwinnerSeq
               /\ lwinner \in Reply /\ lstate[lwinner] \in Decided
    <2>1. lwinner = winner[O] /\ lwinnerSeq = winnerSeq[O] /\ lseq[lwinner] = lwinnerSeq /\ lwinner \in Reply
      BY <1>1, <1>2 DEF LocalOrder, LocalTypes
    <2>2. lseq[lwinner] > 0
      BY <1>2, <2>1 DEF CustodianSays
    <2> QED
      BY <1>1, <2>1, <2>2 DEF LocalOrder
  <1>3. LocalAgrees
    BY <1>1, <1>2 DEF LocalAgrees, LocalRows
  <1>4. LookupNamesWinner
    <2>1. \A r \in Positives : lwinner # None /\ lseq[r] > 0 /\ (r # lwinner => lwinnerSeq < lseq[r])
      BY <1>1 DEF Positives, LocalOrder
    <2> QED
      BY <1>2, <2>1 DEF LookupNamesWinner, Positives
  <1> QED
    BY <1>3, <1>4

\* For any deliverers, waiters, concurrent calls and replies: a call of another
\* machine is a transaction of custody, whose theorems therefore hold.
THEOREM RemoteImplementsCustody == RemoteSpec => C!Spec
  <1>1. RemoteInit => C!Init
    BY DEF RemoteInit
  <1>2. RemoteInv => delivered \subseteq Reply
    BY DEF RemoteInv, CacheInv
  <1> QED
    BY <1>1, <1>2, InitRemote, NextRemote, CallsCustody, PTL DEF RemoteSpec, C!Spec

\* What a machine away from custody records, reports and holds is custody's,
\* although answers of the control protocol are lost, late and overtaken
\* (service/remote_journal.go, journal/replies.go).
THEOREM RemoteAgrees == RemoteSpec => RemoteIsCustodys
  <1>1. RemoteInv => LocalAgrees /\ LookupNamesWinner /\ RefusedOnlyIfOvertaken /\ OwnerKeepsLease
    BY CustodianFacts, RowsAreCopies, RefusalsAreOvertaken, OwnersMayAsk DEF RemoteInv
  <1> QED
    BY <1>1, InitRemote, NextRemote, PTL DEF RemoteSpec, RemoteIsCustodys, LocalOnlyStrengthens

\* The custodian's columns, the calls, the cache of claims and the rows of the
\* waiting machine keep their types.
THEOREM RemoteTyped == RemoteSpec => []RemoteTypeOK
  <1>1. CP!IInv => C!TypeOK
    BY DEF CP!IInv, CP!TypeOK, C!TypeOK, CP!State, C!State, CP!Decided, C!Decided
  <1>2. RemoteInv => RemoteTypeOK
    BY <1>1 DEF RemoteInv, RemoteTypeOK, CallInv, CacheInv, LocalInv, LocalTypes
  <1> QED
    BY <1>2, InitRemote, NextRemote, PTL DEF RemoteSpec
=============================================================================
