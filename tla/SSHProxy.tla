------------------------------ MODULE SSHProxy ------------------------------
(***************************************************************************)
(* One ssh child of go/internal/sshproxy and the one thing it was started  *)
(* for: a Conn that carries the WebSocket of an app-server client (Dial,   *)
(* below appserver/transport.go), or one control or preflight document     *)
(* (InvokeControl, InvokePreflight).  The parts run as goroutines: the     *)
(* reaper, the stderr collector, the pump, the pipe writer, the watcher of *)
(* the context, the caller.  A step is what one of them does between two   *)
(* channel operations or under one mutex.                                  *)
(*                                                                         *)
(* Bytes are counted by what can be told apart: a message is written in    *)
(* Fragments pieces, stdout is read in chunks.                             *)
(***************************************************************************)
EXTENDS Naturals, Sequences

CONSTANTS
    Uses,          \* what a child is started for: "dial", "control" or "preflight",
                   \* with bounds on the messages we write and the chunks it writes
    Fragments,     \* Writes the WebSocket layer makes for one message
    ReadCapacity   \* length of the queue between pump and Read

ASSUME UsesAssumption ==
    \A u \in Uses : /\ u.for \in {"dial", "control", "preflight"}
                    /\ u.messages \in Nat /\ u.chunks \in Nat
ASSUME SizeAssumption == Fragments \in Nat \ {0} /\ ReadCapacity \in Nat \ {0}

VARIABLES
    use,        \* a member of Uses: [for, messages, chunks]
    child,      \* "none", "started" or "failed" to spawn
    alive,      \* the process runs
    exit,       \* "none", "ok" or "failed"
    killed,
    stdin, stdout, stderr,   \* our ends of the pipes: "open" or "closed"
    out,        \* chunks the process has written
    read,       \* chunks taken from the stdout pipe
    stdoutDone, stderrDone, reaped,  \* the closed channels; reaped is waitDone
    closing,    \* child.close: "no", "waiting" or "done"
    closeErr,   \* "none", "kill" or "timeout"
    pipe,       \* the goroutine in stdin.Write: "none", "writing", "ok", "failed"
    touched,    \* bytes of the current message reached stdin
    ever,       \* bytes of any message did
    ctxEnded,
    conn,       \* Dial's side; a record, see ConnInit
    reader,     \* the side of Read and pump; see ReaderInit
    control     \* the side of InvokeControl; see ControlInit

process == <<child, alive, exit, killed>>
pipes   == <<stdin, stdout, stderr, out, read, stdoutDone, stderrDone, reaped>>
closers == <<closing, closeErr>>
writing == <<pipe, touched, ever>>
vars == <<use, process, pipes, closers, writing, ctxEnded, conn, reader, control>>

\* abort: how far closeOnce has come; writer: where Write stands; deadline: the
\* write deadline; failure: the first recorded failure; watcher: what cancel saw.
ConnInit == [guard |-> "armed", abort |-> "no", phase |-> "not_started", writer |-> "dialing",
             written |-> 0, messages |-> 0, deadline |-> "none", result |-> "none",
             failure |-> "none", watcher |-> "watching"]
ReaderInit == [pump |-> "reading", queue |-> <<>>, delivered |-> 0, terminal |-> "none"]
\* served: the receiver got the whole document and may act on it; applied: it has.
ControlInit == [pc |-> "start", body |-> "none", served |-> FALSE, applied |-> FALSE,
                result |-> "none", evidence |-> "none"]

Init ==
    /\ use \in Uses
    /\ child = "none" /\ alive = FALSE /\ exit = "none" /\ killed = FALSE
    /\ stdin = "closed" /\ stdout = "closed" /\ stderr = "closed" /\ out = 0 /\ read = 0
    /\ stdoutDone = FALSE /\ stderrDone = FALSE /\ reaped = FALSE
    /\ closing = "no" /\ closeErr = "none"
    /\ pipe = "none" /\ touched = FALSE /\ ever = FALSE /\ ctxEnded = FALSE
    /\ conn = ConnInit /\ reader = ReaderInit /\ control = ControlInit

Started == child = "started"
IsDial == use.for = "dial"

-----------------------------------------------------------------------------
(* The process, its reaper and child.close. *)

\* startChild succeeds, or every pipe it opened is closed again.
StartChild(ok) ==
    /\ child = "none"
    /\ child' = IF ok THEN "started" ELSE "failed"
    /\ alive' = ok
    /\ stdin' = IF ok THEN "open" ELSE "closed"
    /\ stdout' = stdin' /\ stderr' = stdin'
    /\ UNCHANGED <<exit, killed, out, read, stdoutDone, stderrDone, reaped>>

ProcessWrites ==
    /\ alive /\ stdout = "open" /\ out < use.chunks
    /\ ~IsDial => control.applied
    /\ out' = out + 1
    /\ UNCHANGED <<use, process, stdin, stdout, stderr, read, stdoutDone, stderrDone, reaped,
                   closers, writing, ctxEnded, conn, reader, control>>

\* The exit code of a proxy only words what Wait says, and is not kept.
ProcessExits(code) ==
    /\ alive
    /\ code = "ok" => IsDial \/ stdin = "closed"
    /\ code = "failed" => ~IsDial
    /\ alive' = FALSE /\ exit' = code
    /\ UNCHANGED <<use, child, killed, pipes, closers, writing, ctxEnded, conn, reader, control>>

\* collectStderr ends at EOF, at a closed pipe, or at its limit.
CollectStderr ==
    /\ Started /\ ~stderrDone
    /\ stderrDone' = TRUE /\ stderr' = "closed"
    /\ UNCHANGED <<use, process, stdin, stdout, out, read, stdoutDone, reaped, closers, writing,
                   ctxEnded, conn, reader, control>>

\* The reaper calls process.Wait only after both streams have been given up.
Reap ==
    /\ stdoutDone /\ stderrDone /\ Started /\ ~alive /\ ~reaped
    /\ reaped' = TRUE
    /\ UNCHANGED <<use, process, stdin, stdout, stderr, out, read, stdoutDone, stderrDone,
                   closers, writing, ctxEnded, conn, reader, control>>

\* child.close, up to the wait.  Whoever comes second waits for closeDone.
\* The fault forgets to release the reaper of a child that nobody reads.
BeginClose_KeepsGate ==
    /\ closing = "no"
    /\ closing' = "waiting"
    /\ stdin' = "closed" /\ stdout' = "closed" /\ stderr' = "closed"
    /\ \E ok \in BOOLEAN : killed' = ok /\ closeErr' = IF ok \/ ~alive THEN "none" ELSE "kill"
    /\ UNCHANGED <<child, alive, exit, out, read, stdoutDone, stderrDone, reaped>>
BeginClose ==
    /\ closing = "no"
    /\ closing' = "waiting"
    /\ stdin' = "closed" /\ stdout' = "closed" /\ stderr' = "closed"
    /\ stdoutDone' = TRUE
    /\ \E ok \in BOOLEAN : killed' = ok /\ closeErr' = IF ok \/ ~alive THEN "none" ELSE "kill"
    /\ UNCHANGED <<child, alive, exit, out, read, stderrDone, reaped>>

\* The fault waits for the process without a bound.
FinishClose ==
    /\ closing = "waiting"
    /\ closing' = "done"
    /\ \/ reaped /\ UNCHANGED closeErr
       \/ closeErr' = IF closeErr = "none" THEN "timeout" ELSE closeErr
    /\ UNCHANGED <<use, process, pipes, writing, ctxEnded, conn, reader, control>>

\* The goroutine in stdin.Write.  A control document's pipe is closed after it.
PipeWrite ==
    /\ pipe = "writing"
    /\ \E some, all \in BOOLEAN :
        /\ all => some /\ stdin = "open"
        /\ touched' = (touched \/ some) /\ ever' = (ever \/ some)
        /\ pipe' = IF all THEN "ok" ELSE "failed"
        /\ stdin' = IF IsDial THEN stdin ELSE "closed"
        /\ control' = [control EXCEPT !.served = ~IsDial /\ all]
    /\ UNCHANGED <<use, process, stdout, stderr, out, read, stdoutDone, stderrDone, reaped,
                   closers, ctxEnded, conn, reader>>

ContextEnds ==
    /\ ~ctxEnded /\ ctxEnded' = TRUE
    /\ UNCHANGED <<use, process, pipes, closers, writing, conn, reader, control>>

-----------------------------------------------------------------------------
(* Dial, and the WebSocket handshake above it. *)

Dialed == IsDial /\ Started
Signalled == conn.abort \in {"signalled", "child", "done"}
rest == <<use, process, pipes, closers, writing, ctxEnded, reader, control>>

\* The connection goes on at label; CloseAnd also calls Close.
GoOn(label) == [conn EXCEPT !.writer = label]
CloseAnd(c) == [c EXCEPT !.abort = IF @ = "no" THEN "called" ELSE @]

\* Dial starts no child for a context that has ended.
Dial ==
    /\ IsDial /\ conn.writer = "dialing"
    /\ IF ctxEnded
       THEN conn' = GoOn("stopped") /\ UNCHANGED <<process, pipes>>
       ELSE \E ok \in BOOLEAN : StartChild(ok) /\ conn' = GoOn(IF ok THEN "adopting" ELSE "stopped")
    /\ UNCHANGED <<use, closers, writing, ctxEnded, reader, control>>

SetupEnds ==
    /\ IsDial /\ conn.guard = "armed"
    /\ conn' = [conn EXCEPT !.guard = "ended"]
    /\ UNCHANGED rest

\* expire closes what was adopted; stop has detached the guard from it.
GuardExpires ==
    /\ conn.guard = "ended"
    /\ LET expired == [conn EXCEPT !.guard = "expired"]
       IN conn' = IF conn.writer = "handshake" THEN CloseAnd(expired) ELSE expired
    /\ UNCHANGED rest

\* DialClient looks at its context, then adopt at the guard; a connection that
\* neither wants is closed.  The fault leaves that to a guard that has run.
Adopt ==
    /\ conn.writer = "adopting"
    /\ \/ conn.guard # "expired" /\ conn' = GoOn("handshake")
       \/ conn.guard # "armed" /\ conn' = CloseAnd(GoOn("stopped"))
    /\ UNCHANGED rest

\* The Upgrade succeeds, or the dialer (external) closes its connection; stop
\* detaches a guard that has not expired.
Handshake ==
    /\ conn.writer = "handshake"
    /\ LET detached == [conn EXCEPT !.guard = IF @ = "expired" THEN @ ELSE "stopped"]
       IN \/ conn' = [detached EXCEPT !.writer = "idle"]
          \/ conn' = CloseAnd([detached EXCEPT !.writer = "stopped"])
    /\ UNCHANGED rest

-----------------------------------------------------------------------------
(* abort: Close, a passed write deadline, and cancel all end here. *)

Close ==
    /\ conn.writer \in {"idle", "admit", "store", "pending", "stopped"} /\ Started
    /\ conn.abort = "no"
    /\ conn' = CloseAnd(conn)
    /\ UNCHANGED rest

AbortSignals ==
    /\ conn.abort = "called"
    /\ conn' = [conn EXCEPT !.abort = "signalled"]
    /\ UNCHANGED rest

AbortChild ==
    /\ conn.abort = "signalled"
    /\ BeginClose
    /\ conn' = [conn EXCEPT !.abort = "child"]
    /\ UNCHANGED <<use, writing, ctxEnded, reader, control>>

AbortReturns ==
    /\ conn.abort = "child" /\ closing = "done"
    /\ conn' = [conn EXCEPT !.abort = "done"]
    /\ UNCHANGED rest

\* Dial's watcher leaves at done or waitDone.  cancel reads the write phase,
\* then records it as the first failure, then closes.
WatcherCancels ==
    /\ Dialed /\ conn.watcher = "watching" /\ ctxEnded
    /\ conn' = [conn EXCEPT !.watcher = conn.phase]
    /\ UNCHANGED rest
WatcherLeaves ==
    /\ Dialed /\ conn.watcher = "watching" /\ (Signalled \/ reaped)
    /\ conn' = [conn EXCEPT !.watcher = "left"]
    /\ UNCHANGED rest
CancelRecords ==
    /\ conn.watcher \in {"not_started", "may_have_written", "complete"}
    /\ conn' = CloseAnd([conn EXCEPT !.watcher = "left",
                                     !.failure = IF @ = "none" THEN conn.watcher ELSE @])
    /\ UNCHANGED rest

-----------------------------------------------------------------------------
(* websocketTransport.Write of one message: Fragments calls of Conn.Write. *)

MessageEnds(e, next) == [conn EXCEPT !.result = e, !.writer = next]

\* The Write of a fragment failed with evidence e, which says nothing of the
\* fragments before it: any failure inside a message is may_have_written.
MessageFails_PassedOn(e) == MessageEnds(e, "stopped")
MessageFails(e) == MessageEnds("may_have_written", "stopped")

\* A write context that has ended writes nothing; another has a deadline, which
\* may never pass.
BeginMessage ==
    /\ conn.writer = "idle" /\ conn.messages < use.messages
    /\ touched' = FALSE
    /\ \/ conn' = MessageEnds("not_started", "idle")
       \/ conn' = [conn EXCEPT !.messages = @ + 1, !.writer = "admit", !.written = 0,
                               !.result = "none", !.deadline = "ahead"]
    /\ UNCHANGED <<use, process, pipes, closers, pipe, ever, ctxEnded, reader, control>>

DeadlinePasses ==
    /\ conn.deadline = "ahead" /\ conn.writer \in {"admit", "store", "pending"}
    /\ conn' = [conn EXCEPT !.deadline = "passed"]
    /\ UNCHANGED rest

\* Admission, under admissionMu.
Admit ==
    /\ conn.writer = "admit"
    /\ conn' = IF Signalled \/ conn.deadline = "passed"
               THEN MessageFails("not_started") ELSE GoOn("store")
    /\ UNCHANGED rest

\* The phase is stored after admissionMu was released.
StorePhase ==
    /\ conn.writer = "store" /\ conn.phase \in {"not_started", "complete"}
    /\ conn' = [conn EXCEPT !.phase = "may_have_written", !.writer = "pending"]
    /\ pipe' = "writing"
    /\ UNCHANGED <<use, process, pipes, closers, touched, ever, ctxEnded, reader, control>>

\* The select of a pending Write.  The fault calls a cut-off Write not started.
WriteCut ==
    /\ conn.writer = "pending" /\ Signalled
    /\ conn' = MessageFails("may_have_written")
    /\ UNCHANGED rest
WriteExpires ==
    /\ \/ conn.writer = "pending" /\ conn.deadline = "passed"
          /\ conn' = CloseAnd(GoOn("expired"))
       \/ conn.writer = "expired" /\ conn.abort = "done"
          /\ conn' = MessageFails("may_have_written")
    /\ UNCHANGED rest
WriteDone ==
    /\ conn.writer = "pending" /\ pipe \in {"ok", "failed"}
    /\ pipe' = "none"
    /\ LET whole == [conn EXCEPT !.phase = "complete", !.written = @ + 1]
       IN conn' = IF pipe = "failed" THEN MessageFails("may_have_written")
                  ELSE IF whole.written < Fragments THEN [whole EXCEPT !.writer = "admit"]
                  ELSE [whole EXCEPT !.result = "complete", !.writer = "idle"]
    /\ UNCHANGED <<use, process, pipes, closers, touched, ever, ctxEnded, reader, control>>

-----------------------------------------------------------------------------
(* pump and Read. *)

beside == <<use, process, stdin, stdout, stderr, out, stderrDone, reaped, closers, writing,
            ctxEnded, conn>>
rest2 == <<beside, control>>

\* One stdout.Read: a chunk, the end of the stream, or a pipe we closed.  The
\* fault takes an empty read for a chunk.
PumpReads ==
    /\ Dialed /\ reader.pump = "reading"
    /\ \/ /\ stdout = "open" /\ read < out
          /\ read' = read + 1 /\ reader' = [reader EXCEPT !.pump = "chunk"]
       \/ /\ stdout = "open" /\ read = out /\ ~alive
          /\ reader' = [reader EXCEPT !.pump = "eof"] /\ UNCHANGED read
       \/ /\ stdout = "closed"
          /\ reader' = [reader EXCEPT !.pump = "aborted"] /\ UNCHANGED read
    /\ UNCHANGED <<rest2, stdoutDone>>

\* The send, or done, whichever select picks; the pump ends after an error.
\* The fault goes on reading when a chunk found no room.
PumpSends ==
    /\ reader.pump \in {"chunk", "eof", "aborted"}
    /\ \/ /\ Len(reader.queue) < ReadCapacity
          /\ reader' = [reader EXCEPT !.queue = Append(@, reader.pump),
                                      !.pump = IF @ = "chunk" THEN "reading" ELSE "ended"]
       \/ /\ Signalled
          /\ reader' = [reader EXCEPT !.pump = "ended"]
    /\ stdoutDone' = (stdoutDone \/ reader'.pump = "ended")
    /\ UNCHANGED <<rest2, read>>

\* Read, with an empty buffer: a chunk, or an error that it will repeat.  What it
\* says when done is closed or its deadline passes is not remembered anywhere.
ReadTakes ==
    /\ reader.queue # <<>> /\ reader.terminal = "none"
    /\ LET head == Head(reader.queue)
       IN reader' = [reader EXCEPT !.queue = Tail(@),
                                   !.delivered = IF head = "chunk" THEN @ + 1 ELSE @,
                                   !.terminal = IF head = "chunk" THEN @ ELSE head]
    /\ UNCHANGED <<rest2, read, stdoutDone>>

-----------------------------------------------------------------------------
(* InvokeControl and InvokePreflight. *)

At(label) == ~IsDial /\ control.pc = label
To(label) == [control EXCEPT !.pc = label]
Fails(e) == [control EXCEPT !.pc = "closing", !.result = "failed", !.evidence = e]
restC == <<use, process, pipes, closers, ctxEnded, conn, reader>>

InvokeControl ==
    /\ At("start")
    /\ IF ctxEnded
       THEN /\ control' = [Fails("not_started") EXCEPT !.pc = "returned"]
            /\ UNCHANGED <<process, pipes>>
       ELSE \E ok \in BOOLEAN :
              /\ StartChild(ok)
              /\ control' = IF ok THEN To("write")
                            ELSE [Fails("not_started") EXCEPT !.pc = "returned"]
    /\ pipe' = IF control'.pc = "write" THEN "writing" ELSE pipe
    /\ UNCHANGED <<use, closers, touched, ever, ctxEnded, conn, reader>>

\* The context's watcher closes the child under the call.
ControlCancels ==
    /\ ~IsDial /\ control.pc \in {"write", "read", "reap"} /\ ctxEnded
    /\ BeginClose
    /\ UNCHANGED <<use, writing, ctxEnded, conn, reader, control>>

\* A pipe that failed may have taken some bytes.  One that the watcher closed
\* under a complete write is an error without evidence.
ControlWritten ==
    /\ At("write")
    /\ \/ pipe = "ok" /\ control' = To("read")
       \/ pipe = "ok" /\ closing # "no" /\ control' = Fails("none")
       \/ pipe = "failed" /\ control' = Fails("may_have_written")
       \/ ctxEnded /\ control' = Fails("may_have_written")
    /\ UNCHANGED <<restC, writing>>

\* The goroutine that reads all of stdout, up to the limit.
ControlReads ==
    /\ At("read") /\ control.body = "none"
    /\ \/ stdout = "open" /\ ~alive
          /\ control' = [control EXCEPT !.body = IF out = 0 THEN "empty" ELSE "response"]
       \/ stdout = "open" /\ out > 0 /\ control' = [control EXCEPT !.body = "too_large"]
       \/ stdout = "closed" /\ control' = [control EXCEPT !.body = "error"]
    /\ read' = out /\ stdoutDone' = TRUE
    /\ UNCHANGED <<beside, reader>>

ControlRead ==
    /\ At("read")
    /\ \/ control.body \in {"empty", "response"} /\ control' = To("reap")
       \/ control.body \in {"error", "too_large"} /\ control' = Fails("complete")
       \/ ctxEnded /\ control' = Fails("complete")
    /\ UNCHANGED <<restC, writing>>

\* A response counts once the child was reaped with success and the document
\* matches the request.  The fault takes it when stdout ends.
Judge ==
    IF exit = "ok" /\ control.body = "response"
    THEN [To("closing") EXCEPT !.result = "answered"]
    ELSE Fails("complete")
ControlReaped ==
    /\ At("reap")
    /\ \/ reaped /\ control' = Judge
       \/ reaped /\ control' = Fails("complete")
       \/ control' = Fails("complete")
    /\ UNCHANGED <<restC, writing>>

ControlCloses ==
    /\ At("closing") /\ BeginClose
    /\ UNCHANGED <<use, writing, ctxEnded, conn, reader, control>>

\* An answer whose cleanup failed is returned with that error.
ControlReturns ==
    /\ At("closing") /\ closing = "done"
    /\ control' = [To("returned") EXCEPT !.result = IF closeErr = "none" THEN @ ELSE "failed"]
    /\ UNCHANGED <<restC, writing>>

\* The receiver acts on a whole document, whatever becomes of the local child.
ReceiverApplies ==
    /\ control.served /\ ~control.applied
    /\ control' = [control EXCEPT !.applied = TRUE]
    /\ UNCHANGED <<restC, writing>>

-----------------------------------------------------------------------------

Peer == ProcessWrites \/ (\E code \in {"ok", "failed"} : ProcessExits(code)) \/ ReceiverApplies
Child == CollectStderr \/ Reap \/ FinishClose \/ PipeWrite \/ ContextEnds
Dials == Dial \/ SetupEnds \/ GuardExpires \/ Adopt \/ Handshake
Aborts == Close \/ AbortSignals \/ AbortChild \/ AbortReturns
          \/ WatcherCancels \/ WatcherLeaves \/ CancelRecords
Writes == BeginMessage \/ DeadlinePasses \/ Admit \/ StorePhase \/ WriteCut \/ WriteExpires
          \/ WriteDone
Reads == PumpReads \/ PumpSends \/ ReadTakes
Controls == InvokeControl \/ ControlCancels \/ ControlWritten \/ ControlReads \/ ControlRead
            \/ ControlReaped \/ ControlCloses \/ ControlReturns

Next == Peer \/ Child \/ Dials \/ Aborts \/ Writes \/ Reads \/ Controls
Spec == Init /\ [][Next]_vars

\* A killed process exits, a timer fires, a pipe write ends once its pipe is
\* closed, and a goroutine that can go on does.  Nobody is obliged to read, to
\* close, to answer or to end a context.
Fairness ==
    /\ WF_vars(killed /\ \E code \in {"ok", "failed"} : ProcessExits(code))
    /\ WF_vars(stderr = "closed" /\ CollectStderr) /\ WF_vars(Reap) /\ WF_vars(FinishClose)
    /\ WF_vars(stdin = "closed" /\ PipeWrite)
    /\ WF_vars(AbortSignals) /\ WF_vars(AbortChild) /\ WF_vars(AbortReturns)
    /\ WF_vars(WriteCut) /\ WF_vars(WriteExpires)
    /\ WF_vars(PumpReads) /\ WF_vars(PumpSends)
    /\ WF_vars(ControlCancels) /\ WF_vars(ControlWritten) /\ WF_vars(ControlRead)
    /\ WF_vars(stdout = "closed" /\ ControlReads) /\ WF_vars(ControlReaped)
    /\ WF_vars(ControlCloses) /\ WF_vars(ControlReturns)
FairSpec == Spec /\ Fairness

-----------------------------------------------------------------------------
(* Properties. *)

Phases == {"not_started", "may_have_written", "complete"}
TypeOK ==
    /\ use \in Uses /\ child \in {"none", "started", "failed"}
    /\ {alive, killed, stdoutDone, stderrDone, reaped, touched, ever, ctxEnded} \subseteq BOOLEAN
    /\ exit \in {"none", "ok", "failed"} /\ {stdin, stdout, stderr} \subseteq {"open", "closed"}
    /\ read \in 0..out /\ out \in 0..use.chunks
    /\ closing \in {"no", "waiting", "done"} /\ closeErr \in {"none", "kill", "timeout"}
    /\ pipe \in {"none", "writing", "ok", "failed"}
    /\ conn.phase \in Phases /\ conn.written \in 0..Fragments /\ conn.messages \in 0..use.messages
    /\ conn.result \in Phases \cup {"none"} /\ conn.failure \in Phases \cup {"none"}
    /\ Len(reader.queue) <= ReadCapacity /\ reader.delivered \in 0..read
    /\ control.result \in {"none", "failed", "answered"}
    /\ control.evidence \in Phases \cup {"none"}

\* Evidence: what Transport.Write says of a message of several fragments is true
\* of the whole message: not_started means that no byte of it reached stdin,
\* complete that all of it did (transport.go: "classify every in-message failure
\* conservatively").
MessageEvidence ==
    /\ conn.result = "not_started" => ~touched
    /\ conn.result = "complete" => touched /\ conn.written = Fragments

\* Ownership: a child whose connection nobody was given is being closed, whichever
\* of the setup context, the guard and the handshake came first (newDialGuard).
DialLeavesNoChild ==
    Started /\ conn.writer = "stopped" /\ conn.messages = 0 => conn.abort # "no"

\* Ordering: Read reports io.EOF only after every chunk the process wrote, so a
\* clean end of stream never hides a lost chunk (pump, Read).
EofIsComplete == reader.terminal = "eof" => reader.delivered = out

\* Custody control: an answer is returned only for a document that the receiver
\* got and acted on, by a child that exited with success; not_started means that
\* nothing reached it, complete that it may act (InvokeControl).
AnswerIsTrue ==
    /\ control.result = "answered" => control.applied /\ exit = "ok"
    /\ control.evidence = "not_started" => ~ever
    /\ control.evidence = "complete" => control.served

\* Liveness: a child whose pipes were closed is waited for, also when the caller
\* failed before anybody read its stdout (close: "release the Wait gate").
ChildIsReaped == (closing = "waiting" /\ killed) ~> reaped

\* Liveness: Close, a Write that is cut off or expires, and a control call whose
\* context ended return, also when the process cannot be killed.
CallsReturn ==
    /\ (conn.abort = "called") ~> (conn.abort = "done")
    /\ (conn.writer = "pending" /\ Signalled) ~> (conn.writer # "pending")
    /\ (~IsDial /\ ctxEnded /\ control.pc # "start") ~> (control.pc = "returned")

\* docs/ssh-transport.md: "`canceled`: context cancellation happened before a
\* write."  Wait returns the first failure; cancel recorded it with the phase it
\* had read earlier.
CanceledBeforeWrite == reaped /\ conn.failure = "not_started" => ~ever

\* What the proxy reports of bytes written, read and answered is true.
ReportsAreTrue == MessageEvidence /\ EofIsComplete /\ AnswerIsTrue

\* No child is left behind and no caller waits for one that cannot end.
NoChildIsLeft == []DialLeavesNoChild /\ ChildIsReaped /\ CallsReturn
=============================================================================
