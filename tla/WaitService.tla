----------------------------- MODULE WaitService -----------------------------
(***************************************************************************)
(* Service.Wait (go/internal/service/wait.go): one caller waits for the    *)
(* correlated reply to an original.  It reads custody, subscribes to the   *)
(* destination thread, scans its history in one goroutine and its live     *)
(* events in another, hands every native item it finds to custody, and     *)
(* reads custody again on a ticker until custody is terminal, the scan has *)
(* a gap, or the caller's context ends.                                    *)
(*                                                                         *)
(* Custody is kept as far as Wait can tell its states apart (the           *)
(* transactions themselves are ReplyCustody's); the deliverers and the     *)
(* native thread are the environment.  `remote` and `bounded` are fixed    *)
(* when the wait starts: who has custody, and whether --timeout was given. *)
(***************************************************************************)
EXTENDS Integers, Sequences, Functions

CONSTANTS
    Reply,       \* replies to the original, each with one native item
    NoReply,     \* no reply
    EventBuffer  \* capacity of the events channel (16 in the code)

\* A reply is none of the other things a channel or an answer holds.
ASSUME WaitAssumption ==
    /\ NoReply \notin Reply \cup {"read"}
    /\ Reply \cap {"off", "next", "done", "gap", "error"} = {}
    /\ EventBuffer \in Nat

VARIABLES
    cst,       \* reply_claims.state in custody; "overdue" is a claim past its lease
    winner,    \* the reply with the lowest commit sequence, or NoReply
    landed,    \* replies whose native item is in the thread's history
    remote,    \* custody is reached through the control receiver
    bounded,   \* the caller's context has a deadline
    ctxDone,   \* the caller's context is done
    live,      \* the subscription: "off", "on" or "cut"
    stream,    \* items the subscription has not delivered yet
    reader,    \* the event goroutine: "off", "next", "done", or the item it holds
    events,    \* the events channel; "gap" is an Event with Gap set
    scan,      \* the history goroutine: "off", "reading", "holding", "sent", "done"
    base,      \* the items in the thread when FullHistory was called
    found,     \* FullHistory's items; {"error"} when it failed
    stopped,   \* scanCtx is cancelled
    point,     \* where Wait is
    status,    \* the status read last
    todo,      \* items of the history answer not yet handed to custody
    current,   \* the item of the event being handled, or NoReply
    seen,      \* the seen map
    putOff,    \* items put off with ErrObservationPending
    gap,       \* GapReason is not empty
    result     \* what Wait returned

custody == <<cst, winner>>
workers == <<live, stream, reader, events, scan, base, found>>
wait    == <<point, status, todo, current, seen, putOff, gap, result>>
waitVars == <<custody, landed, remote, bounded, ctxDone, workers, stopped, wait>>

Pending     == [kind |-> "pending", reply |-> NoReply]
StatusOf(k, r) == [kind |-> k, reply |-> r]
NoResult    == StatusOf("none", NoReply)
Positive    == {"accepted", "observed"}

WaitInit ==
    /\ cst = [r \in Reply |-> "absent"]
    /\ winner = NoReply
    /\ landed = {}
    /\ remote \in BOOLEAN /\ bounded \in BOOLEAN
    /\ ctxDone = FALSE
    /\ live = "off" /\ stream = <<>>
    /\ reader = "off" /\ events = <<>>
    /\ scan = "off" /\ base = {} /\ found = {}
    /\ stopped = FALSE
    /\ point = "start" /\ status = Pending
    /\ todo = {} /\ current = NoReply /\ seen = {} /\ putOff = {}
    /\ gap = FALSE
    /\ result = NoResult

-----------------------------------------------------------------------------
(* The environment: deliverers, clocks, and the app-server.  What happens   *)
(* after Wait returned is not looked at.                                   *)

Waiting == point # "done"

\* A deliverer claims a reply; its lease runs out; the destination accepts the
\* body and the deliverer commits; or the deliverer gives the claim up.
Move(r, from, to) == cst[r] \in from /\ cst' = [cst EXCEPT ![r] = to]
Deliverer(r) ==
    /\ Waiting
    /\ \/ Move(r, {"absent"}, "claimed") /\ UNCHANGED winner
       \/ Move(r, {"claimed"}, "overdue") /\ UNCHANGED winner
       \/ Move(r, {"claimed"}, "accepted") /\ winner' = (IF winner = NoReply THEN r ELSE winner)
       \/ Move(r, {"claimed", "overdue"}, "unknown") /\ UNCHANGED winner
    /\ UNCHANGED <<landed, remote, bounded, ctxDone, workers, stopped, wait>>

\* The reply's item is completed in the destination thread: it enters the
\* history and, if there is a subscription, its events.
Deliver(r) ==
    /\ Waiting
    /\ r \notin landed /\ cst[r] # "absent"
    /\ landed' = landed \cup {r}
    /\ stream' = IF live = "on" THEN Append(stream, r) ELSE stream
    /\ UNCHANGED <<custody, remote, bounded, ctxDone, live, reader, events, scan, base, found,
                   stopped, wait>>

\* An overflow of the client's event queue drops what was not taken and a
\* disconnect keeps it; both end the stream with a gap event.
Cut ==
    /\ Waiting
    /\ live = "on"
    /\ live' = "cut"
    /\ stream' \in {<<>>, stream}
    /\ UNCHANGED <<custody, landed, remote, bounded, ctxDone, reader, events, scan, base, found,
                   stopped, wait>>

\* The caller's deadline passes, or the caller cancels.
CallerEnds ==
    /\ Waiting
    /\ ~ctxDone
    /\ ctxDone' = TRUE
    /\ UNCHANGED <<custody, landed, remote, bounded, workers, stopped, wait>>

-----------------------------------------------------------------------------
(* Journal.Lookup: the decided reply with the lowest commit sequence; without *)
(* one, an unknown reply if there is one (which of several, the local and the *)
(* remote lookup choose differently).                                         *)

LookupOf(c) ==
    LET unknowns == { r \in Reply : c[r] = "unknown" }
    IN IF winner # NoReply THEN {StatusOf("winner", winner)}
       ELSE IF unknowns = {} THEN {Pending}
       ELSE { StatusOf("unknown", r) : r \in unknowns }

Terminal(s) == s.kind # "pending"

\* lookupCustodyContext: ExpireClaims and then Lookup.
ReadCustody ==
    /\ cst' = [r \in Reply |-> IF cst[r] = "overdue" THEN "unknown" ELSE cst[r]]
    /\ status' \in LookupOf(cst')
    /\ UNCHANGED winner

ReturnWith(s) == point' = "return" /\ result' = s

-----------------------------------------------------------------------------
(* Wait. *)

\* The first read.  A terminal custody answers at once; without an observer
\* port Wait only polls; an error ends the call.
Start ==
    /\ point = "start"
    /\ \/ /\ ReturnWith(StatusOf("error", NoReply))
          /\ UNCHANGED <<custody, status>>
       \/ /\ ReadCustody
          /\ IF Terminal(status') THEN ReturnWith(status')
             ELSE point' \in {"subscribe", "poll"} /\ UNCHANGED result
    /\ UNCHANGED <<landed, remote, bounded, ctxDone, workers, stopped, todo, current, seen, putOff, gap>>

\* Observe.Subscribe, before FullHistory is called: what completes from now
\* on is in the stream, what completed before is in the history.
SubscribeThread ==
    /\ point = "subscribe"
    /\ \/ /\ live' = "on" /\ reader' = "next" /\ point' = "loop"
          /\ scan' = "reading" /\ base' = landed
          /\ UNCHANGED gap
       \/ /\ point' = "poll" /\ gap' = TRUE
          /\ UNCHANGED <<live, reader, scan, base>>
    /\ UNCHANGED <<custody, landed, remote, bounded, ctxDone, stream, events, found, stopped, status,
                   todo, current, seen, putOff, result>>

\* `case result := <-history`.
TakeHistory ==
    /\ point = "loop" /\ scan = "sent"
    /\ scan' = "done" /\ found' = {}
    /\ IF found = {"error"} THEN point' = "stop" /\ gap' = TRUE /\ UNCHANGED todo
       ELSE point' = "items" /\ todo' = found /\ UNCHANGED gap
    /\ UNCHANGED <<custody, landed, remote, bounded, ctxDone, live, stream, reader, events, base,
                   stopped, status, current, seen, putOff, result>>

\* `case event, ok := <-events`: a gap or the closed channel ends the scan,
\* an item is observed.
TakeEvent ==
    /\ point = "loop"
    /\ \/ /\ events # <<>>
          /\ events' = Tail(events)
          /\ IF Head(events) = "gap" THEN point' = "stop" /\ gap' = TRUE /\ UNCHANGED current
             ELSE point' = "item" /\ current' = Head(events) /\ UNCHANGED gap
       \/ /\ events = <<>> /\ reader = "done"
          /\ point' = "stop" /\ gap' = TRUE
          /\ UNCHANGED <<events, current>>
    /\ UNCHANGED <<custody, landed, remote, bounded, ctxDone, live, stream, reader, scan, base, found,
                   stopped, status, todo, seen, putOff, result>>

\* ObserveVerifiedReply of r at its custody.  An open claim is refused: local
\* custody says ErrObservationPending, remote custody is an ordinary error.
Admitted(r) == cst[r] \notin {"claimed", "overdue"}
RecordObserved(r) ==
    /\ Admitted(r)
    /\ cst' = [cst EXCEPT ![r] = "observed"]
    /\ winner' = IF winner = NoReply THEN r ELSE winner

ResumeLoop(set, ev) ==
    /\ todo' = set /\ current' = ev
    /\ point' = IF set # {} THEN "items" ELSE "loop"

\* observeCandidate: duplicates are skipped, an observed item is marked seen,
\* one that is pending is passed over, and any other error is a gap.
ObserveCandidate(r, set, ev) ==
    \/ /\ r \in seen
       /\ ResumeLoop(set, ev)
       /\ UNCHANGED <<custody, seen, putOff, gap>>
    \/ /\ r \notin seen
       /\ RecordObserved(r)
       /\ seen' = seen \cup {r}
       /\ ResumeLoop(set, ev)
       /\ UNCHANGED <<putOff, gap>>
    \/ /\ r \notin seen
       /\ ~remote /\ ~Admitted(r)
       /\ putOff' = putOff \cup {r}
       /\ ResumeLoop(set, ev)
       /\ UNCHANGED <<custody, seen, gap>>
    \/ /\ r \notin seen
       /\ point' = "stop" /\ gap' = TRUE
       /\ todo' = {} /\ current' = NoReply
       /\ UNCHANGED <<custody, seen, putOff>>

ObserveHistory ==
    /\ point = "items"
    /\ IF todo = {} THEN ResumeLoop({}, NoReply) /\ UNCHANGED <<custody, seen, putOff, gap>>
       ELSE \E r \in todo : ObserveCandidate(r, todo \ {r}, NoReply)
    /\ UNCHANGED <<landed, remote, bounded, ctxDone, workers, stopped, status, result>>

ObserveEvent ==
    /\ point = "item"
    /\ ObserveCandidate(current, {}, NoReply)
    /\ UNCHANGED <<landed, remote, bounded, ctxDone, workers, stopped, status, result>>

\* `case <-ticker.C`: a failed read is ignored.
TickerReads ==
    /\ point = "loop"
    /\ ReadCustody
    /\ IF Terminal(status') THEN ReturnWith(status') ELSE UNCHANGED <<point, result>>
    /\ UNCHANGED <<landed, remote, bounded, ctxDone, workers, stopped, todo, current, seen, putOff, gap>>

\* `case <-ctx.Done()`.
LoopEnds ==
    /\ point = "loop" /\ ctxDone
    /\ point' = "stop"
    /\ UNCHANGED <<custody, landed, remote, bounded, ctxDone, workers, stopped, status, todo, current,
                   seen, putOff, gap, result>>

\* stopWorkers cancels scanCtx and closes the stream (waiting at most 250ms);
\* after a gap Wait polls custody, at the end of the context it reads it once.
Stop == stopped' = TRUE /\ live' = "off" /\ stream' = <<>>
StopWorkers ==
    /\ point = "stop"
    /\ Stop
    /\ point' = IF gap THEN "poll" ELSE "final"
    /\ UNCHANGED <<custody, landed, remote, bounded, ctxDone, reader, events, scan, base, found,
                   status, todo, current, seen, putOff, gap, result>>

\* pollCustody: one read per tick.  A known gap without a deadline is not
\* waited out.
Incomplete(fresh) == [kind |-> "incomplete", reply |-> IF fresh THEN "read" ELSE NoReply]
PollCustody ==
    /\ point = "poll" /\ ~ctxDone
    /\ \/ /\ ReadCustody
          /\ IF Terminal(status') THEN ReturnWith(status')
             ELSE IF gap /\ ~bounded THEN ReturnWith(Incomplete(TRUE))
             ELSE UNCHANGED <<point, result>>
       \/ /\ IF gap /\ ~bounded THEN ReturnWith(Incomplete(FALSE)) ELSE UNCHANGED <<point, result>>
          /\ UNCHANGED <<custody, status>>
    /\ UNCHANGED <<landed, remote, bounded, ctxDone, workers, stopped, todo, current, seen, putOff, gap>>
PollEnds ==
    /\ point = "poll" /\ ctxDone
    /\ point' = "final"
    /\ UNCHANGED <<custody, landed, remote, bounded, ctxDone, workers, stopped, status, todo, current,
                   seen, putOff, gap, result>>

\* finishWait: one read under a context of its own, and then the answer.
FinishWait_NoRead ==
    /\ point = "final"
    /\ ReturnWith(IF Terminal(status) THEN status ELSE Incomplete(TRUE))
    /\ UNCHANGED <<custody, status, landed, remote, bounded, ctxDone, workers, stopped, todo, current,
                   seen, putOff, gap>>
FinishWait ==
    /\ point = "final"
    /\ \/ /\ ReadCustody
          /\ ReturnWith(IF Terminal(status') THEN status' ELSE Incomplete(TRUE))
       \/ /\ UNCHANGED <<custody, status>>
          /\ ReturnWith(IF Terminal(status) THEN status ELSE Incomplete(FALSE))
    /\ UNCHANGED <<landed, remote, bounded, ctxDone, workers, stopped, todo, current, seen, putOff, gap>>

\* The deferred stopWorkers and cancel.
Returns_LeavesWorkers ==
    /\ point = "return"
    /\ point' = "done"
    /\ UNCHANGED <<custody, landed, remote, bounded, ctxDone, workers, stopped, status, todo, current,
                   seen, putOff, gap, result>>
Returns ==
    /\ point = "return"
    /\ Stop
    /\ point' = "done"
    /\ UNCHANGED <<custody, landed, remote, bounded, ctxDone, reader, events, scan, base, found,
                   status, todo, current, seen, putOff, gap, result>>

-----------------------------------------------------------------------------
(* The goroutines. *)

\* stream.Next answers an item, a gap, or fails once the context is done.
ReaderTakes ==
    /\ reader = "next"
    /\ \/ /\ stream # <<>>
          /\ reader' = Head(stream) /\ stream' = Tail(stream)
       \/ /\ (live = "cut" /\ stream = <<>>) \/ stopped
          /\ reader' = "gap"
          /\ UNCHANGED stream
    /\ UNCHANGED <<custody, landed, remote, bounded, ctxDone, live, events, scan, base, found, stopped, wait>>

\* The send on the events channel, or scanCtx; a gap is the last event.
ReaderSends_Unbounded ==
    /\ reader \in Reply \cup {"gap"}
    /\ events' = Append(events, reader)
    /\ reader' = IF reader = "gap" THEN "done" ELSE "next"
    /\ UNCHANGED <<custody, landed, remote, bounded, ctxDone, live, stream, scan, base, found, stopped, wait>>
ReaderSends ==
    /\ reader \in Reply \cup {"gap"}
    /\ \/ /\ Len(events) < EventBuffer
          /\ events' = Append(events, reader)
          /\ reader' = IF reader = "gap" THEN "done" ELSE "next"
       \/ /\ stopped
          /\ reader' = "done"
          /\ UNCHANGED events
    /\ UNCHANGED <<custody, landed, remote, bounded, ctxDone, live, stream, scan, base, found, stopped, wait>>

\* FullHistory: pages are read while the thread grows, so an item completed
\* meanwhile may be missing; a failed read, or the context, is an error.
HistoryReads ==
    /\ scan = "reading"
    /\ scan' = "holding" /\ base' = {}
    /\ \/ /\ ~stopped
          /\ \E late \in SUBSET (landed \ base) : found' = base \cup late
       \/ found' = {"error"}
    /\ UNCHANGED <<custody, landed, remote, bounded, ctxDone, live, stream, reader, events,
                   stopped, wait>>
HistorySends ==
    /\ scan = "holding"
    /\ scan' \in IF stopped THEN {"sent", "done"} ELSE {"sent"}
    /\ UNCHANGED <<custody, landed, remote, bounded, ctxDone, live, stream, reader, events, base,
                   found, stopped, wait>>

Environment ==
    \/ \E r \in Reply : Deliverer(r) \/ Deliver(r)
    \/ Cut
    \/ CallerEnds
Waiter ==
    \/ Start \/ SubscribeThread \/ TakeHistory \/ TakeEvent \/ ObserveHistory \/ ObserveEvent
    \/ LoopEnds \/ StopWorkers \/ PollEnds \/ FinishWait \/ Returns
Worker == ReaderTakes \/ ReaderSends \/ HistoryReads \/ HistorySends

WaitNext == Environment \/ Waiter \/ TickerReads \/ PollCustody \/ Worker

WaitSpec == WaitInit /\ [][WaitNext]_waitVars

\* The waiter's goroutine is scheduled, and so are the workers, but a read of
\* the history need not end before its context does.  The select takes the
\* ticker's case again and again (its choice is uniform), and a read of
\* custody does not fail for ever.
WaitFairness ==
    /\ WF_waitVars(Waiter)
    /\ WF_waitVars(ReaderTakes \/ ReaderSends) /\ WF_waitVars(HistorySends)
    /\ WF_waitVars(stopped /\ HistoryReads)
    /\ SF_waitVars(TickerReads)
    /\ WF_waitVars(PollCustody) /\ SF_waitVars(PollCustody /\ ReadCustody)
    /\ WF_waitVars(bounded /\ CallerEnds)

FairWaitSpec == WaitSpec /\ WaitFairness

-----------------------------------------------------------------------------
(* Properties. *)

\* Every variable has values of its type.
WaitTypeOK ==
    /\ cst \in [Reply -> {"absent", "claimed", "overdue", "unknown"} \cup Positive]
    /\ landed \subseteq Reply
    /\ winner \in Reply \cup {NoReply}
    /\ live \in {"off", "on", "cut"} /\ stream \in Seq(Reply)
    /\ reader \in {"off", "next", "done", "gap"} \cup Reply
    /\ Len(events) <= EventBuffer
    /\ scan \in {"off", "reading", "holding", "sent", "done"}
    /\ point \in {"start", "subscribe", "loop", "items", "item", "stop", "poll", "final", "return", "done"}
    /\ todo \subseteq Reply /\ seen \subseteq Reply /\ putOff \subseteq Reply
    /\ result.kind \in {"none", "error", "winner", "unknown", "incomplete"}

\* What Wait returns is what custody decided: a reply it names is the winner,
\* and an unknown outcome is one custody recorded before any reply won.
AnswerIsCustodys ==
    /\ result.kind = "winner" => winner # NoReply /\ result.reply = winner
    /\ result.kind = "unknown" => cst[result.reply] \in {"unknown"} \cup Positive

\* While the scan has no gap, every item of the thread has been handed to
\* custody, is on its way there, or was put off because its claim was open:
\* none falls between the subscription and the history.
NothingFallsBetween ==
    point \in {"loop", "items", "item"} /\ scan = "done" /\ live = "on" /\ reader # "done" =>
        landed \subseteq seen \cup putOff \cup todo \cup {current, reader}
                         \cup Range(events) \cup Range(stream)

\* "A wait ended before ..." after a successful last read means that custody
\* had decided nothing: evidence committed at the deadline is not discarded.
IncompleteIsHonest ==
    [][result'.kind = "incomplete" /\ result' # result /\ result'.reply = "read" =>
          winner = NoReply /\ \A r \in Reply : cst'[r] # "unknown"]_waitVars

\* A wait with a deadline returns, whatever the endpoint and custody do.
BoundedReturns == bounded ~> point = "done"

\* A decided reply, or a claim past its lease, ends the wait, also while a
\* scan hangs and also when nobody else expires claims.
TerminalReturns ==
    winner # NoReply \/ (\E r \in Reply : cst[r] \in {"overdue", "unknown"}) ~> point = "done"

\* A stream that ended is noticed: it never becomes a wait without a gap.
CutIsNoticed == live = "cut" ~> gap \/ point = "done"

\* A wait with a known gap is not waited out without a deadline.
GapEnds == gap ~> point = "done"

\* Both goroutines of a wait that returned end.
WorkersEnd == point = "done" ~> reader \in {"off", "done"} /\ scan # "reading"

\* docs/architecture.md:114-115 says that Wait "revisits mutable/current
\* turns": an item it found is not left behind while its reply is reported
\* as unknown.
UnknownWasNotFound == result.kind = "unknown" => result.reply \notin putOff

\* What a wait answers is custody's, and no item of the thread is lost between
\* its subscription, its history and its last read.
WaitMissesNothing == [](AnswerIsCustodys /\ NothingFallsBetween) /\ IncompleteIsHonest

\* A wait ends, with a deadline, an outcome or a gap, and leaves nobody behind.
WaitsEnd == BoundedReturns /\ TerminalReturns /\ CutIsNoticed /\ GapEnds /\ WorkersEnd
=============================================================================
