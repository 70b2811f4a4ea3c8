--------------------------- MODULE ConnectionPool ---------------------------
(***************************************************************************)
(* The connections of one process to one endpoint                          *)
(* (go/internal/runtime/runtime.go): the pooled session that deliveries     *)
(* share, with the leases on its per-thread subscriptions                  *)
(* (delivery.go), and the isolated sessions that history reads and event   *)
(* streams open for themselves (observe.go).  Opening a session is         *)
(* connection.Connect.                                                     *)
(*                                                                         *)
(* One step is one critical section of p.mu, one wait, or one call to the  *)
(* app-server.  A user is a goroutine that subscribes, calls and           *)
(* unsubscribes, or only calls; a reader reads a history.                  *)
(***************************************************************************)
EXTENDS Integers, FiniteSets

CONSTANTS
    User,     \* goroutines using the pooled session
    Reader,   \* goroutines in ObservationAdapter.FullHistory or with a stream
    Thread,
    Session,  \* bound: the sessions users can open, a range 1..n
    None,
    Page      \* entries asked for in the first page (DefaultTurnsPageLimit)

ASSUME PoolAssumption ==
    /\ IsFiniteSet(User) /\ User \cap Reader = {}
    /\ None \notin User \cup Session
    /\ Page \in Nat \ {0}

VARIABLES
    session,     \* session[s]: "unused", "open" or "detached"
    subscribed,  \* pairs <<s, t>>: thread t is resumed on session s
    pooled,      \* p.sessions of the endpoint, or None
    opening,     \* the user whose opening is in p.openings, or None
    canceled,    \* the opening's context was cancelled by Close
    gate,        \* gate[t]: the user inside the gate, or None
    leases,      \* p.subscriptions
    closed,      \* p.closed
    closing,     \* sessions Close still has to detach
    stage,       \* stage[u], stage[r]: where the goroutine is
    thread,      \* thread[u]
    hand,        \* hand[u]: the session in hand
    own,         \* own[r]: the reader's connection: "none", "open" or "dead"
    joined,      \* joined[u]: what the opening u waits for came to
    held,        \* held[u]: Resume returned and Detach was not called
    over,        \* over[u]: the caller's context is done
    fits,        \* entries an answer can hold before it is oversized
    limit,       \* limit[r]: entries asked for per page
    pass         \* pass[r]: "turns" or "items" of a history, or an "events" stream

pool  == <<pooled, opening, canceled, leases, closed, closing>>
users == <<thread, joined, held, over>>
scans == <<own, fits, limit, pass>>
poolVars == <<session, subscribed, pool, gate, stage, hand, users, scans>>

Waits == [done |-> FALSE, session |-> None]

PoolInit ==
    /\ session = [s \in Session |-> "unused"]
    /\ subscribed = {}
    /\ pooled = None /\ opening = None /\ canceled = FALSE
    /\ gate = [t \in Thread |-> None]
    /\ leases = [t \in Thread |-> 0]
    /\ closed = FALSE /\ closing = {}
    /\ stage = [p \in User \cup Reader |-> "idle"]
    /\ thread \in [User -> Thread]
    /\ hand = [u \in User |-> None]
    /\ own = [r \in Reader |-> "none"]
    /\ joined = [u \in User |-> Waits]
    /\ held = [u \in User |-> FALSE]
    /\ over = [u \in User |-> FALSE]
    /\ fits \in 0..Page
    /\ limit = [r \in Reader |-> Page]
    /\ pass \in [Reader -> {"turns", "events"}]

-----------------------------------------------------------------------------
(* Helpers. *)

At(p, label) == stage[p] = label
Goto(p, label) == stage' = [stage EXCEPT ![p] = label]
Take(p, s) == hand' = [hand EXCEPT ![p] = s]

Detached(S) == [s \in Session |-> IF s \in S THEN "detached" ELSE session[s]]
Dropped(S) == { p \in subscribed : p[1] \notin S }

InGate(u) == gate[thread[u]] = u
LeaveGate(u) == gate' = IF InGate(u) THEN [gate EXCEPT ![thread[u]] = None] ELSE gate

\* The deferred release of the gate and the return.
Return_KeepsGate(u) ==
    /\ Goto(u, "done") /\ Take(u, None)
    /\ UNCHANGED gate
Return(u) ==
    /\ Goto(u, "done") /\ Take(u, None)
    /\ LeaveGate(u)

Fresh == { s \in Session : session[s] = "unused" /\ \A x \in 1..(s - 1) : session[x] # "unused" }

-----------------------------------------------------------------------------
(* DeliveryAdapter.Resume and .Send. *)

\* subscribe queues at the gate of the thread; a call goes to the session.
Begin(u) ==
    /\ At(u, "idle")
    /\ Goto(u, "gate") \/ Goto(u, "session")
    /\ UNCHANGED <<session, subscribed, pool, gate, hand, users, scans>>

ContextEnds(u) ==
    /\ ~over[u] /\ stage[u] \notin {"idle", "done"}
    /\ over' = [over EXCEPT ![u] = TRUE]
    /\ UNCHANGED <<session, subscribed, pool, gate, stage, hand, thread, joined, held, scans>>

EnterGate(u) ==
    /\ At(u, "gate")
    /\ \/ /\ gate[thread[u]] = None
          /\ gate' = [gate EXCEPT ![thread[u]] = u]
          /\ Goto(u, "session")
       \/ /\ over[u]
          /\ Goto(u, "done")
          /\ UNCHANGED gate
    /\ UNCHANGED <<session, subscribed, pool, hand, users, scans>>

\* session: the pooled one, the one another goroutine is opening, or a new one.
GetSession(u) ==
    /\ At(u, "session")
    /\ \/ closed /\ Return(u) /\ UNCHANGED pool
       \/ /\ ~closed /\ pooled # None
          /\ Take(u, pooled) /\ Goto(u, "have")
          /\ UNCHANGED <<pool, gate>>
       \/ /\ ~closed /\ pooled = None /\ opening # None
          /\ Goto(u, "join")
          /\ UNCHANGED <<pool, gate, hand>>
       \/ /\ ~closed /\ pooled = None /\ opening = None
          /\ opening' = u /\ canceled' = FALSE
          /\ Goto(u, "open")
          /\ UNCHANGED <<pooled, leases, closed, closing, gate, hand>>
    /\ UNCHANGED <<session, subscribed, users, scans>>

Join(u) ==
    /\ At(u, "join")
    /\ \/ /\ joined[u].done /\ joined[u].session # None
          /\ Take(u, joined[u].session) /\ Goto(u, "have")
          /\ UNCHANGED gate
       \/ (over[u] \/ (joined[u].done /\ joined[u].session = None)) /\ Return(u)
    /\ joined' = [joined EXCEPT ![u] = Waits]
    /\ UNCHANGED <<session, subscribed, pool, thread, held, over, scans>>

\* connection.Connect: a session that passed the handshake and the
\* compatibility gate, or an error after the client was closed again.  A
\* session of another endpoint is returned together with an error.
OpenEndpoint(u) ==
    /\ At(u, "open")
    /\ \/ \E s \in Fresh :
             /\ session' = [session EXCEPT ![s] = "open"]
             /\ Take(u, s)
             /\ Goto(u, "opened") \/ Goto(u, "wrong")
       \/ /\ Goto(u, "failed")
          /\ UNCHANGED <<session, hand>>
    /\ UNCHANGED <<subscribed, pool, gate, users, scans>>

\* The opening is removed, its session pooled unless the pool was closed
\* meanwhile, and everyone who joined it gets the same answer.
Publish_IgnoresClose(u) ==
    LET ok == At(u, "opened")
        s  == IF ok THEN hand[u] ELSE None
    IN /\ stage[u] \in {"opened", "wrong", "failed"}
       /\ opening' = None
       /\ pooled' = IF ok THEN s ELSE pooled
       /\ joined' = [v \in User |-> IF At(v, "join") THEN [done |-> TRUE, session |-> s] ELSE joined[v]]
       /\ IF ok THEN Goto(u, "have") /\ UNCHANGED <<gate, hand>>
          ELSE IF hand[u] # None THEN Goto(u, "discard") /\ UNCHANGED <<gate, hand>>
          ELSE Return(u)
       /\ UNCHANGED <<session, subscribed, canceled, leases, closed, closing, thread, held, over, scans>>
Publish(u) ==
    LET ok == At(u, "opened") /\ ~closed
        s  == IF ok THEN hand[u] ELSE None
    IN /\ stage[u] \in {"opened", "wrong", "failed"}
       /\ opening' = None
       /\ pooled' = IF ok THEN s ELSE pooled
       /\ joined' = [v \in User |-> IF At(v, "join") THEN [done |-> TRUE, session |-> s] ELSE joined[v]]
       /\ IF ok THEN Goto(u, "have") /\ UNCHANGED <<gate, hand>>
          ELSE IF hand[u] # None THEN Goto(u, "discard") /\ UNCHANGED <<gate, hand>>
          ELSE Return(u)
       /\ UNCHANGED <<session, subscribed, canceled, leases, closed, closing, thread, held, over, scans>>

\* The bounded Detach of a session that is not handed out.
Discard(u) ==
    /\ At(u, "discard")
    /\ session' = Detached({hand[u]})
    /\ subscribed' = Dropped({hand[u]})
    /\ Return(u)
    /\ UNCHANGED <<pool, users, scans>>

\* Send and ProbeThreadState make their call on the session and return.
Call(u) ==
    /\ At(u, "have") /\ ~InGate(u)
    /\ Return(u)
    /\ UNCHANGED <<session, subscribed, pool, users, scans>>

\* subscribe with the session in hand: a closed or replaced session is
\* refused, a subscribed thread gets one more lease, another is resumed.
Subscribe(u) ==
    LET t == thread[u]
    IN /\ At(u, "have") /\ InGate(u)
       /\ \/ /\ closed \/ pooled # hand[u]
             /\ Return(u)
             /\ UNCHANGED <<leases, held>>
          \/ /\ ~closed /\ pooled = hand[u] /\ leases[t] > 0
             /\ leases' = [leases EXCEPT ![t] = @ + 1]
             /\ held' = [held EXCEPT ![u] = TRUE]
             /\ Goto(u, "leased") /\ LeaveGate(u)
             /\ UNCHANGED hand
          \/ /\ ~closed /\ pooled = hand[u] /\ leases[t] = 0
             /\ Goto(u, "resume")
             /\ UNCHANGED <<leases, held, gate, hand>>
       /\ UNCHANGED <<session, subscribed, pooled, opening, canceled, closed, closing, thread,
                      joined, over, scans>>

\* thread/resume; an error leaves open whether the server resumed it.
ResumeThread(u) ==
    LET pair == <<hand[u], thread[u]>>
    IN /\ At(u, "resume")
       /\ \/ /\ session[hand[u]] = "open"
             /\ subscribed' = subscribed \cup {pair}
             /\ Goto(u, "resumed")
             /\ UNCHANGED <<gate, hand>>
          \/ /\ IF session[hand[u]] = "open" THEN subscribed' \in {subscribed, subscribed \cup {pair}}
                                  ELSE UNCHANGED subscribed
             /\ Return(u)
       /\ UNCHANGED <<session, pool, users, scans>>

RecordLease(u) ==
    /\ At(u, "resumed")
    /\ \/ /\ closed \/ pooled # hand[u]
          /\ Return(u)
          /\ UNCHANGED <<leases, held>>
       \/ /\ ~closed /\ pooled = hand[u]
          /\ leases' = [leases EXCEPT ![thread[u]] = 1]
          /\ held' = [held EXCEPT ![u] = TRUE]
          /\ Goto(u, "leased") /\ LeaveGate(u)
          /\ UNCHANGED hand
    /\ UNCHANGED <<session, subscribed, pooled, opening, canceled, closed, closing, thread, joined,
                   over, scans>>

-----------------------------------------------------------------------------
(* DeliveryAdapter.Detach: unsubscribe.  A caller whose context is done may  *)
(* give up at the gate and leave its lease behind.                           *)

Release(u) ==
    /\ At(u, "leased")
    /\ \/ /\ gate[thread[u]] = None
          /\ gate' = [gate EXCEPT ![thread[u]] = u]
          /\ Goto(u, "release")
          /\ UNCHANGED hand
       \/ /\ over[u]
          /\ Goto(u, "done") /\ Take(u, None)
          /\ UNCHANGED gate
    /\ held' = [held EXCEPT ![u] = FALSE]
    /\ UNCHANGED <<session, subscribed, pool, thread, joined, over, scans>>

Unsubscribe(u) ==
    LET t == thread[u]
    IN /\ At(u, "release")
       /\ \/ /\ leases[t] = 0 \/ pooled = None
             /\ Return(u)
             /\ UNCHANGED leases
          \/ /\ leases[t] > 1 /\ pooled # None
             /\ leases' = [leases EXCEPT ![t] = @ - 1]
             /\ Return(u)
          \/ /\ leases[t] = 1 /\ pooled # None
             /\ leases' = [leases EXCEPT ![t] = 0]
             /\ Take(u, pooled) /\ Goto(u, "unsubscribe")
             /\ UNCHANGED gate
       /\ UNCHANGED <<session, subscribed, pooled, opening, canceled, closed, closing, users, scans>>

ThreadUnsubscribe(u) ==
    /\ At(u, "unsubscribe")
    /\ subscribed' \in {subscribed, subscribed \ {<<hand[u], thread[u]>>}}
    /\ Return(u)
    /\ UNCHANGED <<session, pool, users, scans>>

-----------------------------------------------------------------------------
(* ConnectionPool.Close. *)

Close ==
    /\ ~closed
    /\ closed' = TRUE
    /\ canceled' = (opening # None)
    /\ closing' = IF pooled = None THEN {} ELSE {pooled}
    /\ pooled' = None
    /\ leases' = [t \in Thread |-> 0]
    /\ UNCHANGED <<session, subscribed, opening, gate, stage, hand, users, scans>>

CloseDetaches ==
    /\ closing # {}
    /\ session' = Detached(closing)
    /\ subscribed' = Dropped(closing)
    /\ closing' = {}
    /\ UNCHANGED <<pooled, opening, canceled, leases, closed, gate, stage, hand, users, scans>>

-----------------------------------------------------------------------------
(* FullHistory: readHistory of turn pages and, if that failed, of item pages. *)

\* openIsolated reads p.closed, opens, and reads p.closed again.
OpenIsolated(r) ==
    /\ At(r, "idle")
    /\ \/ closed /\ Goto(r, "failed") /\ UNCHANGED own
       \/ /\ ~closed
          /\ \/ own' = [own EXCEPT ![r] = "open"] /\ (Goto(r, "isolated") \/ Goto(r, "wrong"))
             \/ Goto(r, "failed") /\ UNCHANGED own
    /\ UNCHANGED <<session, subscribed, pool, gate, hand, users, fits, limit, pass>>

CheckClosed(r) ==
    /\ stage[r] \in {"isolated", "wrong"}
    /\ \/ At(r, "isolated") /\ ~closed /\ Goto(r, IF pass[r] = "events" THEN "attach" ELSE "read")
       \/ (At(r, "wrong") \/ closed) /\ Goto(r, "detach_error")
    /\ UNCHANGED <<session, subscribed, pool, gate, hand, users, scans>>

\* ObservationAdapter.Subscribe resumes the thread on its own session; the
\* stream lives until its owner closes it.
AttachStream(r) ==
    /\ At(r, "attach")
    /\ Goto(r, "streaming") \/ Goto(r, "detach_error")
    /\ UNCHANGED <<session, subscribed, pool, gate, hand, users, scans>>
CloseStream(r) ==
    /\ At(r, "streaming")
    /\ Goto(r, "detach_ok")
    /\ UNCHANGED <<session, subscribed, pool, gate, hand, users, scans>>

\* One attempt: an answer that does not fit kills the connection.
ReadPages(r) ==
    /\ At(r, "read")
    /\ \/ /\ limit[r] <= fits /\ own[r] = "open"
          /\ Goto(r, "detach_ok")
          /\ UNCHANGED own
       \/ /\ limit[r] > fits /\ own[r] = "open"
          /\ own' = [own EXCEPT ![r] = "dead"]
          /\ Goto(r, "detach_oversized")
       \/ /\ Goto(r, "detach_error")
          /\ UNCHANGED own
    /\ UNCHANGED <<session, subscribed, pool, gate, hand, users, fits, limit, pass>>

\* The attempt's connection is always detached; an oversized answer is tried
\* again with half the page on a fresh connection, down to one entry.
DetachReader(r) ==
    /\ \/ At(r, "detach_ok") /\ Goto(r, "done") /\ UNCHANGED limit
       \/ At(r, "detach_error") /\ Goto(r, "failed") /\ UNCHANGED limit
       \/ At(r, "detach_oversized") /\ limit[r] = 1 /\ Goto(r, "too_large") /\ UNCHANGED limit
       \/ /\ At(r, "detach_oversized") /\ limit[r] > 1
          /\ Goto(r, "idle")
          /\ limit' = [limit EXCEPT ![r] = @ \div 2]
    /\ own' = [own EXCEPT ![r] = "none"]
    /\ UNCHANGED <<session, subscribed, pool, gate, hand, users, fits, pass>>

\* FullHistory tries the items once when the turns could not be read.
FallBack(r) ==
    /\ stage[r] \in {"failed", "too_large"}
    /\ IF pass[r] = "turns"
       THEN /\ pass' = [pass EXCEPT ![r] = "items"]
            /\ limit' = [limit EXCEPT ![r] = Page]
            /\ Goto(r, "idle")
       ELSE /\ Goto(r, IF At(r, "failed") THEN "done_error" ELSE "done_too_large")
            /\ UNCHANGED <<pass, limit>>
    /\ UNCHANGED <<session, subscribed, pool, gate, hand, own, users, fits>>

UserStep(u) ==
    \/ Begin(u) \/ EnterGate(u) \/ GetSession(u) \/ Join(u) \/ OpenEndpoint(u) \/ Publish(u)
    \/ Discard(u) \/ Call(u) \/ Subscribe(u) \/ ResumeThread(u) \/ RecordLease(u) \/ Release(u)
    \/ Unsubscribe(u) \/ ThreadUnsubscribe(u)
ReaderStep(r) ==
    \/ OpenIsolated(r) \/ CheckClosed(r) \/ AttachStream(r) \/ CloseStream(r)
    \/ ReadPages(r) \/ DetachReader(r) \/ FallBack(r)

PoolNext ==
    \/ \E u \in User : UserStep(u) \/ ContextEnds(u)
    \/ \E r \in Reader : ReaderStep(r)
    \/ Close \/ CloseDetaches

PoolSpec == PoolInit /\ [][PoolNext]_poolVars

\* Goroutines are scheduled and every call of theirs is bounded by a timeout.
FairPoolSpec ==
    /\ PoolSpec
    /\ \A u \in User : WF_poolVars(UserStep(u))
    /\ \A r \in Reader : WF_poolVars(ReaderStep(r))
    /\ WF_poolVars(CloseDetaches)
-----------------------------------------------------------------------------
(* Properties. *)

UserLabel == {"idle", "gate", "session", "join", "open", "opened", "wrong", "failed", "discard", "have",
              "resume", "resumed", "leased", "release", "unsubscribe", "done"}
ReaderLabel == {"idle", "isolated", "wrong", "attach", "streaming", "read", "detach_ok",
                "detach_error", "detach_oversized", "failed", "too_large", "done", "done_error",
                "done_too_large"}

\* Every variable has values of its type.
PoolTypeOK ==
    /\ session \in [Session -> {"unused", "open", "detached"}]
    /\ subscribed \subseteq Session \X Thread
    /\ pooled \in Session \cup {None} /\ opening \in User \cup {None}
    /\ gate \in [Thread -> User \cup {None}]
    /\ leases \in [Thread -> 0..Cardinality(User)]
    /\ closing \subseteq Session
    /\ \A u \in User : stage[u] \in UserLabel
    /\ \A r \in Reader : stage[r] \in ReaderLabel /\ limit[r] \in 1..Page
    /\ hand \in [User -> Session \cup {None}]
    /\ own \in [Reader -> {"none", "open", "dead"}]

\* An open session always has an owner that will detach it: the pool until it
\* is closed, Close itself, the goroutine still opening it, or its reader.
\* Closing the pool while a goroutine is opening one leaks no connection.
SessionsHaveOwners ==
    /\ \A s \in Session : session[s] = "open" =>
          \/ s = pooled /\ ~closed
          \/ s \in closing
          \/ \E u \in User : stage[u] \in {"opened", "wrong", "discard"} /\ hand[u] = s
    /\ \A r \in Reader : own[r] # "none" =>
          stage[r] \notin {"idle", "failed", "too_large", "done", "done_error", "done_too_large"}

\* Concurrent deliveries to one endpoint share one connection: nobody opens a
\* second one while the first is being opened or is pooled.
OneConnection ==
    Cardinality({ u \in User : stage[u] \in {"open", "opened"} } \cup ({pooled} \ {None})) <= 1

\* While a goroutine holds a lease, its thread is resumed on the pooled
\* session: another one's release never takes the subscription away.
LeaseKeepsSubscription ==
    \A u \in User : held[u] /\ At(u, "leased") /\ ~closed =>
        /\ leases[thread[u]] > 0
        /\ <<pooled, thread[u]>> \in subscribed

\* An isolated read never starts on a connection an oversized answer ended,
\* and "too large" is only said of a single entry.
ReadsAreSound ==
    \A r \in Reader :
        /\ At(r, "read") => own[r] = "open"
        /\ At(r, "done_too_large") => fits = 0

\* Every goroutine returns: nobody stays at a gate whose holder has gone, or
\* joined to an opening that was abandoned.
UsersReturn == \A u \in User : (stage[u] # "idle") ~> At(u, "done")

\* After Close every connection is detached in the end.
CloseDetachesAll == closed ~> \A s \in Session : session[s] \in {"unused", "detached"}

\* One owned connection per endpoint, under every lease, and sound reads.
PoolIsSound == SessionsHaveOwners /\ OneConnection /\ LeaseKeepsSubscription /\ ReadsAreSound
=============================================================================
