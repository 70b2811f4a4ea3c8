---------------------------- MODULE ReplyDelivery ----------------------------
(***************************************************************************)
(* `mektup reply`: Service.reply of go/internal/service/reply.go running   *)
(* against the operation journal of its own machine (OperationJournal) and *)
(* the journal with custody of the original (ReplyCustody, reached directly*)
(* or through the control receiver), next to a waiter and a clock.         *)
(*                                                                         *)
(* Invocations may be given the same operation and reply IDs, on one       *)
(* machine (same operation row) or on several (a row in each machine's     *)
(* journal, one claim).  Every journal call is one step with three         *)
(* outcomes: it commits and answers; it commits and the answer is lost (a  *)
(* busy COMMIT, a broken control stream, an expired context); it fails     *)
(* without effect.  A process may crash between any two calls.             *)
(***************************************************************************)
EXTENDS Integers, FiniteSets

CONSTANTS
    Invocation,  \* runs of the command; each is the owner of its attempt
    Op,          \* operation rows: an operation ID in one machine's journal
    Reply,       \* reply message IDs
    Original,    \* original message IDs
    uses,        \* uses[i]: the operation row invocation i prepares
    delivers,    \* delivers[i]: the reply message it delivers
    answers,     \* answers[r]: the original the reply answers
    Same,        \* the compared columns every invocation agrees on
    None,
    Lease, MaxStale,
    MaxTries     \* bound: body submissions of one invocation

ASSUME InvocationAssumption ==
    /\ uses \in [Invocation -> Op]
    /\ delivers \in [Invocation -> Reply]
    /\ answers \in [Reply -> Original]
    /\ \A i, j \in Invocation : uses[i] = uses[j] => delivers[i] = delivers[j]
ASSUME TriesAssumption == MaxTries \in Nat \ {0}
ASSUME JournalAssumption ==
    /\ Lease \in Nat \ {0} /\ MaxStale \in Nat
    /\ IsFiniteSet(Reply)
    /\ None \notin Op \cup Invocation \cup Reply \cup Original \cup {Same}

VARIABLES
    opState, message, meta, fenced, attemptOwner, attemptState, attemptLeft,
    attemptToken, opEvents, acceptance, resolution, opReceipt, told,
    known, claimState, original, body, claimOwner, claimLeft, seq, winner,
    winnerSeq, item, acceptances, receipt, claimToken, unknownAt, lastUnknown,
    pc,        \* pc[i]: the next call of invocation i
    heartbeat, \* heartbeat[i]: "off", "on" or "failed"
    verdict,   \* verdict[i]: the evidence the invocation is about to record
    tries,     \* tries[i]: body submissions so far
    copies,    \* copies[i]: times the destination admitted the body of i
    result     \* result[i]: the evidence in the receipt the caller got

local == <<opState, message, meta, fenced, attemptOwner, attemptState, attemptLeft,
           attemptToken, opEvents, acceptance, resolution, opReceipt, told>>
custody == <<known, claimState, original, body, claimOwner, claimLeft, seq, winner,
             winnerSeq, item, acceptances, receipt, claimToken, unknownAt, lastUnknown>>
vars == <<local, custody, pc, heartbeat, verdict, tries, copies, result>>

Local == INSTANCE OperationJournal WITH
    Message <- Op, Meta <- {Same},
    owner <- attemptOwner, left <- attemptLeft, granted <- attemptToken,
    events <- opEvents, receipt <- opReceipt
Custody == INSTANCE ReplyCustody WITH
    Holder <- Invocation, Body <- {Same}, Item <- {},
    state <- claimState, owner <- claimOwner, left <- claimLeft, granted <- claimToken

Init ==
    /\ Local!Init /\ Custody!Init
    /\ pc = [i \in Invocation |-> "prepare"]
    /\ heartbeat = [i \in Invocation |-> "off"]
    /\ verdict = [i \in Invocation |-> "prepared"]
    /\ tries = [i \in Invocation |-> 0]
    /\ copies = [i \in Invocation |-> 0]
    /\ result = [i \in Invocation |-> "none"]

-----------------------------------------------------------------------------
(* Control flow of one invocation. *)

At(i, label) == pc[i] = label
Goto(i, label) == pc' = [pc EXCEPT ![i] = label] /\ UNCHANGED result

\* The command returns, with evidence e in its receipt.
Return(i, e) ==
    /\ pc' = [pc EXCEPT ![i] = "done"]
    /\ result' = [result EXCEPT ![i] = e]

Running(i) == pc[i] \notin {"done", "crashed"}
flow == <<heartbeat, verdict, tries, copies>>

-----------------------------------------------------------------------------
(* The calls, in the order reply makes them. *)

\* Prepare.  Only the creator of the row gets a token; anyone else joins
\* read-only and is told the state of the row (joinPreparedReply).
JoinPrepared(i) ==
    /\ opState[uses[i]] # "absent"
    /\ Return(i, opState[uses[i]])
    /\ UNCHANGED local
Prepare(i) ==
    /\ At(i, "prepare")
    /\ answers[delivers[i]] \in known
    /\ LET o == uses[i]
       IN \/ Local!PrepareNew(i, o, o, Same, TRUE) /\ Goto(i, "claim")
          \/ Local!PrepareNew(i, o, o, Same, FALSE) /\ Return(i, "none")
          \/ JoinPrepared(i)
          \/ UNCHANGED local /\ Return(i, "none")
    /\ UNCHANGED <<custody, flow>>

\* ClaimReply.  An existing claim never authorises dispatch.  One that is
\* closed or expires here is an error from a local journal and an `existing`
\* disposition from a control receiver.
JoinClaim_Dispatches(i) ==
    /\ claimState[delivers[i]] # "absent"
    /\ UNCHANGED custody
    /\ Goto(i, "resume")
JoinClaim(i) ==
    LET r == delivers[i]
    IN \/ /\ Custody!ClaimExisting(i, r, answers[r], Same)
          /\ \/ claimState'[r] # "reply_outcome_unknown" /\ Return(i, claimState'[r])
             \/ claimState'[r] = "reply_outcome_unknown" /\
                   (Goto(i, "claimFailed") \/ Return(i, "reply_outcome_unknown"))
       \/ /\ claimState[r] = "reply_outcome_unknown"
          /\ UNCHANGED custody
          /\ Goto(i, "claimFailed") \/ Return(i, "reply_outcome_unknown")
ClaimReply(i) ==
    /\ At(i, "claim")
    /\ LET r == delivers[i]
       IN \/ Custody!ClaimNew(i, r, answers[r], Same, TRUE) /\ Goto(i, "resume")
          \/ Custody!ClaimNew(i, r, answers[r], Same, FALSE) /\ Goto(i, "claimFailed")
          \/ JoinClaim(i)
          \/ UNCHANGED custody /\ Goto(i, "claimFailed")
    /\ UNCHANGED <<local, flow>>

\* failedReplyClaim: no body was dispatched, whatever became of the claim.
FailedReplyClaim(i) ==
    /\ At(i, "claimFailed")
    /\ Local!RecordResult(uses[i], "not_sent") \/ UNCHANGED local
    /\ Return(i, "not_sent")
    /\ UNCHANGED <<custody, flow>>

\* Resume of an unloaded persistent target; then the heartbeat starts.
Resume(i) ==
    /\ At(i, "resume")
    /\ \/ Goto(i, "fence") /\ heartbeat' = [heartbeat EXCEPT ![i] = "on"]
       \/ Goto(i, "resumeFailed") /\ UNCHANGED heartbeat
    /\ UNCHANGED <<local, custody, verdict, tries, copies>>

\* The claim is abandoned only after the local evidence is committed.
ResumeFailed(i) ==
    /\ At(i, "resumeFailed")
    /\ \/ Local!RecordResult(uses[i], "not_sent") /\ (Goto(i, "release") \/ Return(i, "not_sent"))
       \/ UNCHANGED local /\ Return(i, "not_sent")
    /\ UNCHANGED <<custody, flow>>

AbandonOrFail(i) == Custody!AbandonReply(i, delivers[i]) \/ UNCHANGED custody

Release(i) ==
    /\ At(i, "release")
    /\ AbandonOrFail(i)
    /\ Return(i, "not_sent")
    /\ UNCHANGED <<local, flow>>

\* MarkDispatchStarted, the local fence before any byte may leave.
Fence(i) ==
    /\ At(i, "fence")
    /\ \/ /\ Local!MarkDispatchStartedOwned(i, uses[i])
          /\ Goto(i, "dispatch") \/ Goto(i, "fenceFailed")
       \/ UNCHANGED local /\ Goto(i, "fenceFailed")
    /\ UNCHANGED <<custody, flow>>

\* The claim is given up; the operation row is left as it is.
FenceFailed(i) ==
    /\ At(i, "fenceFailed")
    /\ AbandonOrFail(i)
    /\ Return(i, "outcome_unknown")
    /\ UNCHANGED <<local, flow>>

\* What a submission of the body can come to, and whether the destination
\* admitted it.  A failure proven before the write is not told from an
\* unknown one once the fence is committed.
Outcome == {[answer |-> "accepted", copies |-> 1], [answer |-> "outcome_unknown", copies |-> 1],
            [answer |-> "outcome_unknown", copies |-> 0], [answer |-> "rejected", copies |-> 0],
            [answer |-> "not_submitted", copies |-> 0]}

\* classifyDelivery: NotSubmitted proves non-admission and may be retried; if
\* the deadline comes first it is a rejection.
MayRetry(answer) == answer = "not_submitted"
Evidence_UnknownIsRejected(answer) == IF answer = "accepted" THEN answer ELSE "rejected"
Evidence(answer) == IF answer = "not_submitted" THEN "rejected" ELSE answer

\* dispatch, and the rounds of retryNotSubmitted: the heartbeat is checked
\* after every submission.
Dispatch(i) ==
    /\ At(i, "dispatch")
    /\ tries' = [tries EXCEPT ![i] = @ + 1]
    /\ \E x \in Outcome :
          /\ copies' = [copies EXCEPT ![i] = @ + x.copies]
          /\ verdict' = [verdict EXCEPT ![i] = Evidence(x.answer)]
          /\ \/ Goto(i, "check")
             \/ MayRetry(x.answer) /\ tries[i] + 1 < MaxTries /\ heartbeat[i] = "on"
                   /\ Goto(i, "dispatch")
    /\ UNCHANGED <<local, custody, heartbeat>>

\* waitForHeartbeat and readHeartbeatError.  A heartbeat call still in flight
\* when the wait's own deadline passes counts as failed.
Check(i) ==
    /\ At(i, "check")
    /\ \/ heartbeat[i] = "on" /\ Goto(i, IF verdict[i] = "accepted" THEN "commit" ELSE "abandon")
       \/ Goto(i, "abort")
    /\ UNCHANGED <<local, custody, flow>>

\* abortReplyHeartbeat: both calls are made whatever the first one says.
Abort(i) ==
    /\ At(i, "abort")
    /\ AbandonOrFail(i)
    /\ Goto(i, "record")
    /\ verdict' = [verdict EXCEPT ![i] = "outcome_unknown"]
    /\ UNCHANGED <<local, heartbeat, tries, copies>>

\* A failed delivery abandons the claim first; if that fails the operation
\* row keeps dispatch_started.
Abandon(i) ==
    /\ At(i, "abandon")
    /\ \/ Custody!AbandonReply(i, delivers[i]) /\ (Goto(i, "record") \/ Return(i, verdict[i]))
       \/ UNCHANGED custody /\ Return(i, verdict[i])
    /\ UNCHANGED <<local, flow>>

\* CommitReply.  Without its answer the acceptance is recorded as unknown.
Commit_IgnoresAnswer(i) ==
    /\ At(i, "commit")
    /\ Custody!CommitReply(i, delivers[i]) \/ UNCHANGED custody
    /\ UNCHANGED verdict
    /\ Goto(i, "record")
    /\ UNCHANGED <<local, heartbeat, tries, copies>>
Commit(i) ==
    /\ At(i, "commit")
    /\ \/ /\ Custody!CommitReply(i, delivers[i])
          /\ claimState'[delivers[i]] = "reply_accepted"
          /\ UNCHANGED verdict
       \/ /\ Custody!CommitReply(i, delivers[i]) \/ UNCHANGED custody
          /\ verdict' = [verdict EXCEPT ![i] = "outcome_unknown"]
    /\ Goto(i, "record")
    /\ UNCHANGED <<local, heartbeat, tries, copies>>

\* RecordResult, the last journal call; its failure does not change what the
\* caller is told of the body.
Record(i) ==
    /\ At(i, "record")
    /\ Local!RecordResult(uses[i], verdict[i]) \/ UNCHANGED local
    /\ Return(i, verdict[i])
    /\ UNCHANGED <<custody, flow>>

Step(i) ==
    \/ Prepare(i) \/ ClaimReply(i) \/ FailedReplyClaim(i) \/ Resume(i) \/ ResumeFailed(i)
    \/ Release(i) \/ Fence(i) \/ FenceFailed(i) \/ Dispatch(i) \/ Check(i) \/ Abort(i)
    \/ Abandon(i) \/ Commit(i) \/ Record(i)

-----------------------------------------------------------------------------
(* What runs beside the invocations. *)

\* The heartbeat goroutine of an invocation; the first failure ends it.
Heartbeat_OutlivesReply(i) ==
    /\ pc[i] # "crashed" /\ heartbeat[i] = "on"
    /\ Custody!Heartbeat(i, delivers[i])
    /\ UNCHANGED <<heartbeat, local, pc, verdict, tries, copies, result>>
Heartbeat(i) ==
    /\ Running(i) /\ heartbeat[i] = "on"
    /\ \/ Custody!Heartbeat(i, delivers[i]) /\ UNCHANGED heartbeat
       \/ /\ Custody!Heartbeat(i, delivers[i]) \/ UNCHANGED custody
          /\ heartbeat' = [heartbeat EXCEPT ![i] = "failed"]
    /\ UNCHANGED <<local, pc, verdict, tries, copies, result>>

Crash(i) ==
    /\ Running(i)
    /\ pc' = [pc EXCEPT ![i] = "crashed"]
    /\ UNCHANGED <<local, custody, flow, result>>

\* The waiter's side: the original is prepared before the request leaves, and
\* WaitReply and the status calls expire claims as they poll.
Request ==
    /\ \E o \in Original : Custody!PrepareOriginal(o)
    /\ UNCHANGED <<local, pc, flow, result>>
Poll ==
    /\ \/ \E stale \in 0..MaxStale : Custody!ExpireClaims(stale)
       \/ \E o \in Original : Custody!OriginalStatus(o)
    /\ UNCHANGED <<local, pc, flow, result>>

\* One clock for both leases: they are durations of the same length.
AttemptRuns == \E o \in Op : opState[o] \in Local!Open /\ attemptLeft[o] > -MaxStale
ClaimRuns   == \E r \in Reply : claimState[r] = "reply_claimed" /\ claimLeft[r] > -MaxStale
Tick ==
    /\ AttemptRuns \/ ClaimRuns
    /\ IF AttemptRuns THEN Local!Tick ELSE UNCHANGED local
    /\ IF ClaimRuns THEN Custody!Tick ELSE UNCHANGED custody
    /\ UNCHANGED <<pc, flow, result>>

Next ==
    \/ \E i \in Invocation : Step(i) \/ Heartbeat(i) \/ Crash(i)
    \/ Request \/ Poll \/ Tick

Spec == Init /\ [][Next]_vars

\* Every call of reply runs under a deadline, so an invocation that does not
\* crash takes its next step; the waiter polls on a ticker and time passes.
\* Nothing obliges a process to crash or a heartbeat to be on time.
Fairness ==
    /\ \A i \in Invocation : WF_vars(Step(i))
    /\ WF_vars(Poll) /\ WF_vars(Tick)

FairSpec == Spec /\ Fairness

-----------------------------------------------------------------------------
(* Properties. *)

Label == {"prepare", "claim", "claimFailed", "resume", "resumeFailed", "release", "fence",
          "fenceFailed", "dispatch", "check", "abort", "abandon", "commit", "record",
          "done", "crashed"}

\* The control state has the labels of reply and the journals their types.
TypeOK ==
    /\ Local!TypeOK /\ Custody!TypeOK
    /\ pc \in [Invocation -> Label]
    /\ heartbeat \in [Invocation -> {"off", "on", "failed"}]
    /\ verdict \in [Invocation -> {"prepared", "accepted", "rejected", "outcome_unknown"}]
    /\ tries \in [Invocation -> 0..MaxTries]
    /\ copies \in [Invocation -> 0..MaxTries]
    /\ result \in [Invocation -> Local!State \cup Custody!State \cup {"none"}]

\* The destination admits the body of a reply ID at most once, however many
\* invocations are given the ID, on however many machines, and wherever they
\* crash or lose an answer.
AtMostOnceBody ==
    \A i, j \in Invocation :
        /\ copies[i] <= 1
        /\ delivers[i] = delivers[j] /\ copies[i] > 0 /\ copies[j] > 0 => i = j

Copies(o) == { i \in Invocation : uses[i] = o /\ copies[i] > 0 }

\* The durable evidence of an operation is true of the destination: not_sent
\* and rejected bodies were not admitted, accepted ones were and their claim
\* is committed, and no body is admitted outside a committed fence.  Custody
\* is as true: a waiter that reads reply_accepted there reads of a body that
\* the destination holds.
EvidenceIsTrue ==
    /\ \A o \in Op :
        /\ opState[o] \in {"absent", "prepared", "not_sent", "rejected"} => Copies(o) = {}
        /\ opState[o] = "accepted" =>
              \E i \in Copies(o) : claimState[delivers[i]] = "reply_accepted"
    /\ \A r \in Reply : claimState[r] = "reply_accepted" =>
            \E i \in Invocation : delivers[i] = r /\ copies[i] = 1

\* What a returning invocation tells its caller: "rejected" and, for the
\* owner, "not_sent" mean that this call put no body in front of the
\* destination; "accepted" means that the body is there.
ReceiptIsTrue ==
    \A i \in Invocation :
        /\ result[i] \in {"not_sent", "rejected"} => Copies(uses[i]) = {}
        /\ result[i] \in {"accepted", "reply_accepted"} =>
              \E j \in Invocation : delivers[j] = delivers[i] /\ copies[j] = 1

\* A dispatch fence commits only while the reply's claim is still open and in
\* its lease: the attempt's lease starts before the claim's, so an invocation
\* too slow for its claim is too slow for its fence.
FenceUnderLiveClaim ==
    [][\A i \in Invocation :
          uses[i] \in fenced' \ fenced /\ attemptOwner[uses[i]] = i =>
              claimState[delivers[i]] = "reply_claimed" /\ claimLeft[delivers[i]] > 0]_vars

\* Expiry "wakes the waiter": no claim stays open for ever, also when its
\* owner crashed, failed to abandon it or never learnt that it has it.
ClaimIsClosed ==
    \A r \in Reply : claimState[r] = "reply_claimed" ~> claimState[r] # "reply_claimed"

\* docs/architecture.md says that an orphaned attempt is recovered: when the
\* owner of an open operation is gone, its row leaves prepared and
\* dispatch_started.
OrphanIsRecovered ==
    \A i \in Invocation :
        pc[i] = "crashed" /\ attemptOwner[uses[i]] = i /\ opState[uses[i]] \in Local!Open
            ~> opState[uses[i]] \notin Local!Open
=============================================================================
