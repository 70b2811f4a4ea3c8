---------------------------- MODULE SendDelivery ----------------------------
(***************************************************************************)
(* Service.Send as the command line runs it: a message is prepared in the  *)
(* operation journal, its target resumed when it is not loaded, the        *)
(* dispatch fence committed, turn/start called (again, after a backoff,    *)
(* when the server proves that nothing was submitted), the outcome         *)
(* recorded, the target detached, the receipt stored and only then shown.  *)
(* Journal writes can fail, the answer can be lost, the process can die at *)
(* any point and journal.RecoverOrphans can close an operation whose       *)
(* lease has run out under a sender that is still at work.                 *)
(***************************************************************************)
EXTENDS Naturals, FiniteSets

CONSTANTS
    Sender,         \* one Send each, of one message to one thread
    Persistent,     \* senders whose target is persistent and not loaded
    Bounded,        \* senders with a delivery timeout
    Waiters,        \* senders that run with --wait
    MaxTries        \* bound: turn/start calls of one Send

ASSUME MaxTriesAssumption == MaxTries \in Nat

VARIABLES
    op,         \* operations.state of the sender's message, "none" before Prepare
    lease,      \* the attempt's lease_until is in the future
    pc,         \* where the Send is
    expired,    \* deliveryCtx is done
    tries,      \* turn/start calls made
    wire,       \* a turn/start request of this Send is on its way to the server
    answer,     \* what the server answered and the client has not taken
    turns,      \* times the server submitted the body to the thread
    attached,   \* the subscription Resume took is still held
    verdict,    \* receiptState: what the Send knows of its message
    fault,      \* an error other than the delivery's own
    stored,     \* state of the receipt in the store, "none" without one
    shown       \* state the command line has printed, "none" before
vars == <<op, lease, pc, expired, tries, wire, answer, turns, attached, verdict, fault, stored, shown>>

Ended == {"accepted", "rejected", "outcome_unknown", "not_sent"}
Steps == {"start", "resume", "resumeFailed", "fence", "dispatch", "call", "backoff", "record",
          "detach", "accepted", "wait", "persist", "emit", "returned", "crashed"}
Answers == {"turn", "noTurnId", "notSteerable", "internal", "refused"}

TypeOK ==
    /\ op \in [Sender -> Ended \cup {"none", "prepared", "dispatch_started"}]
    /\ lease \in [Sender -> BOOLEAN] /\ expired \in [Sender -> BOOLEAN]
    /\ pc \in [Sender -> Steps] /\ tries \in [Sender -> 0..MaxTries]
    /\ wire \in [Sender -> BOOLEAN] /\ answer \in [Sender -> Answers \cup {"none"}]
    /\ turns \in [Sender -> 0..MaxTries] /\ attached \in [Sender -> BOOLEAN]
    /\ verdict \in [Sender -> Ended \cup {"prepared"}]
    /\ fault \in [Sender -> {"none", "journal", "detach"}]
    /\ stored \in [Sender -> Ended \cup {"none", "prepared"}]
    /\ shown \in [Sender -> Ended \cup {"none", "prepared"}]

Init ==
    /\ op = [s \in Sender |-> "none"] /\ lease = [s \in Sender |-> FALSE]
    /\ pc = [s \in Sender |-> "start"] /\ expired = [s \in Sender |-> FALSE]
    /\ tries = [s \in Sender |-> 0] /\ wire = [s \in Sender |-> FALSE]
    /\ answer = [s \in Sender |-> "none"] /\ turns = [s \in Sender |-> 0]
    /\ attached = [s \in Sender |-> FALSE] /\ verdict = [s \in Sender |-> "prepared"]
    /\ fault = [s \in Sender |-> "none"] /\ stored = [s \in Sender |-> "none"]
    /\ shown = [s \in Sender |-> "none"]

To(s, next) == pc' = [pc EXCEPT ![s] = next]
Knows(s, state) == verdict' = [verdict EXCEPT ![s] = state]
-----------------------------------------------------------------------------
(* Journal.Prepare: the operation and its attempt, with a fresh lease. *)
PrepareOperation(s) ==
    /\ op' = [op EXCEPT ![s] = "prepared"]
    /\ lease' = [lease EXCEPT ![s] = TRUE]

(* The guard of MarkDispatchStartedOwned. *)
MayFence(s) == op[s] = "prepared" /\ lease[s]

(* The transitions RecordResult admits. *)
Admits(current, state) ==
    \/ current = "dispatch_started" /\ state \in {"accepted", "rejected", "outcome_unknown"}
    \/ current = "outcome_unknown" /\ state = "accepted"
    \/ current = "prepared" /\ state = "not_sent"

(* RecordResult: the state is stored, or the call fails: its transition is not admitted, the   *)
(* store refuses, or the COMMIT went through and its answer did not come back.                 *)
RecordResult(s, state) ==
    \/ Admits(op[s], state) /\ op' = [op EXCEPT ![s] = state] /\ UNCHANGED fault
    \/ /\ fault' = [fault EXCEPT ![s] = "journal"]
       /\ \/ UNCHANGED op
          \/ Admits(op[s], state) /\ op' = [op EXCEPT ![s] = state]

RecoverOrphan_AllUnsent(s) ==
    /\ ~lease[s] /\ op[s] \in {"prepared", "dispatch_started"}
    /\ op' = [op EXCEPT ![s] = "not_sent"]
    /\ UNCHANGED <<lease, pc, expired, tries, wire, answer, turns, attached, verdict, fault, stored, shown>>

(* An attempt whose lease ran out is closed by what its state proves. *)
RecoverOrphan(s) ==
    /\ ~lease[s] /\ op[s] \in {"prepared", "dispatch_started"}
    /\ op' = [op EXCEPT ![s] = IF @ = "prepared" THEN "not_sent" ELSE "outcome_unknown"]
    /\ UNCHANGED <<lease, pc, expired, tries, wire, answer, turns, attached, verdict, fault, stored, shown>>

LeaseExpires(s) ==
    /\ lease[s] /\ lease' = [lease EXCEPT ![s] = FALSE]
    /\ UNCHANGED <<op, pc, expired, tries, wire, answer, turns, attached, verdict, fault, stored, shown>>
-----------------------------------------------------------------------------
(* Resolution, envelope and Prepare; an error here leaves no operation and no receipt. *)
Prepare(s) ==
    /\ pc[s] = "start"
    /\ \/ PrepareOperation(s) /\ To(s, IF s \in Persistent THEN "resume" ELSE "fence") /\ UNCHANGED fault
       \/ /\ To(s, "returned") /\ fault' = [fault EXCEPT ![s] = "journal"]
          /\ PrepareOperation(s) \/ UNCHANGED <<op, lease>>
    /\ UNCHANGED <<expired, tries, wire, answer, turns, attached, verdict, stored, shown>>

Resume(s) ==
    /\ pc[s] = "resume"
    /\ \/ To(s, "fence") /\ attached' = [attached EXCEPT ![s] = TRUE] /\ UNCHANGED verdict
       \/ To(s, "resumeFailed") /\ Knows(s, "not_sent") /\ UNCHANGED attached
    /\ UNCHANGED <<op, lease, expired, tries, wire, answer, turns, fault, stored, shown>>

ResumeFailed(s) ==
    /\ pc[s] = "resumeFailed"
    /\ RecordResult(s, "not_sent")
    /\ To(s, "persist")
    /\ UNCHANGED <<lease, expired, tries, wire, answer, turns, attached, verdict, stored, shown>>

(* The dispatch fence. From here on only outcome_unknown is safe to say without an answer. *)
Fence(s) ==
    /\ pc[s] = "fence" /\ Knows(s, "outcome_unknown")
    /\ \/ /\ MayFence(s) /\ op' = [op EXCEPT ![s] = "dispatch_started"]
          /\ To(s, "dispatch") /\ UNCHANGED fault
       \/ /\ To(s, "detach") /\ fault' = [fault EXCEPT ![s] = "journal"]
          /\ UNCHANGED op \/ (MayFence(s) /\ op' = [op EXCEPT ![s] = "dispatch_started"])
    /\ UNCHANGED <<lease, expired, tries, wire, answer, turns, attached, stored, shown>>

(* connection.CallDetailed of turn/start: a failure before the write, a write that broke off, *)
(* or a request under way.                                                                    *)
Dispatch(s) ==
    /\ pc[s] = "dispatch" /\ tries[s] < MaxTries
    /\ tries' = [tries EXCEPT ![s] = @ + 1]
    /\ \/ Knows(s, "not_sent") /\ To(s, "record") /\ UNCHANGED wire
       \/ /\ Knows(s, "outcome_unknown") /\ To(s, "record")
          /\ \E gone \in BOOLEAN : wire' = [wire EXCEPT ![s] = gone]
       \/ ~expired[s] /\ wire' = [wire EXCEPT ![s] = TRUE] /\ To(s, "call") /\ UNCHANGED verdict
    /\ UNCHANGED <<op, lease, expired, answer, turns, attached, fault, stored, shown>>

(* The server: it submits the body and answers with a turn, or in a form that names none, or  *)
(* with an internal error that leaves open whether it submitted; or it refuses: a review or   *)
(* compact turn cannot be steered, or another error.                                          *)
ServerTakes(s) ==
    /\ wire[s] /\ wire' = [wire EXCEPT ![s] = FALSE]
    /\ \E a \in Answers, submits \in BOOLEAN :
        /\ a \in {"turn", "noTurnId"} => submits
        /\ a \in {"notSteerable", "refused"} => ~submits
        /\ turns' = [turns EXCEPT ![s] = IF submits THEN @ + 1 ELSE @]
        /\ answer' = [answer EXCEPT ![s] = IF pc[s] = "call" THEN a ELSE @]
    /\ UNCHANGED <<op, lease, pc, expired, tries, attached, verdict, fault, stored, shown>>

(* classifyDelivery of a server's answer. *)
Classify(a) ==
    CASE a = "turn" -> "accepted"
      [] a \in {"notSteerable", "refused"} -> "rejected"
      [] OTHER -> "outcome_unknown"

(* Only the exact "not steerable" error proves that a second try cannot double the body. *)
Retries(a) == a = "notSteerable"

Answered(s) ==
    /\ pc[s] = "call" /\ answer[s] # "none"
    /\ Knows(s, Classify(answer[s]))
    /\ To(s, IF Retries(answer[s]) THEN "backoff" ELSE "record")
    /\ answer' = [answer EXCEPT ![s] = "none"]
    /\ UNCHANGED <<op, lease, expired, tries, wire, turns, attached, fault, stored, shown>>

(* The call ends without its answer: the deadline passed or the connection went away, and the *)
(* request may still reach the server.                                                        *)
CallCut(s) ==
    /\ pc[s] = "call" /\ Knows(s, "outcome_unknown") /\ To(s, "record")
    /\ answer' = [answer EXCEPT ![s] = "none"]
    /\ \E reaches \in BOOLEAN : wire' = [wire EXCEPT ![s] = @ /\ reaches]
    /\ UNCHANGED <<op, lease, expired, tries, turns, attached, fault, stored, shown>>

(* retryNotSubmitted between two tries: the deadline ends it with the last refusal. *)
Backoff(s) ==
    /\ pc[s] = "backoff"
    /\ \/ ~expired[s] /\ tries[s] < MaxTries /\ To(s, "dispatch")
       \/ expired[s] /\ To(s, "record")
    /\ UNCHANGED <<op, lease, expired, tries, wire, answer, turns, attached, verdict, fault, stored, shown>>

DeadlinePasses(s) ==
    /\ s \in Bounded /\ ~expired[s] /\ pc[s] \notin {"start", "returned", "crashed"}
    /\ expired' = [expired EXCEPT ![s] = TRUE]
    /\ UNCHANGED <<op, lease, pc, tries, wire, answer, turns, attached, verdict, fault, stored, shown>>

(* After the fence a message proven unsent is recorded as outcome_unknown all the same. *)
AfterFence(state) == IF state = "not_sent" THEN "outcome_unknown" ELSE state

(* The outcome goes to the journal under a context the caller's deadline does not end. *)
Record(s) ==
    /\ pc[s] = "record" /\ Knows(s, AfterFence(verdict[s]))
    /\ RecordResult(s, AfterFence(verdict[s]))
    /\ To(s, "detach")
    /\ UNCHANGED <<lease, expired, tries, wire, answer, turns, attached, stored, shown>>

(* detachTarget, on every path after a resume; its failure is reported. *)
Detach(s) ==
    /\ pc[s] = "detach"
    /\ \/ attached' = [attached EXCEPT ![s] = FALSE] /\ UNCHANGED fault
       \/ attached[s] /\ fault' = [fault EXCEPT ![s] = "detach"] /\ UNCHANGED attached
    /\ To(s, IF verdict[s] = "accepted" /\ fault'[s] = "none" /\ s \in Waiters THEN "accepted" ELSE "persist")
    /\ UNCHANGED <<op, lease, expired, tries, wire, answer, turns, verdict, stored, shown>>
-----------------------------------------------------------------------------

(* persistReceipt: the receipt is stored before anything is printed, or the command fails. *)
PersistReceipt(s, next) ==
    \/ stored' = [stored EXCEPT ![s] = verdict[s]] /\ To(s, next)
    \/ UNCHANGED stored /\ To(s, "returned")

(* streamSend's acceptance callback: stored, printed, then the wait begins. *)
Accepted(s) ==
    /\ pc[s] = "accepted"
    /\ PersistReceipt(s, "wait")
    /\ shown' = [shown EXCEPT ![s] = IF pc'[s] = "wait" THEN verdict[s] ELSE @]
    /\ UNCHANGED <<op, lease, expired, tries, wire, answer, turns, attached, verdict, fault>>

(* Service.Wait ends and leaves the verdict of the delivery as it was. *)
WaitEnds(s) ==
    /\ pc[s] = "wait" /\ To(s, "persist")
    /\ UNCHANGED <<op, lease, expired, tries, wire, answer, turns, attached, verdict, fault, stored, shown>>

Persist(s) ==
    /\ pc[s] = "persist" /\ PersistReceipt(s, "emit")
    /\ UNCHANGED <<op, lease, expired, tries, wire, answer, turns, attached, verdict, fault, shown>>

Emit(s) ==
    /\ pc[s] = "emit" /\ To(s, "returned")
    /\ shown' = [shown EXCEPT ![s] = verdict[s]]
    /\ UNCHANGED <<op, lease, expired, tries, wire, answer, turns, attached, verdict, fault, stored>>

(* The process ends at any point; the server drops its subscription with its connection. *)
Crash(s) ==
    /\ pc[s] \notin {"start", "returned", "crashed"} /\ To(s, "crashed")
    /\ answer' = [answer EXCEPT ![s] = "none"]
    /\ attached' = [attached EXCEPT ![s] = FALSE]
    /\ UNCHANGED <<op, lease, expired, tries, wire, turns, verdict, fault, stored, shown>>

Works(s) ==
    \/ Prepare(s) \/ Resume(s) \/ ResumeFailed(s) \/ Fence(s) \/ Dispatch(s) \/ Answered(s)
    \/ Backoff(s) \/ Record(s) \/ Detach(s) \/ Accepted(s) \/ WaitEnds(s) \/ Persist(s) \/ Emit(s)
    \/ expired[s] /\ CallCut(s)
Next == \E s \in Sender :
    \/ Works(s) \/ CallCut(s) \/ ServerTakes(s) \/ DeadlinePasses(s)
    \/ LeaseExpires(s) \/ RecoverOrphan(s) \/ Crash(s)

Spec == Init /\ [][Next]_vars
(* A sender that is alive keeps going, and a timeout that was set runs out. *)
Fairness == \A s \in Sender : WF_vars(Works(s)) /\ WF_vars(DeadlinePasses(s))
FairSpec == Spec /\ Fairness
-----------------------------------------------------------------------------
(* PROPERTIES *)

(* A body reaches its thread at most once, whatever is retried, cut off or recovered. *)
BodyAtMostOnce == \A s \in Sender : turns[s] + (IF wire[s] THEN 1 ELSE 0) <= 1

(* What the journal says of a message is true of the thread, and stays true: accepted names a  *)
(* submitted body; rejected and not_sent name one that is not there and cannot arrive any more. *)
EvidenceIsTrue == \A s \in Sender :
    /\ op[s] = "accepted" => turns[s] = 1
    /\ op[s] \in {"rejected", "not_sent", "prepared", "none"} => turns[s] = 0 /\ ~wire[s]

(* The same of the receipts, which are written by another call than the operation's state. *)
ReceiptIsTrue == \A s \in Sender :
    /\ stored[s] = "accepted" => turns[s] = 1
    /\ stored[s] \in {"rejected", "not_sent"} => turns[s] = 0 /\ ~wire[s]

(* Nothing conclusive is printed before it is durable in the receipt store, also when the      *)
(* process dies between the two.                                                               *)
ShownIsStored == \A s \in Sender : shown[s] # "none" => stored[s] = shown[s]

(* A Send that returned leaves no operation fenced and open, and no target it resumed still    *)
(* attached, unless it reported the journal or the detach that failed.                         *)
ReturnsClean == \A s \in Sender : pc[s] = "returned" =>
    /\ op[s] \in {"prepared", "dispatch_started"} => fault[s] # "none"
    /\ attached[s] => fault[s] = "detach"

(* A recorded outcome is never replaced, except outcome_unknown by an acceptance: a slow sender *)
(* and a recovery that closed its operation cannot overwrite each other.                       *)
OutcomeIsFinal == [][\A s \in Sender :
    op[s] \in Ended /\ op'[s] # op[s] => op[s] = "outcome_unknown" /\ op'[s] = "accepted"]_vars

(* A Send with a delivery timeout returns, whether or not the server answers or stops refusing. *)
SendReturns == \A s \in Bounded : (pc[s] # "start") ~> (pc[s] \in {"returned", "crashed"})

(* What a Send stores, prints and leaves behind is true of the thread, and stays so.           *)
SendIsTrue ==
    /\ [](BodyAtMostOnce /\ EvidenceIsTrue /\ ReceiptIsTrue /\ ShownIsStored /\ ReturnsClean)
    /\ OutcomeIsFinal
=============================================================================
