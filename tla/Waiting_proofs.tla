---------------------------- MODULE Waiting_proofs ----------------------------
(***************************************************************************)
(* The safety properties of a Send, of the connections it shares and of    *)
(* the wait for its reply.                                                 *)
(*                                                                         *)
(* SendDelivery, for any set of senders, any of them with a timeout, a     *)
(* target to resume or a wait, and any number of tries.  The journal's     *)
(* evidence, the receipt and what was printed are written at three         *)
(* different times, from a verdict that is formed at a fourth, while the   *)
(* request may still be on its way.  The invariant says for each point of  *)
(* a Send where its body can be and on which side of the dispatch fence    *)
(* its operation is; the rest follows from that.                           *)
(*                                                                         *)
(* ConnectionPool, for any number of users, readers, threads and sessions: *)
(* an open session has an owner that will detach it, an endpoint has one   *)
(* connection, a lease keeps its subscription and an isolated read uses a  *)
(* connection that is alive.  Its invariant has one part per question:     *)
(*   GateInv      who is inside the gate of a thread                       *)
(*   OpeningInv   one goroutine opens at a time, into an empty pool        *)
(*   HandInv      the session in hand is the pooled one, or nobody's       *)
(*   OwnerInv     an open session has an owner                             *)
(*   CountInv     the number of leases against the users that hold one     *)
(*   LeaseInv     a counted lease is a subscription of the pooled session  *)
(*   ReaderInv    the connection of an isolated read                       *)
(*                                                                         *)
(* WaitService, for any set of replies and any capacity of the channel: an *)
(* item of the thread is at every step somewhere between the subscription, *)
(* the history, the event channel, the hand and custody (FlowInv), and     *)
(* what was read of custody stays true (CustodyInv).                       *)
(***************************************************************************)
EXTENDS SendDelivery, ConnectionPool, WaitService, FiniteSetTheorems, TLAPS

\* The types, but for the bounds of the two counters.
SendTypes ==
    /\ op \in [Sender -> Ended \cup {"none", "prepared", "dispatch_started"}]
    /\ lease \in [Sender -> BOOLEAN] /\ expired \in [Sender -> BOOLEAN]
    /\ pc \in [Sender -> Steps] /\ tries \in [Sender -> Nat]
    /\ wire \in [Sender -> BOOLEAN] /\ answer \in [Sender -> Answers \cup {"none"}]
    /\ turns \in [Sender -> Nat] /\ attached \in [Sender -> BOOLEAN]
    /\ verdict \in [Sender -> Ended \cup {"prepared"}]
    /\ fault \in [Sender -> {"none", "journal", "detach"}]
    /\ stored \in [Sender -> Ended \cup {"none", "prepared"}]
    /\ shown \in [Sender -> Ended \cup {"none", "prepared"}]

BeforeFence == {"start", "resume", "resumeFailed", "fence"}
MaySend     == {"dispatch", "call", "backoff", "record"}
Reported    == {"detach", "accepted", "wait", "persist", "emit", "returned"}
Stores      == {"wait", "persist", "emit", "returned", "crashed"}

\* The body is neither in the thread nor on its way.
Absent(s) == turns[s] = 0 /\ ~wire[s]

\* Where the body can be: it has left once, before any answer was taken, and
\* an answer that was not taken yet tells whether it arrived.
BodyInv(s) ==
    /\ turns[s] \in {0, 1} /\ (turns[s] = 1 => ~wire[s])
    /\ ~Absent(s) => tries[s] > 0
    /\ pc[s] \in BeforeFence \cup {"dispatch", "backoff"} => Absent(s)
    /\ pc[s] = "call" => (wire[s] <=> answer[s] = "none")
    /\ answer[s] # "none" => pc[s] = "call"
    /\ answer[s] = "turn" => turns[s] = 1
    /\ answer[s] \in {"notSteerable", "refused"} => turns[s] = 0

\* On which side of the fence the operation is.
FenceInv(s) ==
    /\ pc[s] = "start" => op[s] = "none"
    /\ pc[s] \in BeforeFence \ {"start"} => op[s] \in {"prepared", "not_sent"}
    /\ pc[s] \in MaySend => op[s] \in {"dispatch_started", "outcome_unknown"}
    /\ op[s] \in {"none", "prepared", "not_sent", "rejected"} => Absent(s)
    /\ op[s] = "accepted" => turns[s] = 1

\* What the Send knows is true; only while a retry is under way is its
\* verdict that of the try before.
VerdictInv(s) ==
    /\ verdict[s] = "accepted" => turns[s] = 1
    /\ verdict[s] \in {"rejected", "not_sent"} /\ pc[s] \notin {"call", "crashed"} => Absent(s)
    /\ pc[s] \in {"backoff", "record"} => verdict[s] # "prepared"

\* The receipt follows the verdict, and the print the receipt.
StoredInv(s) ==
    /\ stored[s] # "none" => pc[s] \in Stores
    /\ stored[s] # "none" /\ pc[s] # "crashed" => stored[s] = verdict[s]
    /\ pc[s] = "emit" => stored[s] # "none"
    /\ stored[s] = "accepted" => turns[s] = 1
    /\ stored[s] \in {"rejected", "not_sent"} => Absent(s)
    /\ shown[s] # "none" => stored[s] = shown[s]

\* What is left open was reported.
CleanInv(s) ==
    /\ pc[s] \in {"start", "resume", "resumeFailed"} => ~attached[s]
    /\ pc[s] \in Reported /\ op[s] \in {"prepared", "dispatch_started"} => fault[s] # "none"
    /\ pc[s] \in Reported \ {"detach"} /\ attached[s] => fault[s] = "detach"

SenderInv(s) == BodyInv(s) /\ FenceInv(s) /\ VerdictInv(s) /\ StoredInv(s) /\ CleanInv(s)
SendInv == SendTypes /\ \A s \in Sender : SenderInv(s)

Acts(s) ==
    \/ Works(s) \/ CallCut(s) \/ ServerTakes(s) \/ DeadlinePasses(s)
    \/ LeaseExpires(s) \/ RecoverOrphan(s) \/ Crash(s)

-----------------------------------------------------------------------------
(* Types, and the senders that do not move. *)

LEMMA ResultTypes ==
    ASSUME SendTypes, NEW s \in Sender, NEW state \in Ended, RecordResult(s, state)
    PROVE  /\ op' \in [Sender -> Ended \cup {"none", "prepared", "dispatch_started"}]
           /\ fault' \in [Sender -> {"none", "journal", "detach"}]
           /\ \A r \in Sender \ {s} : op'[r] = op[r] /\ fault'[r] = fault[r]
           /\ op'[s] = op[s] \/ (Admits(op[s], state) /\ op'[s] = state)
           /\ (Admits(op[s], state) /\ op'[s] = state) \/ fault'[s] = "journal"
  BY DEF SendTypes, RecordResult

\* What a step that only moves its sender, or sets a verdict, an attachment or a fault leaves typed.
LEMMA MovesTyped ==
    ASSUME SendTypes, NEW s \in Sender
    PROVE  /\ \A l \in Steps : To(s, l) => pc' \in [Sender -> Steps]
           /\ \A v \in Ended \cup {"prepared"} : Knows(s, v) => verdict' \in [Sender -> Ended \cup {"prepared"}]
           /\ \A b \in BOOLEAN : [attached EXCEPT ![s] = b] \in [Sender -> BOOLEAN]
           /\ \A f \in {"none", "journal", "detach"} :
                 [fault EXCEPT ![s] = f] \in [Sender -> {"none", "journal", "detach"}]
  <1>1. \A l \in Steps : To(s, l) => pc' \in [Sender -> Steps]
    BY DEF SendTypes, To
  <1>2. \A v \in Ended \cup {"prepared"} : Knows(s, v) => verdict' \in [Sender -> Ended \cup {"prepared"}]
    BY DEF SendTypes, Knows
  <1>3. \A b \in BOOLEAN : [attached EXCEPT ![s] = b] \in [Sender -> BOOLEAN]
    BY DEF SendTypes
  <1>4. \A f \in {"none", "journal", "detach"} :
            [fault EXCEPT ![s] = f] \in [Sender -> {"none", "journal", "detach"}]
    BY DEF SendTypes
  <1> QED
    BY <1>1, <1>2, <1>3, <1>4

LEMMA TypedStep ==
    ASSUME SendTypes, NEW s \in Sender, Acts(s)
    PROVE  SendTypes'
  <1>1. CASE Prepare(s)
    <2>1. op' \in [Sender -> Ended \cup {"none", "prepared", "dispatch_started"}] /\ lease' \in [Sender -> BOOLEAN]
      BY <1>1 DEF SendTypes, Prepare, PrepareOperation
    <2>2. pc' \in [Sender -> Steps] /\ fault' \in [Sender -> {"none", "journal", "detach"}]
      BY <1>1 DEF SendTypes, Prepare, To, Steps
    <2> QED
      BY <1>1, <2>1, <2>2 DEF SendTypes, Prepare
  <1>2. CASE Resume(s)
    <2>1. {"fence", "resumeFailed"} \subseteq Steps /\ "not_sent" \in Ended
      BY DEF Steps, Ended
    <2>2. /\ pc' \in [Sender -> Steps] /\ verdict' \in [Sender -> Ended \cup {"prepared"}]
          /\ attached' \in [Sender -> BOOLEAN]
      <3>1. verdict \in [Sender -> Ended \cup {"prepared"}] /\ attached \in [Sender -> BOOLEAN]
        BY DEF SendTypes
      <3>2. CASE To(s, "fence") /\ attached' = [attached EXCEPT ![s] = TRUE] /\ UNCHANGED verdict
        BY <2>1, <3>1, <3>2, MovesTyped
      <3>3. CASE To(s, "resumeFailed") /\ Knows(s, "not_sent") /\ UNCHANGED attached
        BY <2>1, <3>1, <3>3, MovesTyped
      <3> QED
        BY <1>2, <3>2, <3>3 DEF Resume
    <2>3. UNCHANGED <<op, lease, expired, tries, wire, answer, turns, fault, stored, shown>>
      BY <1>2 DEF Resume
    <2> QED
      BY <2>2, <2>3 DEF SendTypes
  <1>3. CASE ResumeFailed(s)
    BY <1>3, ResultTypes DEF SendTypes, ResumeFailed, To, Steps, Ended
  <1>4. CASE Fence(s)
    BY <1>4 DEF SendTypes, Fence, To, Knows, Steps, Ended
  <1>5. CASE Dispatch(s)
    <2>1. tries[s] + 1 \in Nat /\ \A b \in BOOLEAN : [wire EXCEPT ![s] = b] \in [Sender -> BOOLEAN]
      BY DEF SendTypes
    <2>2. wire' \in [Sender -> BOOLEAN] /\ tries' \in [Sender -> Nat]
      BY <1>5, <2>1 DEF SendTypes, Dispatch
    <2> QED
      BY <1>5, <2>2 DEF SendTypes, Dispatch, To, Knows, Steps, Ended
  <1>6. CASE Answered(s)
    BY <1>6 DEF SendTypes, Answered, Classify, To, Knows, Steps, Ended
  <1>7. CASE Backoff(s)
    BY <1>7 DEF SendTypes, Backoff, To, Steps
  <1>8. CASE Record(s)
    <2>1. AfterFence(verdict[s]) \in Ended \cup {"prepared"}
      BY DEF SendTypes, AfterFence, Ended
    <2>2. op' \in [Sender -> Ended \cup {"none", "prepared", "dispatch_started"}]
      BY <1>8, <2>1 DEF SendTypes, Record, RecordResult
    <2>3. fault' \in [Sender -> {"none", "journal", "detach"}]
      BY <1>8, MovesTyped DEF SendTypes, Record, RecordResult
    <2>4. pc' \in [Sender -> Steps] /\ verdict' \in [Sender -> Ended \cup {"prepared"}]
      <3>1. "detach" \in Steps
        BY DEF Steps
      <3> QED
        BY <1>8, <2>1, <3>1, MovesTyped DEF Record
    <2>5. UNCHANGED <<lease, expired, tries, wire, answer, turns, attached, stored, shown>>
      BY <1>8 DEF Record
    <2> QED
      BY <2>2, <2>3, <2>4, <2>5 DEF SendTypes
  <1>9. CASE Detach(s)
    <2>1. {"accepted", "persist"} \subseteq Steps
      BY DEF Steps
    <2>2. pc' \in [Sender -> Steps]
      BY <1>9, <2>1, MovesTyped DEF Detach
    <2>3. attached' \in [Sender -> BOOLEAN] /\ fault' \in [Sender -> {"none", "journal", "detach"}]
      BY <1>9, MovesTyped DEF Detach, SendTypes
    <2>4. UNCHANGED <<op, lease, expired, tries, wire, answer, turns, verdict, stored, shown>>
      BY <1>9 DEF Detach
    <2> QED
      BY <2>2, <2>3, <2>4 DEF SendTypes
  <1>10. CASE Accepted(s) \/ WaitEnds(s) \/ Persist(s) \/ Emit(s)
    BY <1>10 DEF SendTypes, Accepted, WaitEnds, Persist, Emit, PersistReceipt, To, Steps
  <1>11. CASE CallCut(s)
    BY <1>11 DEF SendTypes, CallCut, To, Knows, Steps, Ended
  <1>12. CASE ServerTakes(s)
    BY <1>12 DEF SendTypes, ServerTakes
  <1>13. CASE DeadlinePasses(s) \/ LeaseExpires(s) \/ Crash(s)
    <2>1. CASE DeadlinePasses(s)
      BY <2>1 DEF SendTypes, DeadlinePasses
    <2>2. CASE LeaseExpires(s)
      BY <2>2 DEF SendTypes, LeaseExpires
    <2>3. CASE Crash(s)
      BY <2>3 DEF SendTypes, Crash, To, Steps
    <2> QED
      BY <1>13, <2>1, <2>2, <2>3
  <1>14. CASE RecoverOrphan(s)
    BY <1>14 DEF SendTypes, RecoverOrphan, Ended
  <1> QED
    BY <1>1, <1>2, <1>3, <1>4, <1>5, <1>6, <1>7, <1>8, <1>9, <1>10, <1>11, <1>12, <1>13, <1>14 DEF Acts, Works

\* Sender r stays as it is.
Stays(r) ==
    /\ op'[r] = op[r] /\ pc'[r] = pc[r] /\ tries'[r] = tries[r] /\ wire'[r] = wire[r]
    /\ answer'[r] = answer[r] /\ turns'[r] = turns[r] /\ attached'[r] = attached[r]
    /\ verdict'[r] = verdict[r] /\ fault'[r] = fault[r] /\ stored'[r] = stored[r] /\ shown'[r] = shown[r]

LEMMA StaysKeeps ==
    ASSUME NEW r \in Sender, SenderInv(r), Stays(r)
    PROVE  SenderInv(r)'
  BY DEF SenderInv, BodyInv, FenceInv, VerdictInv, StoredInv, CleanInv, Absent, Stays

LEMMA OthersStay ==
    ASSUME SendTypes, NEW s \in Sender, Acts(s), NEW r \in Sender, r # s
    PROVE  Stays(r)
  <1>1. CASE Prepare(s) \/ Resume(s) \/ Fence(s) \/ Dispatch(s)
    BY <1>1 DEF SendTypes, Stays, Prepare, PrepareOperation, Resume, Fence, Dispatch, To, Knows
  <1>2. CASE ResumeFailed(s) \/ Record(s)
    BY <1>2 DEF SendTypes, Stays, ResumeFailed, Record, RecordResult, To, Knows
  <1>3. CASE Answered(s) \/ Backoff(s) \/ Detach(s)
    BY <1>3 DEF SendTypes, Stays, Answered, Backoff, Detach, To, Knows
  <1>4. CASE Accepted(s) \/ WaitEnds(s) \/ Persist(s) \/ Emit(s)
    BY <1>4 DEF SendTypes, Stays, Accepted, WaitEnds, Persist, Emit, PersistReceipt, To
  <1>5. CASE CallCut(s) \/ ServerTakes(s)
    BY <1>5 DEF SendTypes, Stays, CallCut, ServerTakes, To, Knows
  <1>6. CASE DeadlinePasses(s) \/ LeaseExpires(s) \/ RecoverOrphan(s) \/ Crash(s)
    BY <1>6 DEF SendTypes, Stays, DeadlinePasses, LeaseExpires, RecoverOrphan, Crash, To
  <1> QED
    BY <1>1, <1>2, <1>3, <1>4, <1>5, <1>6 DEF Acts, Works

-----------------------------------------------------------------------------
(* The sender that moves. *)

\* What is known of it.
StandsAt(s) ==
    /\ op[s] \in Ended \cup {"none", "prepared", "dispatch_started"} /\ pc[s] \in Steps
    /\ tries[s] \in Nat /\ wire[s] \in BOOLEAN /\ answer[s] \in Answers \cup {"none"} /\ turns[s] \in Nat
    /\ attached[s] \in BOOLEAN /\ verdict[s] \in Ended \cup {"prepared"}

LEMMA PrepareKeeps ==
    ASSUME SendTypes, NEW s \in Sender, SenderInv(s), Prepare(s) \/ Resume(s) \/ ResumeFailed(s) \/ Fence(s)
    PROVE  SenderInv(s)'
  <1>1. CASE Prepare(s)
    <2>1. /\ UNCHANGED <<tries, wire, answer, turns, attached, verdict, stored, shown>> /\ pc[s] = "start"
          /\ \/ pc'[s] \in {"resume", "fence"} /\ op'[s] = "prepared"
             \/ pc'[s] = "returned" /\ op'[s] \in {op[s], "prepared"} /\ fault'[s] = "journal"
      BY <1>1 DEF SendTypes, Prepare, PrepareOperation, To
    <2> QED
      BY <2>1 DEF SenderInv, BodyInv, FenceInv, VerdictInv, StoredInv, CleanInv, Absent, BeforeFence, MaySend,
         Reported, Stores
  <1>2. CASE Resume(s)
    <2>1. /\ UNCHANGED <<op, tries, wire, answer, turns, fault, stored, shown>> /\ pc[s] = "resume"
          /\ \/ pc'[s] = "fence" /\ verdict'[s] = verdict[s]
             \/ pc'[s] = "resumeFailed" /\ verdict'[s] = "not_sent" /\ attached'[s] = attached[s]
      BY <1>2 DEF SendTypes, Resume, To, Knows
    <2> QED
      BY <2>1 DEF SenderInv, BodyInv, FenceInv, VerdictInv, StoredInv, CleanInv, Absent, BeforeFence, MaySend,
         Reported, Stores
  <1>3. CASE ResumeFailed(s)
    <2>1. /\ UNCHANGED <<tries, wire, answer, turns, attached, verdict, stored, shown>>
          /\ pc[s] = "resumeFailed" /\ pc'[s] = "persist"
      BY <1>3 DEF SendTypes, ResumeFailed, To
    <2>2. /\ op'[s] \in {op[s], "not_sent"}
          /\ op'[s] = "not_sent" \/ fault'[s] = "journal"
      <3>1. "not_sent" \in Ended
        BY DEF Ended
      <3> QED
        BY <1>3, <3>1, ResultTypes DEF ResumeFailed
    <2> QED
      BY <2>1, <2>2 DEF SenderInv, BodyInv, FenceInv, VerdictInv, StoredInv, CleanInv, Absent, BeforeFence,
         MaySend, Reported, Stores
  <1>4. CASE Fence(s)
    <2>1. /\ UNCHANGED <<tries, wire, answer, turns, attached, stored, shown>>
          /\ pc[s] = "fence" /\ verdict'[s] = "outcome_unknown"
          /\ \/ op'[s] = "dispatch_started" /\ pc'[s] = "dispatch"
             \/ op'[s] \in {op[s], "dispatch_started"} /\ pc'[s] = "detach" /\ fault'[s] = "journal"
      BY <1>4 DEF SendTypes, Fence, To, Knows
    <2> QED
      BY <2>1 DEF SenderInv, BodyInv, FenceInv, VerdictInv, StoredInv, CleanInv, Absent, BeforeFence, MaySend,
         Reported, Stores
  <1> QED
    BY <1>1, <1>2, <1>3, <1>4

LEMMA DispatchKeeps ==
    ASSUME SendTypes, NEW s \in Sender, SenderInv(s),
           Dispatch(s) \/ ServerTakes(s) \/ Answered(s) \/ CallCut(s) \/ Backoff(s)
    PROVE  SenderInv(s)'
  <1>0. StandsAt(s)
    BY DEF SendTypes, StandsAt
  <1>1. CASE Dispatch(s)
    <2>1. /\ UNCHANGED <<op, answer, turns, attached, fault, stored, shown>>
          /\ pc[s] = "dispatch" /\ tries'[s] = tries[s] + 1
          /\ \/ verdict'[s] = "not_sent" /\ pc'[s] = "record" /\ wire'[s] = wire[s]
             \/ verdict'[s] = "outcome_unknown" /\ pc'[s] = "record" /\ wire'[s] \in BOOLEAN
             \/ wire'[s] = TRUE /\ pc'[s] = "call" /\ verdict'[s] = verdict[s]
      BY <1>1 DEF SendTypes, Dispatch, To, Knows
    <2> QED
      BY <1>0, <2>1 DEF StandsAt, SenderInv, BodyInv, FenceInv, VerdictInv, StoredInv, CleanInv, Absent, BeforeFence,
         MaySend, Reported, Stores
  <1>2. CASE ServerTakes(s)
    <2>1. /\ UNCHANGED <<op, pc, tries, attached, verdict, fault, stored, shown>>
          /\ wire[s] /\ wire'[s] = FALSE
      BY <1>2 DEF SendTypes, ServerTakes
    <2>2. PICK a \in Answers, submits \in BOOLEAN :
             /\ a \in {"turn", "noTurnId"} => submits
             /\ a \in {"notSteerable", "refused"} => ~submits
             /\ turns'[s] = IF submits THEN turns[s] + 1 ELSE turns[s]
             /\ answer'[s] = IF pc[s] = "call" THEN a ELSE answer[s]
      BY <1>2 DEF SendTypes, ServerTakes
    <2>3. turns[s] = 0 /\ turns'[s] \in {0, 1} /\ "none" \notin Answers
      BY <2>1, <2>2 DEF SenderInv, BodyInv, Answers
    <2>4. BodyInv(s)'
      BY <1>0, <2>1, <2>2, <2>3 DEF StandsAt, SenderInv, BodyInv, Absent, BeforeFence
    <2>5. op[s] \in {"dispatch_started", "outcome_unknown"} /\ verdict[s] # "accepted"
      BY <1>0, <2>1, <2>3 DEF StandsAt, SenderInv, FenceInv, VerdictInv, Absent, Ended
    <2> QED
      BY <1>0, <2>1, <2>3, <2>4, <2>5 DEF StandsAt, SenderInv, FenceInv, VerdictInv, StoredInv, CleanInv, Absent
  <1>3. CASE Answered(s)
    <2>1. /\ UNCHANGED <<op, tries, wire, turns, attached, fault, stored, shown>>
          /\ pc[s] = "call" /\ answer[s] # "none" /\ answer'[s] = "none" /\ ~wire[s]
          /\ verdict'[s] = Classify(answer[s])
          /\ pc'[s] = IF Retries(answer[s]) THEN "backoff" ELSE "record"
      BY <1>3 DEF SendTypes, Answered, To, Knows, SenderInv, BodyInv
    <2>2. /\ verdict'[s] \in {"accepted", "rejected", "outcome_unknown"}
          /\ verdict'[s] = "accepted" => turns[s] = 1
          /\ verdict'[s] = "rejected" => turns[s] = 0
          /\ pc'[s] = "backoff" => turns[s] = 0
      BY <2>1 DEF Classify, Retries, SenderInv, BodyInv
    <2>3. BodyInv(s)'
      BY <2>1, <2>2 DEF SenderInv, BodyInv, Absent, BeforeFence
    <2>4. FenceInv(s)'
      <3>1. pc'[s] \in MaySend /\ pc'[s] \notin BeforeFence /\ (Absent(s)' <=> Absent(s))
        BY <2>1 DEF Absent, BeforeFence, MaySend
      <3>2. pc[s] \in MaySend /\ FenceInv(s)
        BY <2>1 DEF SenderInv, MaySend
      <3>3. "start" \in BeforeFence
        BY DEF BeforeFence
      <3> QED
        BY <2>1, <3>1, <3>2, <3>3 DEF FenceInv
    <2>5. VerdictInv(s)'
      BY <2>1, <2>2 DEF SenderInv, VerdictInv, Absent
    <2>7. StoredInv(s)'
      <3>1. stored[s] = "none" /\ shown[s] = "none"
        BY <2>1 DEF SenderInv, StoredInv, Stores
      <3> QED
        BY <2>1, <3>1 DEF StoredInv
    <2>6. CleanInv(s)'
      BY <1>0, <2>1, <2>2 DEF StandsAt, SenderInv, CleanInv, Reported
    <2> QED
      BY <2>3, <2>4, <2>5, <2>6, <2>7 DEF SenderInv
  <1>4. CASE CallCut(s)
    <2>1. /\ UNCHANGED <<op, tries, turns, attached, fault, stored, shown>>
          /\ pc[s] = "call" /\ verdict'[s] = "outcome_unknown" /\ pc'[s] = "record" /\ answer'[s] = "none"
          /\ wire'[s] \in {FALSE, wire[s]}
      <3>1. UNCHANGED <<op, tries, turns, attached, fault, stored, shown>> /\ pc[s] = "call"
        BY <1>4 DEF CallCut
      <3>2. pc'[s] = "record" /\ verdict'[s] = "outcome_unknown"
        BY <1>4 DEF SendTypes, CallCut, To, Knows
      <3>3. answer'[s] = "none"
        BY <1>4 DEF SendTypes, CallCut
      <3>4. PICK reaches \in BOOLEAN : wire' = [wire EXCEPT ![s] = @ /\ reaches]
        BY <1>4 DEF CallCut
      <3>5. wire'[s] = (wire[s] /\ reaches) /\ wire[s] \in BOOLEAN
        BY <3>4 DEF SendTypes
      <3>6. wire'[s] \in {FALSE, wire[s]}
        BY <3>4, <3>5
      <3> QED
        BY <3>1, <3>2, <3>3, <3>6
    <2>2. BodyInv(s)'
      BY <1>0, <2>1 DEF StandsAt, SenderInv, BodyInv, Absent, BeforeFence
    <2>3. FenceInv(s)'
      BY <1>0, <2>1 DEF StandsAt, SenderInv, FenceInv, Absent, BeforeFence, MaySend
    <2>4. VerdictInv(s)' /\ StoredInv(s)'
      BY <1>0, <2>1 DEF StandsAt, SenderInv, VerdictInv, StoredInv, Absent, Stores
    <2>5. CleanInv(s)'
      BY <1>0, <2>1 DEF StandsAt, SenderInv, CleanInv, Reported
    <2> QED
      BY <2>2, <2>3, <2>4, <2>5 DEF SenderInv
  <1>5. CASE Backoff(s)
    <2>1. /\ UNCHANGED <<op, tries, wire, answer, turns, attached, verdict, fault, stored, shown>>
          /\ pc[s] = "backoff" /\ pc'[s] \in {"dispatch", "record"}
      BY <1>5 DEF SendTypes, Backoff, To
    <2> QED
      BY <1>0, <2>1 DEF StandsAt, SenderInv, BodyInv, FenceInv, VerdictInv, StoredInv, CleanInv, Absent,
         BeforeFence, MaySend, Reported, Stores
  <1> QED
    BY <1>1, <1>2, <1>3, <1>4, <1>5

LEMMA RecordKeeps ==
    ASSUME SendTypes, NEW s \in Sender, SenderInv(s), Record(s) \/ Detach(s)
    PROVE  SenderInv(s)'
  <1>0. StandsAt(s)
    BY DEF SendTypes, StandsAt
  <1>1. CASE Record(s)
    <2>0. /\ UNCHANGED <<tries, wire, answer, turns, attached, stored, shown>>
          /\ pc[s] = "record" /\ pc'[s] = "detach" /\ verdict'[s] = AfterFence(verdict[s])
      BY <1>1 DEF SendTypes, Record, To, Knows
    <2>1. /\ verdict[s] \in Ended /\ verdict'[s] \in {"accepted", "rejected", "outcome_unknown"}
          /\ verdict'[s] \in {"accepted", "rejected"} => verdict'[s] = verdict[s]
          /\ op[s] \in {"dispatch_started", "outcome_unknown"} /\ stored[s] = "none"
      BY <1>0, <2>0 DEF StandsAt, AfterFence, SenderInv, VerdictInv, FenceInv, StoredInv, Ended, MaySend, Stores
    <2>2. /\ op'[s] \in {op[s], verdict'[s]}
          /\ op'[s] = verdict'[s] \/ fault'[s] = "journal"
      <3>1. AfterFence(verdict[s]) \in Ended
        BY <2>0, <2>1 DEF Ended
      <3> QED
        BY <1>1, <2>0, <3>1, ResultTypes DEF Record
    <2>3. /\ op'[s] \in {"dispatch_started", "outcome_unknown", "accepted", "rejected"}
          /\ op'[s] \in {"accepted", "rejected"} => op'[s] = verdict[s]
      BY <2>1, <2>2
    <2> QED
      BY <1>0, <2>0, <2>1, <2>2, <2>3 DEF StandsAt, SenderInv, BodyInv, FenceInv, VerdictInv, StoredInv, CleanInv,
         Absent, BeforeFence, MaySend, Reported, Stores
  <1>2. CASE Detach(s)
    <2>1. /\ UNCHANGED <<op, tries, wire, answer, turns, verdict, stored, shown>>
          /\ pc[s] = "detach" /\ pc'[s] \in {"accepted", "persist"}
          /\ \/ attached'[s] = FALSE /\ fault'[s] = fault[s]
             \/ fault'[s] = "detach"
      BY <1>2 DEF SendTypes, Detach, To
    <2> QED
      BY <1>0, <2>1 DEF StandsAt, SenderInv, BodyInv, FenceInv, VerdictInv, StoredInv, CleanInv, Absent, BeforeFence,
         MaySend, Reported, Stores
  <1> QED
    BY <1>1, <1>2

LEMMA PersistKeeps ==
    ASSUME SendTypes, NEW s \in Sender, SenderInv(s), Accepted(s) \/ WaitEnds(s) \/ Persist(s) \/ Emit(s)
    PROVE  SenderInv(s)'
  <1>0. StandsAt(s)
    BY DEF SendTypes, StandsAt
  <1>1. UNCHANGED <<op, tries, wire, answer, turns, attached, verdict, fault>>
    BY DEF Accepted, WaitEnds, Persist, Emit
  <1>2. CASE Accepted(s)
    <2>1. /\ pc[s] = "accepted"
          /\ \/ pc'[s] = "wait" /\ stored'[s] = verdict[s] /\ shown'[s] = verdict[s]
             \/ pc'[s] = "returned" /\ stored'[s] = stored[s] /\ shown'[s] = shown[s]
      BY <1>2 DEF SendTypes, Accepted, PersistReceipt, To
    <2> QED
      BY <1>0, <1>1, <2>1 DEF StandsAt, SenderInv, BodyInv, FenceInv, VerdictInv, StoredInv, CleanInv, Absent,
         BeforeFence, MaySend, Reported, Stores, Ended
  <1>3. CASE WaitEnds(s)
    <2>1. pc[s] = "wait" /\ pc'[s] = "persist" /\ stored'[s] = stored[s] /\ shown'[s] = shown[s]
      BY <1>3 DEF SendTypes, WaitEnds, To
    <2> QED
      BY <1>0, <1>1, <2>1 DEF StandsAt, SenderInv, BodyInv, FenceInv, VerdictInv, StoredInv, CleanInv, Absent,
         BeforeFence, MaySend, Reported, Stores
  <1>4. CASE Persist(s)
    <2>1. /\ pc[s] = "persist" /\ shown'[s] = shown[s]
          /\ \/ pc'[s] = "emit" /\ stored'[s] = verdict[s]
             \/ pc'[s] = "returned" /\ stored'[s] = stored[s]
      BY <1>4 DEF SendTypes, Persist, PersistReceipt, To
    <2> QED
      BY <1>0, <1>1, <2>1 DEF StandsAt, SenderInv, BodyInv, FenceInv, VerdictInv, StoredInv, CleanInv, Absent,
         BeforeFence, MaySend, Reported, Stores, Ended
  <1>5. CASE Emit(s)
    <2>1. pc[s] = "emit" /\ pc'[s] = "returned" /\ stored'[s] = stored[s] /\ shown'[s] = verdict[s]
      BY <1>5 DEF SendTypes, Emit, To
    <2> QED
      BY <1>0, <1>1, <2>1 DEF StandsAt, SenderInv, BodyInv, FenceInv, VerdictInv, StoredInv, CleanInv, Absent,
         BeforeFence, MaySend, Reported, Stores
  <1> QED
    BY <1>2, <1>3, <1>4, <1>5

LEMMA BesideKeeps ==
    ASSUME SendTypes, NEW s \in Sender, SenderInv(s),
           DeadlinePasses(s) \/ LeaseExpires(s) \/ RecoverOrphan(s) \/ Crash(s)
    PROVE  SenderInv(s)'
  <1>0. StandsAt(s)
    BY DEF SendTypes, StandsAt
  <1>1. CASE DeadlinePasses(s) \/ LeaseExpires(s)
    <2>1. Stays(s)
      BY <1>1 DEF DeadlinePasses, LeaseExpires, Stays
    <2> QED
      BY <2>1, StaysKeeps
  <1>2. CASE RecoverOrphan(s)
    <2>1. /\ UNCHANGED <<pc, tries, wire, answer, turns, attached, verdict, fault, stored, shown>>
          /\ \/ op[s] = "prepared" /\ op'[s] = "not_sent"
             \/ op[s] = "dispatch_started" /\ op'[s] = "outcome_unknown"
      BY <1>2 DEF SendTypes, RecoverOrphan
    <2> QED
      BY <1>0, <2>1 DEF StandsAt, SenderInv, BodyInv, FenceInv, VerdictInv, StoredInv, CleanInv, Absent,
         BeforeFence, MaySend, Reported, Stores
  <1>3. CASE Crash(s)
    <2>1. /\ UNCHANGED <<op, tries, wire, turns, verdict, fault, stored, shown>>
          /\ pc'[s] = "crashed" /\ answer'[s] = "none"
      BY <1>3 DEF SendTypes, Crash, To
    <2> QED
      BY <1>0, <2>1 DEF StandsAt, SenderInv, BodyInv, FenceInv, VerdictInv, StoredInv, CleanInv, Absent,
         BeforeFence, MaySend, Reported, Stores
  <1> QED
    BY <1>1, <1>2, <1>3

-----------------------------------------------------------------------------
(* The inductive invariant and the theorems. *)

LEMMA NextSendInv ==
    ASSUME SendInv, Next
    PROVE  SendInv'
  <1>1. PICK s \in Sender : Acts(s)
    BY DEF Next, Acts
  <1>2. SendTypes /\ SendTypes'
    BY <1>1, TypedStep DEF SendInv
  <1>3. SenderInv(s)'
    BY <1>1, <1>2, PrepareKeeps, DispatchKeeps, RecordKeeps, PersistKeeps, BesideKeeps DEF SendInv, Acts, Works
  <1>4. ASSUME NEW r \in Sender, r # s PROVE SenderInv(r)'
    BY <1>1, <1>2, <1>4, OthersStay, StaysKeeps DEF SendInv
  <1> QED
    BY <1>2, <1>3, <1>4 DEF SendInv

LEMMA Invariance == Spec => []SendInv
  <1>1. Init => SendInv
    <2> SUFFICES ASSUME Init PROVE SendInv
      OBVIOUS
    <2>1. SendTypes
      BY DEF Init, SendTypes, Ended, Steps
    <2>2. ASSUME NEW s \in Sender PROVE SenderInv(s)
      BY DEF Init, SenderInv, BodyInv, FenceInv, VerdictInv, StoredInv, CleanInv, Absent, BeforeFence, MaySend,
         Reported, Stores
    <2> QED
      BY <2>1, <2>2 DEF SendInv
  <1>2. SendInv /\ UNCHANGED vars => SendInv'
    <2> SUFFICES ASSUME SendInv, UNCHANGED vars PROVE SendInv'
      OBVIOUS
    <2>1. SendTypes'
      BY DEF SendInv, SendTypes, vars
    <2>2. ASSUME NEW s \in Sender PROVE SenderInv(s)'
      <3>1. Stays(s)
        BY DEF vars, Stays
      <3> QED
        BY <3>1, StaysKeeps DEF SendInv
    <2> QED
      BY <2>1, <2>2 DEF SendInv
  <1> QED
    BY <1>1, <1>2, NextSendInv, PTL DEF Spec

\* A body reaches its thread at most once, whatever is retried, cut off or
\* recovered: the request that was sent is in the thread, under way or lost.
THEOREM BodyOnce == Spec => []BodyAtMostOnce
  <1>1. SendInv => BodyAtMostOnce
    BY DEF SendInv, SenderInv, BodyInv, BodyAtMostOnce
  <1> QED
    BY <1>1, Invariance, PTL

\* No transaction replaces a recorded outcome, except outcome_unknown by an
\* acceptance.
THEOREM OutcomeFinal == Spec => OutcomeIsFinal
  <1>1. ASSUME SendInv, NEW s \in Sender, NEW r \in Sender, Acts(s), op[r] \in Ended, op'[r] # op[r]
        PROVE  op[r] = "outcome_unknown" /\ op'[r] = "accepted"
    <2>1. SendTypes /\ r = s /\ SenderInv(s)
      BY <1>1, OthersStay DEF SendInv, Stays
    <2>2. pc[s] = "start" => op[s] = "none"
      BY <2>1 DEF SenderInv, FenceInv
    <2>3. ~(Prepare(s) \/ Resume(s) \/ Fence(s) \/ Dispatch(s) \/ ServerTakes(s) \/ Answered(s) \/ CallCut(s)
            \/ Backoff(s) \/ Detach(s) \/ Accepted(s) \/ WaitEnds(s) \/ Persist(s) \/ Emit(s)
            \/ DeadlinePasses(s) \/ LeaseExpires(s) \/ RecoverOrphan(s) \/ Crash(s))
      BY <1>1, <2>1, <2>2 DEF SendTypes, Prepare, PrepareOperation, Resume, Fence, MayFence, Dispatch, ServerTakes,
         Answered, CallCut, Backoff, Detach, Accepted, WaitEnds, Persist, Emit, DeadlinePasses, LeaseExpires,
         RecoverOrphan, Crash, Ended
    <2>4. PICK state \in Ended : RecordResult(s, state)
      <3>1. CASE ResumeFailed(s)
        BY <3>1 DEF ResumeFailed, Ended
      <3>2. CASE Record(s)
        <4>1. AfterFence(verdict[s]) \in Ended
          <5>1. verdict[s] \in Ended
            BY <2>1, <3>2 DEF SendTypes, SenderInv, VerdictInv, Record
          <5> QED
            BY <5>1 DEF AfterFence, Ended
        <4> QED
          BY <3>2, <4>1 DEF Record
      <3> QED
        BY <1>1, <2>3, <3>1, <3>2 DEF Acts, Works
    <2>5. Admits(op[s], state) /\ op'[s] = state
      BY <1>1, <2>1, <2>4, ResultTypes
    <2> QED
      BY <1>1, <2>1, <2>5 DEF Admits, Ended
  <1>2. SendInv /\ [Next]_vars => [\A s \in Sender :
          op[s] \in Ended /\ op'[s] # op[s] => op[s] = "outcome_unknown" /\ op'[s] = "accepted"]_vars
    BY <1>1 DEF Next, Acts
  <1> QED
    BY <1>2, Invariance, PTL DEF Spec, OutcomeIsFinal

\* What a Send stores, prints and leaves behind is true of the thread, and
\* stays so.
THEOREM SendTrue == Spec => SendIsTrue
  <1>1. SendInv => BodyAtMostOnce
    BY DEF SendInv, SenderInv, BodyInv, BodyAtMostOnce
  <1>2. SendInv => EvidenceIsTrue
    BY DEF SendInv, SenderInv, FenceInv, Absent, EvidenceIsTrue
  <1>3. SendInv => ReceiptIsTrue /\ ShownIsStored
    BY DEF SendInv, SenderInv, StoredInv, Absent, ReceiptIsTrue, ShownIsStored
  <1>4. SendInv => ReturnsClean
    BY DEF SendInv, SenderInv, CleanInv, Reported, ReturnsClean
  <1> QED
    BY <1>1, <1>2, <1>3, <1>4, Invariance, OutcomeFinal, PTL DEF SendIsTrue

\* Every reachable state of a Send is well typed, and its tries keep to
\* their bound.
THEOREM TypeCorrect == Spec => []TypeOK
  <1> DEFINE Bound == \A s \in Sender : tries[s] <= MaxTries
  <1>1. Init => Bound
    BY MaxTriesAssumption DEF Init
  <1>2. SendInv /\ Bound /\ [Next]_vars => Bound'
    <2> SUFFICES ASSUME SendInv, Bound, Next PROVE Bound'
      BY DEF vars
    <2>1. PICK s \in Sender : Acts(s)
      BY DEF Next, Acts
    <2>2. ASSUME NEW r \in Sender, r # s PROVE tries'[r] = tries[r]
      BY <2>1, <2>2, OthersStay DEF SendInv, Stays
    <2>3. tries'[s] = tries[s] \/ (tries[s] < MaxTries /\ tries'[s] = tries[s] + 1)
      BY <2>1 DEF SendInv, SendTypes, Acts, Works, Prepare, Resume, ResumeFailed, Fence, Dispatch, ServerTakes,
         Answered, CallCut, Backoff, Record, Detach, Accepted, WaitEnds, Persist, Emit, DeadlinePasses,
         LeaseExpires, RecoverOrphan, Crash
    <2> QED
      BY <2>2, <2>3, MaxTriesAssumption DEF SendInv, SendTypes
  <1>3. SendInv /\ Bound => TypeOK
    <2> SUFFICES ASSUME SendInv, Bound PROVE TypeOK
      OBVIOUS
    <2>1. ASSUME NEW s \in Sender PROVE tries[s] \in 0..MaxTries /\ turns[s] \in 0..MaxTries
      BY MaxTriesAssumption DEF SendInv, SendTypes, SenderInv, BodyInv, Absent
    <2> QED
      BY <2>1 DEF SendInv, SendTypes, TypeOK
  <1> QED
    BY <1>1, <1>2, <1>3, Invariance, PTL DEF Spec
-----------------------------------------------------------------------------
(***************************************************************************)
(* ConnectionPool: who owns a session, and who counts a lease.             *)
(***************************************************************************)

Label == UserLabel \cup ReaderLabel

PoolTypes ==
    /\ session \in [Session -> {"unused", "open", "detached"}]
    /\ subscribed \subseteq Session \X Thread
    /\ pooled \in Session \cup {None} /\ opening \in User \cup {None}
    /\ gate \in [Thread -> User \cup {None}]
    /\ leases \in [Thread -> Nat]
    /\ closed \in BOOLEAN /\ closing \subseteq Session
    /\ stage \in [User \cup Reader -> Label]
    /\ \A u \in User : stage[u] \in UserLabel
    /\ \A r \in Reader : stage[r] \in ReaderLabel
    /\ thread \in [User -> Thread]
    /\ hand \in [User -> Session \cup {None}]
    /\ own \in [Reader -> {"none", "open", "dead"}]
    /\ joined \in [User -> [done : BOOLEAN, session : Session \cup {None}]]
    /\ held \in [User -> BOOLEAN]
    /\ over \in [User -> BOOLEAN]
    /\ fits \in 0..Page /\ limit \in [Reader -> 1..Page]
    /\ pass \in [Reader -> {"turns", "items", "events"}]

\* Whoever calls thread/resume or thread/unsubscribe holds the gate, and the gate is held only on the way there.
Behind == {"session", "join", "open", "opened", "wrong", "failed", "discard", "have",
           "resume", "resumed", "release", "unsubscribe"}
GateInv ==
    /\ \A t \in Thread : gate[t] # None => thread[gate[t]] = t /\ stage[gate[t]] \in Behind
    /\ \A u \in User : stage[u] \in {"resume", "resumed", "release", "unsubscribe"} => InGate(u)

\* A goroutine opens alone, while nothing is pooled; a closed pool is empty.
Opens == {"open", "opened", "wrong", "failed"}
OpeningInv ==
    /\ \A u \in User : stage[u] \in Opens => opening = u
    /\ opening # None => pooled = None
    /\ closed => pooled = None
    /\ ~closed => closing = {}

\* Before and after its session a user has none in hand; a session that will be discarded is not the
\* pooled one, and every other session in hand, or handed to who waits for it, is the pooled one.
Empty == {"idle", "gate", "session", "join", "open", "failed", "done"}
Uses == {"have", "resume", "resumed", "leased", "unsubscribe"}
HandInv ==
    /\ \A u \in User :
          /\ stage[u] \in Empty => hand[u] = None
          /\ stage[u] \in {"opened", "wrong", "discard"} =>
                hand[u] # None /\ hand[u] # pooled /\ session[hand[u]] # "unused"
          /\ stage[u] \in Uses => hand[u] # None /\ (~closed => hand[u] = pooled)
          /\ joined[u].session # None /\ ~closed => joined[u].session = pooled
    /\ \A u, v \in User : stage[u] \in {"opened", "wrong"} /\ stage[v] = "discard" => hand[u] # hand[v]

OwnerInv == \A s \in Session : session[s] = "open" =>
    \/ s = pooled /\ ~closed
    \/ s \in closing
    \/ \E u \in User : stage[u] \in {"opened", "wrong", "discard"} /\ hand[u] = s

\* The users that hold a lease on t, and those that took one and may have left it behind.
Holders(t) == { u \in User : thread[u] = t /\ stage[u] \in {"leased", "release"} }
Takers(t) == { u \in User : thread[u] = t /\ stage[u] \in {"leased", "release", "done"} }

CountInv ==
    /\ \A t \in Thread : leases[t] <= Cardinality(Takers(t))
    /\ ~closed => \A t \in Thread : Cardinality(Holders(t)) <= leases[t]
    /\ \A u \in User : held[u] <=> stage[u] = "leased"

\* While a thread is resumed or unsubscribed nobody has a lease on it.
LeaseInv ==
    /\ closed \/ pooled = None => \A t \in Thread : leases[t] = 0
    /\ \A u \in User : stage[u] \in {"resume", "resumed", "unsubscribe"} => leases[thread[u]] = 0
    /\ \A t \in Thread : leases[t] > 0 => <<pooled, t>> \in subscribed
    /\ \A u \in User : stage[u] = "resumed" => closed \/ <<hand[u], thread[u]>> \in subscribed

ReaderEnded == {"idle", "failed", "too_large", "done", "done_error", "done_too_large"}
Alive == {"isolated", "wrong", "attach", "streaming", "read"}
ReaderInv == \A r \in Reader :
    /\ stage[r] \in ReaderEnded => own[r] = "none"
    /\ stage[r] \in Alive => own[r] = "open"
    /\ stage[r] = "detach_oversized" => fits < limit[r]
    /\ stage[r] \in {"too_large", "done_too_large"} => fits = 0

PoolInv == PoolTypes /\ GateInv /\ OpeningInv /\ HandInv /\ OwnerInv /\ CountInv /\ LeaseInv /\ ReaderInv
-----------------------------------------------------------------------------
(* What the helpers do to the variables of one user. *)

LEMMA Goes ==
    ASSUME PoolTypes, NEW u \in User, NEW l \in UserLabel, Goto(u, l)
    PROVE  /\ stage' \in [User \cup Reader -> Label]
           /\ stage'[u] = l
           /\ \A p \in (User \cup Reader) \ {u} : stage'[p] = stage[p]
           /\ \A v \in User : stage'[v] \in UserLabel
           /\ \A r \in Reader : stage'[r] = stage[r]
  <1>1. u \notin Reader
    BY PoolAssumption
  <1>2. stage' = [stage EXCEPT ![u] = l] /\ l \in Label
    BY DEF Goto, Label
  <1>3. stage \in [User \cup Reader -> Label] /\ \A v \in User : stage[v] \in UserLabel
    BY DEF PoolTypes
  <1> QED
    BY <1>1, <1>2, <1>3

LEMMA Takes ==
    ASSUME PoolTypes, NEW u \in User, NEW s \in Session \cup {None}, Take(u, s)
    PROVE  /\ hand' \in [User -> Session \cup {None}]
           /\ hand'[u] = s
           /\ \A v \in User \ {u} : hand'[v] = hand[v]
  BY DEF PoolTypes, Take

LEMMA Leaves ==
    ASSUME PoolTypes, NEW u \in User, LeaveGate(u)
    PROVE  /\ gate' \in [Thread -> User \cup {None}]
           /\ gate'[thread[u]] # u
           /\ \A t \in Thread : gate'[t] = IF t = thread[u] /\ gate[t] = u THEN None ELSE gate[t]
  <1>1. gate \in [Thread -> User \cup {None}] /\ thread[u] \in Thread /\ u # None
    BY PoolAssumption DEF PoolTypes
  <1>2. gate' = IF gate[thread[u]] = u THEN [gate EXCEPT ![thread[u]] = None] ELSE gate
    BY DEF LeaveGate, InGate
  <1> QED
    BY <1>1, <1>2

LEMMA ReturnLeaves ==
    ASSUME PoolTypes, NEW u \in User, Return(u)
    PROVE  Goto(u, "done") /\ Take(u, None) /\ LeaveGate(u)
  BY DEF Return

\* A step of u moves the program counter, the session in hand and the lease of nobody else, and none
\* of what Close and the readers own.
Frame(u) ==
    /\ stage' \in [User \cup Reader -> Label]
    /\ \A v \in User : stage'[v] \in UserLabel
    /\ \A v \in User \ {u} : stage'[v] = stage[v] /\ hand'[v] = hand[v] /\ held'[v] = held[v]
    /\ \A r \in Reader : stage'[r] = stage[r]
    /\ hand' \in [User -> Session \cup {None}]
    /\ gate' \in [Thread -> User \cup {None}]
    /\ held' \in [User -> BOOLEAN]
    /\ UNCHANGED <<thread, closed, closing, over, scans>>

LEMMA FrameGoes ==
    ASSUME PoolTypes, NEW u \in User, NEW l \in UserLabel, Goto(u, l), UNCHANGED <<thread, closed, closing, over, scans>>,
           hand' \in [User -> Session \cup {None}], \A v \in User \ {u} : hand'[v] = hand[v],
           gate' \in [Thread -> User \cup {None}],
           held' \in [User -> BOOLEAN], \A v \in User \ {u} : held'[v] = held[v]
    PROVE  Frame(u) /\ stage'[u] = l
  BY Goes DEF Frame

LEMMA FrameReturns ==
    ASSUME PoolTypes, NEW u \in User, Return(u), UNCHANGED <<thread, closed, closing, over, scans, held>>
    PROVE  /\ Frame(u)
           /\ stage'[u] = "done" /\ hand'[u] = None /\ gate'[thread[u]] # u
           /\ \A t \in Thread : gate'[t] = IF t = thread[u] /\ gate[t] = u THEN None ELSE gate[t]
  <1>1. Goto(u, "done") /\ Take(u, None) /\ LeaveGate(u)
    BY ReturnLeaves
  <1>2. held' \in [User -> BOOLEAN] /\ \A v \in User \ {u} : held'[v] = held[v]
    BY DEF PoolTypes
  <1>3. "done" \in UserLabel
    BY DEF UserLabel
  <1> QED
    BY <1>1, <1>2, <1>3, Takes, Leaves, FrameGoes
-----------------------------------------------------------------------------
(* The effects of each step of a user. *)

\* u returns: it leaves the gate if it was inside, and has no session.
Done(u) ==
    /\ stage'[u] = "done" /\ hand'[u] = None /\ gate'[thread[u]] # u
    /\ \A t \in Thread : gate'[t] = IF t = thread[u] /\ gate[t] = u THEN None ELSE gate[t]
Enters(u) == gate[thread[u]] = None /\ gate' = [gate EXCEPT ![thread[u]] = u]

LEMMA BeginEffect ==
    ASSUME PoolTypes, NEW u \in User, Begin(u)
    PROVE  /\ Frame(u) /\ stage[u] = "idle" /\ stage'[u] \in {"gate", "session"}
           /\ UNCHANGED <<session, subscribed, pool, gate, hand, joined, held>>
  <1>1. UNCHANGED <<session, subscribed, pool, gate, hand, users, scans>> /\ stage[u] = "idle"
    BY DEF Begin, At
  <1>2. hand \in [User -> Session \cup {None}] /\ gate \in [Thread -> User \cup {None}] /\ held \in [User -> BOOLEAN]
    BY DEF PoolTypes
  <1>3. {"gate", "session"} \subseteq UserLabel
    BY DEF UserLabel
  <1>4. CASE Goto(u, "gate")
    BY <1>1, <1>2, <1>3, <1>4, FrameGoes DEF users, pool
  <1>5. CASE Goto(u, "session")
    BY <1>1, <1>2, <1>3, <1>5, FrameGoes DEF users, pool
  <1> QED
    BY <1>1, <1>4, <1>5 DEF Begin, users

LEMMA EnterGateEffect ==
    ASSUME PoolTypes, NEW u \in User, EnterGate(u)
    PROVE  /\ Frame(u) /\ stage[u] = "gate"
           /\ \/ stage'[u] = "session" /\ Enters(u)
              \/ stage'[u] = "done" /\ UNCHANGED gate
           /\ UNCHANGED <<session, subscribed, pool, hand, joined, held>>
  <1>1. UNCHANGED <<session, subscribed, pool, hand, users, scans>> /\ stage[u] = "gate"
    BY DEF EnterGate, At
  <1>2. /\ hand \in [User -> Session \cup {None}] /\ gate \in [Thread -> User \cup {None}]
        /\ held \in [User -> BOOLEAN] /\ thread[u] \in Thread
    BY DEF PoolTypes
  <1>3. {"done", "session"} \subseteq UserLabel
    BY DEF UserLabel
  <1>4. CASE Enters(u) /\ Goto(u, "session")
    <2>1. gate' \in [Thread -> User \cup {None}]
      BY <1>2, <1>4 DEF Enters
    <2> QED
      BY <1>1, <1>2, <1>3, <1>4, <2>1, FrameGoes DEF users, pool
  <1>5. CASE gate' = gate /\ Goto(u, "done")
    BY <1>1, <1>2, <1>3, <1>5, FrameGoes DEF users, pool
  <1> QED
    BY <1>1, <1>4, <1>5 DEF EnterGate, Enters, users

LEMMA GetSessionEffect ==
    ASSUME PoolTypes, NEW u \in User, GetSession(u)
    PROVE  /\ Frame(u) /\ stage[u] = "session"
           /\ \/ Done(u) /\ UNCHANGED pool
              \/ /\ stage'[u] = "have" /\ pooled # None /\ hand'[u] = pooled
                 /\ UNCHANGED <<pool, gate>>
              \/ stage'[u] = "join" /\ UNCHANGED <<pool, gate, hand>>
              \/ /\ stage'[u] = "open" /\ ~closed /\ pooled = None /\ opening = None /\ opening' = u
                 /\ UNCHANGED <<pooled, leases, gate, hand>>
           /\ UNCHANGED <<session, subscribed, joined, held>>
  <1>1. UNCHANGED <<session, subscribed, users, scans>> /\ stage[u] = "session"
    BY DEF GetSession, At
  <1>2. /\ hand \in [User -> Session \cup {None}] /\ gate \in [Thread -> User \cup {None}]
        /\ held \in [User -> BOOLEAN] /\ pooled \in Session \cup {None}
    BY DEF PoolTypes
  <1>3. {"have", "join", "open"} \subseteq UserLabel
    BY DEF UserLabel
  <1>4. CASE closed /\ Return(u) /\ UNCHANGED pool
    BY <1>1, <1>4, FrameReturns DEF users, pool, Done
  <1>5. CASE ~closed /\ pooled # None /\ Take(u, pooled) /\ Goto(u, "have") /\ UNCHANGED <<pool, gate>>
    <2>1. hand' \in [User -> Session \cup {None}] /\ hand'[u] = pooled /\ \A v \in User \ {u} : hand'[v] = hand[v]
      BY <1>2, <1>5, Takes
    <2> QED
      BY <1>1, <1>2, <1>3, <1>5, <2>1, FrameGoes DEF users, pool
  <1>6. CASE ~closed /\ pooled = None /\ opening # None /\ Goto(u, "join") /\ UNCHANGED <<pool, gate, hand>>
    BY <1>1, <1>2, <1>3, <1>6, FrameGoes DEF users, pool
  <1>7. CASE /\ ~closed /\ pooled = None /\ opening = None /\ opening' = u /\ Goto(u, "open")
             /\ UNCHANGED <<pooled, leases, closed, closing, gate, hand>>
    BY <1>1, <1>2, <1>3, <1>7, FrameGoes DEF users
  <1> QED
    BY <1>1, <1>4, <1>5, <1>6, <1>7 DEF GetSession, users

LEMMA JoinEffect ==
    ASSUME PoolTypes, NEW u \in User, Join(u)
    PROVE  /\ Frame(u) /\ stage[u] = "join"
           /\ \/ Done(u)
              \/ /\ stage'[u] = "have" /\ joined[u].session # None /\ hand'[u] = joined[u].session
                 /\ UNCHANGED gate
           /\ joined' = [joined EXCEPT ![u] = Waits]
           /\ UNCHANGED <<session, subscribed, pool, held>>
  <1>1. UNCHANGED <<session, subscribed, pool, thread, held, over, scans>> /\ stage[u] = "join"
        /\ joined' = [joined EXCEPT ![u] = Waits]
    BY DEF Join, At
  <1>2. /\ gate \in [Thread -> User \cup {None}]
        /\ held \in [User -> BOOLEAN] /\ joined[u].session \in Session \cup {None}
    BY DEF PoolTypes
  <1>3. "have" \in UserLabel
    BY DEF UserLabel
  <1>4. CASE Return(u)
    BY <1>1, <1>4, FrameReturns DEF pool, Done
  <1>5. CASE joined[u].session # None /\ Take(u, joined[u].session) /\ Goto(u, "have") /\ UNCHANGED gate
    <2>1. /\ hand' \in [User -> Session \cup {None}] /\ hand'[u] = joined[u].session
          /\ \A v \in User \ {u} : hand'[v] = hand[v]
      BY <1>2, <1>5, Takes
    <2> QED
      BY <1>1, <1>2, <1>3, <1>5, <2>1, FrameGoes DEF pool
  <1> QED
    BY <1>1, <1>4, <1>5 DEF Join

LEMMA OpenEndpointEffect ==
    ASSUME PoolTypes, NEW u \in User, OpenEndpoint(u)
    PROVE  /\ Frame(u) /\ stage[u] = "open"
           /\ \/ \E s \in Session :
                    /\ session[s] = "unused" /\ session' = [session EXCEPT ![s] = "open"]
                    /\ hand'[u] = s /\ stage'[u] \in {"opened", "wrong"}
              \/ stage'[u] = "failed" /\ UNCHANGED <<session, hand>>
           /\ UNCHANGED <<subscribed, pool, gate, joined, held>>
  <1>1. UNCHANGED <<subscribed, pool, gate, users, scans>> /\ stage[u] = "open"
    BY DEF OpenEndpoint, At
  <1>2. /\ hand \in [User -> Session \cup {None}] /\ gate \in [Thread -> User \cup {None}]
        /\ held \in [User -> BOOLEAN]
    BY DEF PoolTypes
  <1>3. {"opened", "wrong", "failed"} \subseteq UserLabel
    BY DEF UserLabel
  <1>4. ASSUME NEW s \in Fresh, session' = [session EXCEPT ![s] = "open"], Take(u, s),
               Goto(u, "opened") \/ Goto(u, "wrong")
        PROVE  /\ Frame(u) /\ stage'[u] \in {"opened", "wrong"} /\ hand'[u] = s
               /\ s \in Session /\ session[s] = "unused"
    <2>1. s \in Session /\ session[s] = "unused"
      BY DEF Fresh
    <2>2. hand' \in [User -> Session \cup {None}] /\ hand'[u] = s /\ \A v \in User \ {u} : hand'[v] = hand[v]
      BY <1>4, <2>1, Takes
    <2> QED
      BY <1>1, <1>2, <1>3, <1>4, <2>1, <2>2, FrameGoes DEF users, pool
  <1>5. CASE Goto(u, "failed") /\ UNCHANGED <<session, hand>>
    BY <1>1, <1>2, <1>3, <1>5, FrameGoes DEF users, pool
  <1>6. CASE \E s \in Fresh : /\ session' = [session EXCEPT ![s] = "open"] /\ Take(u, s)
                              /\ Goto(u, "opened") \/ Goto(u, "wrong")
    BY <1>1, <1>4, <1>6 DEF users
  <1> QED
    BY <1>1, <1>5, <1>6 DEF OpenEndpoint, users

LEMMA PublishEffect ==
    ASSUME PoolTypes, NEW u \in User, Publish(u)
    PROVE  /\ Frame(u) /\ opening' = None
           /\ \/ /\ stage[u] = "opened" /\ ~closed /\ pooled' = hand[u] /\ stage'[u] = "have"
                 /\ UNCHANGED <<gate, hand>>
                 /\ \A v \in User : joined'[v] = IF stage[v] = "join" THEN [done |-> TRUE, session |-> hand[u]] ELSE joined[v]
              \/ /\ stage[u] \in {"opened", "wrong", "failed"} /\ (stage[u] = "opened" => closed)
                 /\ pooled' = pooled
                 /\ \A v \in User : joined'[v] = IF stage[v] = "join" THEN [done |-> TRUE, session |-> None] ELSE joined[v]
                 /\ \/ hand[u] # None /\ stage'[u] = "discard" /\ UNCHANGED <<gate, hand>>
                    \/ hand[u] = None /\ Done(u)
           /\ joined' \in [User -> [done : BOOLEAN, session : Session \cup {None}]]
           /\ UNCHANGED <<session, subscribed, leases, held>>
  <1> DEFINE ok == stage[u] = "opened" /\ ~closed
             s == IF ok THEN hand[u] ELSE None
  <1>1. /\ UNCHANGED <<session, subscribed, canceled, leases, closed, closing, thread, held, over, scans>>
        /\ stage[u] \in {"opened", "wrong", "failed"} /\ opening' = None
        /\ pooled' = IF ok THEN s ELSE pooled
        /\ joined' = [v \in User |-> IF stage[v] = "join" THEN [done |-> TRUE, session |-> s] ELSE joined[v]]
    BY DEF Publish, At
  <1>2. /\ hand \in [User -> Session \cup {None}] /\ gate \in [Thread -> User \cup {None}]
        /\ held \in [User -> BOOLEAN] /\ joined \in [User -> [done : BOOLEAN, session : Session \cup {None}]]
    BY DEF PoolTypes
  <1>3. {"have", "discard"} \subseteq UserLabel
    BY DEF UserLabel
  <1>4. joined' \in [User -> [done : BOOLEAN, session : Session \cup {None}]]
    BY <1>1, <1>2
  <1>5. CASE ok
    <2>1. Goto(u, "have") /\ UNCHANGED <<gate, hand>>
      BY <1>5 DEF Publish, At
    <2>2. Frame(u) /\ stage'[u] = "have"
      BY <1>1, <1>2, <1>3, <2>1, FrameGoes
    <2> QED
      BY <1>1, <1>4, <1>5, <2>1, <2>2
  <1>6. CASE ~ok /\ hand[u] # None
    <2>1. Goto(u, "discard") /\ UNCHANGED <<gate, hand>>
      BY <1>6 DEF Publish, At
    <2>2. Frame(u) /\ stage'[u] = "discard"
      BY <1>1, <1>2, <1>3, <2>1, FrameGoes
    <2> QED
      BY <1>1, <1>4, <1>6, <2>1, <2>2
  <1>7. CASE ~ok /\ hand[u] = None
    <2>1. Return(u)
      BY <1>7 DEF Publish, At
    <2>2. Frame(u) /\ Done(u)
      BY <1>1, <2>1, FrameReturns DEF Done
    <2> QED
      BY <1>1, <1>4, <1>7, <2>2
  <1> QED
    BY <1>5, <1>6, <1>7

LEMMA DiscardEffect ==
    ASSUME PoolTypes, NEW u \in User, Discard(u)
    PROVE  /\ Frame(u) /\ stage[u] = "discard" /\ Done(u)
           /\ session' = Detached({hand[u]}) /\ subscribed' = Dropped({hand[u]})
           /\ UNCHANGED <<pool, joined, held>>
  <1>1. UNCHANGED <<pool, users, scans>> /\ stage[u] = "discard" /\ Return(u)
    BY DEF Discard, At
  <1>2. Frame(u) /\ Done(u)
    BY <1>1, FrameReturns DEF users, pool, Done
  <1> QED
    BY <1>1, <1>2 DEF Discard, users

LEMMA CallEffect ==
    ASSUME PoolTypes, NEW u \in User, Call(u)
    PROVE  /\ Frame(u) /\ stage[u] = "have" /\ Done(u)
           /\ UNCHANGED <<session, subscribed, pool, joined, held>>
  <1>1. UNCHANGED <<session, subscribed, pool, users, scans>> /\ stage[u] = "have" /\ Return(u)
    BY DEF Call, At
  <1>2. Frame(u) /\ Done(u)
    BY <1>1, FrameReturns DEF users, pool, Done
  <1> QED
    BY <1>1, <1>2 DEF users

\* u has its lease: it leaves the gate, and keeps the session in hand.
Leased(u) ==
    /\ stage'[u] = "leased" /\ held'[u] = TRUE /\ gate'[thread[u]] # u
    /\ \A t \in Thread : gate'[t] = IF t = thread[u] /\ gate[t] = u THEN None ELSE gate[t]
    /\ UNCHANGED hand

LEMMA FrameLeased ==
    ASSUME PoolTypes, NEW u \in User, UNCHANGED <<thread, closed, closing, over, scans, hand>>,
           Goto(u, "leased"), LeaveGate(u), held' = [held EXCEPT ![u] = TRUE]
    PROVE  Frame(u) /\ Leased(u)
  <1>1. hand \in [User -> Session \cup {None}] /\ held \in [User -> BOOLEAN]
    BY DEF PoolTypes
  <1>2. held' \in [User -> BOOLEAN] /\ held'[u] = TRUE /\ \A v \in User \ {u} : held'[v] = held[v]
    BY <1>1
  <1>3. "leased" \in UserLabel
    BY DEF UserLabel
  <1>4. Frame(u) /\ stage'[u] = "leased"
    BY <1>1, <1>2, <1>3, Leaves, FrameGoes
  <1> QED
    BY <1>2, <1>4, Leaves DEF Leased

LEMMA SubscribeEffect ==
    ASSUME PoolTypes, NEW u \in User, Subscribe(u)
    PROVE  /\ Frame(u) /\ stage[u] = "have" /\ gate[thread[u]] = u
           /\ \/ Done(u) /\ UNCHANGED <<leases, held>>
              \/ /\ ~closed /\ pooled = hand[u] /\ leases[thread[u]] > 0
                 /\ leases' = [leases EXCEPT ![thread[u]] = @ + 1] /\ Leased(u)
              \/ /\ ~closed /\ pooled = hand[u] /\ leases[thread[u]] = 0
                 /\ stage'[u] = "resume" /\ UNCHANGED <<leases, held, gate, hand>>
           /\ UNCHANGED <<session, subscribed, pooled, opening, joined>>
  <1>1. UNCHANGED <<session, subscribed, pooled, opening, canceled, closed, closing, thread, joined, over, scans>>
        /\ stage[u] = "have" /\ gate[thread[u]] = u
    BY DEF Subscribe, At, InGate
  <1>2. /\ hand \in [User -> Session \cup {None}] /\ gate \in [Thread -> User \cup {None}]
        /\ held \in [User -> BOOLEAN]
    BY DEF PoolTypes
  <1>3. "resume" \in UserLabel
    BY DEF UserLabel
  <1>4. CASE Return(u) /\ UNCHANGED <<leases, held>>
    BY <1>1, <1>4, FrameReturns DEF Done
  <1>5. CASE /\ ~closed /\ pooled = hand[u] /\ leases[thread[u]] > 0
             /\ leases' = [leases EXCEPT ![thread[u]] = @ + 1] /\ held' = [held EXCEPT ![u] = TRUE]
             /\ Goto(u, "leased") /\ LeaveGate(u) /\ UNCHANGED hand
    BY <1>1, <1>5, FrameLeased
  <1>6. CASE /\ ~closed /\ pooled = hand[u] /\ leases[thread[u]] = 0
             /\ Goto(u, "resume") /\ UNCHANGED <<leases, held, gate, hand>>
    BY <1>1, <1>2, <1>3, <1>6, FrameGoes
  <1> QED
    BY <1>1, <1>4, <1>5, <1>6 DEF Subscribe

LEMMA ResumeEffect ==
    ASSUME PoolTypes, NEW u \in User, ResumeThread(u)
    PROVE  /\ Frame(u) /\ stage[u] = "resume"
           /\ \/ /\ subscribed' = subscribed \cup {<<hand[u], thread[u]>>}
                 /\ stage'[u] = "resumed" /\ UNCHANGED <<gate, hand>>
              \/ Done(u) /\ subscribed' \in {subscribed, subscribed \cup {<<hand[u], thread[u]>>}}
           /\ UNCHANGED <<session, pool, joined, held>>
  <1>1. UNCHANGED <<session, pool, users, scans>> /\ stage[u] = "resume"
    BY DEF ResumeThread, At
  <1>2. /\ hand \in [User -> Session \cup {None}] /\ gate \in [Thread -> User \cup {None}]
        /\ held \in [User -> BOOLEAN]
    BY DEF PoolTypes
  <1>3. "resumed" \in UserLabel
    BY DEF UserLabel
  <1>4. CASE /\ subscribed' = subscribed \cup {<<hand[u], thread[u]>>}
             /\ Goto(u, "resumed") /\ UNCHANGED <<gate, hand>>
    BY <1>1, <1>2, <1>3, <1>4, FrameGoes DEF users, pool
  <1>5. CASE Return(u) /\ subscribed' \in {subscribed, subscribed \cup {<<hand[u], thread[u]>>}}
    BY <1>1, <1>5, FrameReturns DEF users, pool, Done
  <1> QED
    BY <1>1, <1>4, <1>5 DEF ResumeThread, users

LEMMA RecordLeaseEffect ==
    ASSUME PoolTypes, NEW u \in User, RecordLease(u)
    PROVE  /\ Frame(u) /\ stage[u] = "resumed"
           /\ \/ Done(u) /\ UNCHANGED <<leases, held>>
              \/ /\ ~closed /\ pooled = hand[u]
                 /\ leases' = [leases EXCEPT ![thread[u]] = 1] /\ Leased(u)
           /\ UNCHANGED <<session, subscribed, pooled, opening, joined>>
  <1>1. UNCHANGED <<session, subscribed, pooled, opening, canceled, closed, closing, thread, joined, over, scans>>
        /\ stage[u] = "resumed"
    BY DEF RecordLease, At
  <1>2. CASE Return(u) /\ UNCHANGED <<leases, held>>
    BY <1>1, <1>2, FrameReturns DEF Done
  <1>3. CASE /\ ~closed /\ pooled = hand[u]
             /\ leases' = [leases EXCEPT ![thread[u]] = 1] /\ held' = [held EXCEPT ![u] = TRUE]
             /\ Goto(u, "leased") /\ LeaveGate(u) /\ UNCHANGED hand
    BY <1>1, <1>3, FrameLeased
  <1> QED
    BY <1>1, <1>2, <1>3 DEF RecordLease

LEMMA ReleaseEffect ==
    ASSUME PoolTypes, NEW u \in User, Release(u)
    PROVE  /\ Frame(u) /\ stage[u] = "leased" /\ held'[u] = FALSE
           /\ \/ Enters(u) /\ stage'[u] = "release" /\ UNCHANGED hand
              \/ stage'[u] = "done" /\ hand'[u] = None /\ UNCHANGED gate
           /\ UNCHANGED <<session, subscribed, pool, joined>>
  <1>1. UNCHANGED <<session, subscribed, pool, thread, joined, over, scans>>
        /\ stage[u] = "leased" /\ held' = [held EXCEPT ![u] = FALSE]
    BY DEF Release, At
  <1>2. /\ hand \in [User -> Session \cup {None}] /\ gate \in [Thread -> User \cup {None}]
        /\ held \in [User -> BOOLEAN] /\ thread[u] \in Thread
    BY DEF PoolTypes
  <1>3. held' \in [User -> BOOLEAN] /\ held'[u] = FALSE /\ \A v \in User \ {u} : held'[v] = held[v]
    BY <1>1, <1>2
  <1>4. {"release", "done"} \subseteq UserLabel
    BY DEF UserLabel
  <1>5. CASE Enters(u) /\ Goto(u, "release") /\ UNCHANGED hand
    <2>1. gate' \in [Thread -> User \cup {None}]
      BY <1>2, <1>5 DEF Enters
    <2> QED
      BY <1>1, <1>2, <1>3, <1>4, <1>5, <2>1, FrameGoes DEF pool
  <1>6. CASE Goto(u, "done") /\ Take(u, None) /\ UNCHANGED gate
    <2>1. hand' \in [User -> Session \cup {None}] /\ hand'[u] = None /\ \A v \in User \ {u} : hand'[v] = hand[v]
      BY <1>6, Takes
    <2> QED
      BY <1>1, <1>2, <1>3, <1>4, <1>6, <2>1, FrameGoes DEF pool
  <1> QED
    BY <1>1, <1>5, <1>6 DEF Release, Enters

LEMMA UnsubscribeEffect ==
    ASSUME PoolTypes, NEW u \in User, Unsubscribe(u)
    PROVE  /\ Frame(u) /\ stage[u] = "release"
           /\ \/ Done(u) /\ (leases[thread[u]] = 0 \/ pooled = None) /\ UNCHANGED leases
              \/ /\ Done(u) /\ leases[thread[u]] > 1
                 /\ leases' = [leases EXCEPT ![thread[u]] = @ - 1]
              \/ /\ leases[thread[u]] = 1 /\ pooled # None
                 /\ leases' = [leases EXCEPT ![thread[u]] = 0]
                 /\ hand'[u] = pooled /\ stage'[u] = "unsubscribe" /\ UNCHANGED gate
           /\ UNCHANGED <<session, subscribed, pooled, opening, joined, held>>
  <1>1. UNCHANGED <<session, subscribed, pooled, opening, canceled, closed, closing, users, scans>> /\ stage[u] = "release"
    BY DEF Unsubscribe, At
  <1>2. /\ gate \in [Thread -> User \cup {None}] /\ held \in [User -> BOOLEAN] /\ pooled \in Session \cup {None}
    BY DEF PoolTypes
  <1>3. "unsubscribe" \in UserLabel
    BY DEF UserLabel
  <1>4. CASE Return(u) /\ (leases[thread[u]] = 0 \/ pooled = None) /\ UNCHANGED leases
    BY <1>1, <1>4, FrameReturns DEF users, Done
  <1>5. CASE Return(u) /\ leases[thread[u]] > 1 /\ leases' = [leases EXCEPT ![thread[u]] = @ - 1]
    BY <1>1, <1>5, FrameReturns DEF users, Done
  <1>6. CASE /\ leases[thread[u]] = 1 /\ pooled # None /\ leases' = [leases EXCEPT ![thread[u]] = 0]
             /\ Take(u, pooled) /\ Goto(u, "unsubscribe") /\ UNCHANGED gate
    <2>1. hand' \in [User -> Session \cup {None}] /\ hand'[u] = pooled /\ \A v \in User \ {u} : hand'[v] = hand[v]
      BY <1>2, <1>6, Takes
    <2> QED
      BY <1>1, <1>2, <1>3, <1>6, <2>1, FrameGoes DEF users
  <1> QED
    BY <1>1, <1>4, <1>5, <1>6 DEF Unsubscribe, users

LEMMA ThreadUnsubscribeEffect ==
    ASSUME PoolTypes, NEW u \in User, ThreadUnsubscribe(u)
    PROVE  /\ Frame(u) /\ stage[u] = "unsubscribe" /\ Done(u)
           /\ subscribed' \in {subscribed, subscribed \ {<<hand[u], thread[u]>>}}
           /\ UNCHANGED <<session, pool, joined, held>>
  <1>1. UNCHANGED <<session, pool, users, scans>> /\ stage[u] = "unsubscribe" /\ Return(u)
    BY DEF ThreadUnsubscribe, At
  <1>2. Frame(u) /\ Done(u)
    BY <1>1, FrameReturns DEF users, pool, Done
  <1> QED
    BY <1>1, <1>2 DEF ThreadUnsubscribe, users

\* A reader's step touches its own connection only.
ReaderFrame(r) ==
    /\ stage' \in [User \cup Reader -> Label]
    /\ \A v \in User : stage'[v] = stage[v]
    /\ \A q \in Reader : stage'[q] \in ReaderLabel
    /\ \A q \in Reader \ {r} : stage'[q] = stage[q]
    /\ UNCHANGED <<session, subscribed, pool, gate, hand, users, fits>>

LEMMA ReaderGoes ==
    ASSUME PoolTypes, NEW r \in Reader, NEW l \in ReaderLabel, Goto(r, l),
           UNCHANGED <<session, subscribed, pool, gate, hand, users, fits>>
    PROVE  ReaderFrame(r) /\ stage'[r] = l
  <1>1. r \notin User
    BY PoolAssumption
  <1>2. stage' = [stage EXCEPT ![r] = l] /\ l \in Label
    BY DEF Goto, Label
  <1>3. stage \in [User \cup Reader -> Label] /\ \A q \in Reader : stage[q] \in ReaderLabel
    BY DEF PoolTypes
  <1>4. stage' \in [User \cup Reader -> Label] /\ stage'[r] = l /\ \A p \in (User \cup Reader) \ {r} : stage'[p] = stage[p]
    BY <1>2, <1>3
  <1> QED
    BY <1>1, <1>3, <1>4 DEF ReaderFrame
-----------------------------------------------------------------------------
(* Types. *)

LEMMA UserTyped ==
    ASSUME PoolTypes, NEW u \in User, Frame(u),
           session' \in [Session -> {"unused", "open", "detached"}],
           subscribed' \subseteq Session \X Thread,
           pooled' \in Session \cup {None}, opening' \in User \cup {None},
           leases' \in [Thread -> Nat],
           joined' \in [User -> [done : BOOLEAN, session : Session \cup {None}]]
    PROVE  PoolTypes'
  <1>1. /\ closed' \in BOOLEAN /\ closing' \subseteq Session /\ thread' \in [User -> Thread]
        /\ own' \in [Reader -> {"none", "open", "dead"}] /\ over' \in [User -> BOOLEAN]
        /\ fits' \in 0..Page /\ limit' \in [Reader -> 1..Page] /\ pass' \in [Reader -> {"turns", "items", "events"}]
    BY DEF PoolTypes, Frame, scans
  <1>2. /\ gate' \in [Thread -> User \cup {None}] /\ stage' \in [User \cup Reader -> Label]
        /\ \A v \in User : stage'[v] \in UserLabel
        /\ \A r \in Reader : stage'[r] \in ReaderLabel
        /\ hand' \in [User -> Session \cup {None}] /\ held' \in [User -> BOOLEAN]
    BY DEF PoolTypes, Frame
  <1> QED
    BY <1>1, <1>2 DEF PoolTypes

LEMMA UserStepTyped ==
    ASSUME PoolTypes, HandInv, NEW u \in User, UserStep(u)
    PROVE  PoolTypes' /\ Frame(u)
  <1>1. /\ session \in [Session -> {"unused", "open", "detached"}] /\ subscribed \subseteq Session \X Thread
        /\ pooled \in Session \cup {None} /\ opening \in User \cup {None}
        /\ leases \in [Thread -> Nat] /\ thread[u] \in Thread /\ hand[u] \in Session \cup {None}
        /\ joined \in [User -> [done : BOOLEAN, session : Session \cup {None}]]
    BY DEF PoolTypes
  <1>2. CASE Begin(u)
    BY <1>1, <1>2, BeginEffect, UserTyped DEF pool
  <1>3. CASE EnterGate(u)
    BY <1>1, <1>3, EnterGateEffect, UserTyped DEF pool
  <1>4. CASE GetSession(u)
    <2>1. UNCHANGED <<session, subscribed, joined, pooled, leases>> /\ opening' \in User \cup {None} /\ Frame(u)
      BY <1>1, <1>4, GetSessionEffect DEF pool
    <2> QED
      BY <1>1, <2>1, UserTyped
  <1>5. CASE Join(u)
    <2>1. Waits \in [done : BOOLEAN, session : Session \cup {None}]
      BY DEF Waits
    <2>2. UNCHANGED <<session, subscribed, opening, pooled, leases>> /\ joined' = [joined EXCEPT ![u] = Waits] /\ Frame(u)
      BY <1>5, JoinEffect DEF pool
    <2>3. joined' \in [User -> [done : BOOLEAN, session : Session \cup {None}]]
      BY <1>1, <2>1, <2>2
    <2> QED
      BY <1>1, <2>2, <2>3, UserTyped
  <1>6. CASE OpenEndpoint(u)
    <2>1. UNCHANGED <<subscribed, opening, pooled, leases, joined>> /\ Frame(u)
      BY <1>6, OpenEndpointEffect DEF pool
    <2>2. session' \in [Session -> {"unused", "open", "detached"}]
      BY <1>1, <1>6, OpenEndpointEffect
    <2> QED
      BY <1>1, <2>1, <2>2, UserTyped
  <1>7. CASE Publish(u)
    <2>1. /\ UNCHANGED <<session, subscribed, leases>> /\ opening' = None /\ Frame(u) /\ pooled' \in {pooled, hand[u]}
          /\ joined' \in [User -> [done : BOOLEAN, session : Session \cup {None}]]
      BY <1>7, PublishEffect
    <2> QED
      BY <1>1, <2>1, UserTyped
  <1>8. CASE Discard(u)
    <2>1. UNCHANGED <<opening, pooled, leases, joined>> /\ Frame(u)
      BY <1>8, DiscardEffect DEF pool
    <2>2. session' \in [Session -> {"unused", "open", "detached"}] /\ subscribed' \subseteq Session \X Thread
      BY <1>1, <1>8, DiscardEffect DEF Detached, Dropped
    <2> QED
      BY <1>1, <2>1, <2>2, UserTyped
  <1>9. CASE Call(u)
    BY <1>1, <1>9, CallEffect, UserTyped DEF pool
  <1>10. CASE Subscribe(u)
    <2>1. UNCHANGED <<session, subscribed, pooled, opening, joined>> /\ Frame(u)
      BY <1>10, SubscribeEffect
    <2>2. leases' \in [Thread -> Nat]
      BY <1>1, <1>10, SubscribeEffect
    <2> QED
      BY <1>1, <2>1, <2>2, UserTyped
  <1>11. CASE ResumeThread(u)
    <2>1. UNCHANGED <<session, opening, pooled, leases, joined>> /\ Frame(u)
      BY <1>11, ResumeEffect DEF pool
    <2>2. hand[u] # None
      BY <1>11, ResumeEffect DEF HandInv, Uses
    <2>3. subscribed' \subseteq Session \X Thread
      BY <1>1, <1>11, <2>2, ResumeEffect
    <2> QED
      BY <1>1, <2>1, <2>3, UserTyped
  <1>12. CASE RecordLease(u)
    <2>1. UNCHANGED <<session, subscribed, pooled, opening, joined>> /\ Frame(u)
      BY <1>12, RecordLeaseEffect
    <2>2. leases' \in [Thread -> Nat]
      BY <1>1, <1>12, RecordLeaseEffect
    <2> QED
      BY <1>1, <2>1, <2>2, UserTyped
  <1>13. CASE Release(u)
    BY <1>1, <1>13, ReleaseEffect, UserTyped DEF pool
  <1>14. CASE Unsubscribe(u)
    <2>1. UNCHANGED <<session, subscribed, pooled, opening, joined>> /\ Frame(u)
      BY <1>14, UnsubscribeEffect
    <2>2. leases' \in [Thread -> Nat]
      BY <1>1, <1>14, UnsubscribeEffect
    <2> QED
      BY <1>1, <2>1, <2>2, UserTyped
  <1>15. CASE ThreadUnsubscribe(u)
    <2>1. UNCHANGED <<session, opening, pooled, leases, joined>> /\ Frame(u) /\ subscribed' \subseteq subscribed
      BY <1>15, ThreadUnsubscribeEffect DEF pool
    <2> QED
      BY <1>1, <2>1, UserTyped
  <1> QED
    BY <1>2, <1>3, <1>4, <1>5, <1>6, <1>7, <1>8, <1>9, <1>10, <1>11, <1>12, <1>13, <1>14, <1>15 DEF UserStep

\* The isolated sessions: types and the invariant of the readers together.
LEMMA ReaderStepInv ==
    ASSUME PoolTypes, ReaderInv, NEW r \in Reader, ReaderStep(r)
    PROVE  PoolTypes' /\ ReaderFrame(r) /\ ReaderInv'
  <1> DEFINE Rest == UNCHANGED <<session, subscribed, pool, gate, hand, users, fits>>
  <1>1. /\ own \in [Reader -> {"none", "open", "dead"}] /\ fits \in 0..Page /\ limit \in [Reader -> 1..Page]
        /\ pass \in [Reader -> {"turns", "items", "events"}] /\ Page \in Nat \ {0}
        /\ stage[r] \in ReaderLabel
    BY PoolAssumption DEF PoolTypes
  \* What a step leaves true of r is enough: the other readers keep what they have.
  <1>2. ASSUME ReaderFrame(r), own' \in [Reader -> {"none", "open", "dead"}], limit' \in [Reader -> 1..Page],
               pass' \in [Reader -> {"turns", "items", "events"}],
               \A q \in Reader \ {r} : own'[q] = own[q] /\ limit'[q] = limit[q],
               stage'[r] \in ReaderEnded => own'[r] = "none", stage'[r] \in Alive => own'[r] = "open",
               stage'[r] = "detach_oversized" => fits < limit'[r],
               stage'[r] \in {"too_large", "done_too_large"} => fits = 0
        PROVE  PoolTypes' /\ ReaderInv'
    <2>1. UNCHANGED <<session, subscribed, pooled, opening, closed, closing, leases, gate, hand, thread, joined, held, over, fits>>
      BY <1>2 DEF ReaderFrame, pool, users
    <2>2. PoolTypes'
      BY <1>2, <2>1 DEF PoolTypes, ReaderFrame
    <2>3. ReaderInv'
      BY <1>2, <2>1 DEF ReaderInv, ReaderFrame
    <2> QED
      BY <2>2, <2>3
  <1>3. CASE OpenIsolated(r)
    <2>1. /\ Rest /\ UNCHANGED <<limit, pass>> /\ stage[r] = "idle"
          /\ \/ Goto(r, "failed") /\ own' = own
             \/ own' = [own EXCEPT ![r] = "open"] /\ (Goto(r, "isolated") \/ Goto(r, "wrong"))
      BY <1>3 DEF OpenIsolated, At, scans
    <2>2. own[r] = "none"
      BY <2>1 DEF ReaderInv, ReaderEnded
    <2>3. {"failed", "isolated", "wrong"} \subseteq ReaderLabel
      BY DEF ReaderLabel
    <2>4. /\ ReaderFrame(r)
          /\ \/ stage'[r] = "failed" /\ own' = own
             \/ stage'[r] \in {"isolated", "wrong"} /\ own' = [own EXCEPT ![r] = "open"]
      BY <2>1, <2>3, ReaderGoes
    <2> QED
      BY <1>1, <1>2, <2>1, <2>2, <2>4 DEF ReaderEnded, Alive
  <1>4. CASE CheckClosed(r)
    <2>1. /\ Rest /\ UNCHANGED <<own, limit, pass>>
          /\ \/ stage[r] = "isolated" /\ (Goto(r, "attach") \/ Goto(r, "read"))
             \/ Goto(r, "detach_error")
      BY <1>4 DEF CheckClosed, At, scans
    <2>2. stage[r] = "isolated" => own[r] = "open"
      BY DEF ReaderInv, Alive
    <2>3. {"attach", "read", "detach_error"} \subseteq ReaderLabel
      BY DEF ReaderLabel
    <2>4. /\ ReaderFrame(r)
          /\ \/ stage[r] = "isolated" /\ stage'[r] \in {"attach", "read"}
             \/ stage'[r] = "detach_error"
      BY <2>1, <2>3, ReaderGoes
    <2> QED
      BY <1>1, <1>2, <2>1, <2>2, <2>4 DEF ReaderEnded, Alive
  <1>5. CASE AttachStream(r) \/ CloseStream(r)
    <2>1. /\ Rest /\ UNCHANGED <<own, limit, pass>>
          /\ \/ stage[r] = "attach" /\ Goto(r, "streaming")
             \/ Goto(r, "detach_error")
             \/ Goto(r, "detach_ok")
      BY <1>5 DEF AttachStream, CloseStream, At, scans
    <2>2. stage[r] = "attach" => own[r] = "open"
      BY DEF ReaderInv, Alive
    <2>3. {"streaming", "detach_error", "detach_ok"} \subseteq ReaderLabel
      BY DEF ReaderLabel
    <2>4. /\ ReaderFrame(r)
          /\ \/ stage[r] = "attach" /\ stage'[r] = "streaming"
             \/ stage'[r] \in {"detach_error", "detach_ok"}
      BY <2>1, <2>3, ReaderGoes
    <2> QED
      BY <1>1, <1>2, <2>1, <2>2, <2>4 DEF ReaderEnded, Alive
  <1>6. CASE ReadPages(r)
    <2>1. /\ Rest /\ UNCHANGED <<limit, pass>>
          /\ \/ Goto(r, "detach_ok") /\ own' = own
             \/ limit[r] > fits /\ Goto(r, "detach_oversized") /\ own' = [own EXCEPT ![r] = "dead"]
             \/ Goto(r, "detach_error") /\ own' = own
      BY <1>6 DEF ReadPages
    <2>2. {"detach_oversized", "detach_error", "detach_ok"} \subseteq ReaderLabel
      BY DEF ReaderLabel
    <2>3. /\ ReaderFrame(r)
          /\ \/ stage'[r] \in {"detach_ok", "detach_error"} /\ own' = own
             \/ limit[r] > fits /\ stage'[r] = "detach_oversized" /\ own' = [own EXCEPT ![r] = "dead"]
      BY <2>1, <2>2, ReaderGoes
    <2> QED
      BY <1>1, <1>2, <2>1, <2>3 DEF ReaderEnded, Alive
  <1>7. CASE DetachReader(r)
    <2>1. /\ Rest /\ UNCHANGED pass /\ own' = [own EXCEPT ![r] = "none"]
          /\ \/ limit' = limit /\ (Goto(r, "done") \/ Goto(r, "failed"))
             \/ stage[r] = "detach_oversized" /\ limit[r] = 1 /\ limit' = limit /\ Goto(r, "too_large")
             \/ limit[r] > 1 /\ limit' = [limit EXCEPT ![r] = @ \div 2] /\ Goto(r, "idle")
      BY <1>7 DEF DetachReader, At
    <2>2. {"done", "failed", "too_large", "idle"} \subseteq ReaderLabel
      BY DEF ReaderLabel
    <2>3. /\ ReaderFrame(r)
          /\ \/ stage'[r] \in {"done", "failed"} /\ limit' = limit
             \/ stage'[r] = "too_large" /\ stage[r] = "detach_oversized" /\ limit[r] = 1 /\ limit' = limit
             \/ stage'[r] = "idle" /\ limit[r] > 1 /\ limit' = [limit EXCEPT ![r] = @ \div 2]
      BY <2>1, <2>2, ReaderGoes
    <2>4. limit[r] > 1 => limit[r] \div 2 \in 1..Page
      <3>1. limit[r] \in Nat /\ limit[r] <= Page /\ Page \in Nat
        BY <1>1
      <3> QED
        BY <3>1
    <2>5. limit' \in [Reader -> 1..Page] /\ \A q \in Reader \ {r} : limit'[q] = limit[q]
      BY <1>1, <2>3, <2>4
    <2>6. stage[r] = "detach_oversized" /\ limit[r] = 1 => fits = 0
      <3>1. stage[r] = "detach_oversized" => fits < limit[r]
        BY DEF ReaderInv
      <3>2. fits \in Nat
        BY <1>1
      <3> QED
        BY <3>1, <3>2
    <2>7. own' \in [Reader -> {"none", "open", "dead"}] /\ own'[r] = "none" /\ \A q \in Reader \ {r} : own'[q] = own[q]
      BY <1>1, <2>1
    <2>8. stage'[r] \in {"done", "failed", "too_large", "idle"} /\ pass' = pass /\ (stage'[r] = "too_large" => fits = 0)
      BY <2>1, <2>3, <2>6
    <2> QED
      BY <1>1, <1>2, <2>3, <2>5, <2>7, <2>8 DEF ReaderEnded, Alive
  <1>8. CASE FallBack(r)
    <2>1. /\ Rest /\ UNCHANGED own /\ stage[r] \in {"failed", "too_large"}
          /\ \/ pass' = [pass EXCEPT ![r] = "items"] /\ limit' = [limit EXCEPT ![r] = Page] /\ Goto(r, "idle")
             \/ stage[r] = "failed" /\ Goto(r, "done_error") /\ UNCHANGED <<pass, limit>>
             \/ stage[r] = "too_large" /\ Goto(r, "done_too_large") /\ UNCHANGED <<pass, limit>>
      BY <1>8 DEF FallBack, At
    <2>2. {"idle", "done_error", "done_too_large"} \subseteq ReaderLabel
      BY DEF ReaderLabel
    <2>3. /\ ReaderFrame(r)
          /\ \/ /\ stage'[r] = "idle"
                /\ pass' = [pass EXCEPT ![r] = "items"] /\ limit' = [limit EXCEPT ![r] = Page]
             \/ stage'[r] = "done_error" /\ UNCHANGED <<pass, limit>>
             \/ stage'[r] = "done_too_large" /\ stage[r] = "too_large" /\ UNCHANGED <<pass, limit>>
      BY <2>1, <2>2, ReaderGoes
    <2>4. own[r] = "none" /\ (stage[r] = "too_large" => fits = 0)
      BY <2>1 DEF ReaderInv, ReaderEnded
    <2>5. /\ limit' \in [Reader -> 1..Page] /\ \A q \in Reader \ {r} : limit'[q] = limit[q]
          /\ pass' \in [Reader -> {"turns", "items", "events"}]
      BY <1>1, <2>3
    <2>6. stage'[r] \in {"idle", "done_error", "done_too_large"} /\ (stage'[r] = "done_too_large" => fits = 0)
      BY <2>3, <2>4
    <2> QED
      BY <1>1, <1>2, <2>1, <2>3, <2>4, <2>5, <2>6 DEF ReaderEnded, Alive
  <1> QED
    BY <1>3, <1>4, <1>5, <1>6, <1>7, <1>8 DEF ReaderStep
-----------------------------------------------------------------------------
(* The gate of a thread. *)

Inside == {"resume", "resumed", "release", "unsubscribe"}

LEMMA GateKept ==
    ASSUME PoolTypes, GateInv, NEW u \in User, Frame(u),
           \/ /\ gate' = gate
              /\ gate[thread[u]] = u => stage'[u] \in Behind
              /\ stage'[u] \in Inside => gate[thread[u]] = u
           \/ Enters(u) /\ stage'[u] \in Behind
           \/ Done(u) \/ Leased(u)
    PROVE  GateInv'
  <1>1. /\ gate \in [Thread -> User \cup {None}] /\ thread \in [User -> Thread] /\ None \notin User
    BY PoolAssumption DEF PoolTypes
  <1>2. thread' = thread /\ gate' \in [Thread -> User \cup {None}] /\ \A v \in User \ {u} : stage'[v] = stage[v]
    BY DEF Frame
  <1>3. /\ \A t \in Thread : gate[t] # None => thread[gate[t]] = t /\ stage[gate[t]] \in Behind
        /\ \A v \in User : stage[v] \in Inside => gate[thread[v]] = v
    BY DEF GateInv, InGate, Inside
  <1>4. CASE /\ gate' = gate
             /\ gate[thread[u]] = u => stage'[u] \in Behind
             /\ stage'[u] \in Inside => gate[thread[u]] = u
    BY <1>1, <1>2, <1>3, <1>4 DEF GateInv, InGate, Inside
  <1>5. CASE Enters(u) /\ stage'[u] \in Behind
    <2>1. \A t \in Thread : gate'[t] = IF t = thread[u] THEN u ELSE gate[t]
      BY <1>1, <1>5 DEF Enters
    <2>2. \A t \in Thread : gate'[t] # None => thread[gate'[t]] = t /\ stage'[gate'[t]] \in Behind
      BY <1>1, <1>2, <1>3, <1>5, <2>1
    <2>3. \A v \in User : stage'[v] \in Inside => gate'[thread[v]] = v
      BY <1>1, <1>2, <1>3, <1>5, <2>1 DEF Enters
    <2> QED
      BY <1>2, <2>2, <2>3 DEF GateInv, InGate, Inside
  <1>6. CASE Done(u) \/ Leased(u)
    <2>1. /\ stage'[u] \notin Inside
          /\ \A t \in Thread : gate'[t] = IF t = thread[u] /\ gate[t] = u THEN None ELSE gate[t]
      BY <1>6 DEF Done, Leased, Inside
    <2>2. \A t \in Thread : gate'[t] # None => gate'[t] = gate[t] /\ gate[t] # u
      BY <1>1, <1>3, <2>1
    <2>3. \A t \in Thread : gate'[t] # None => thread[gate'[t]] = t /\ stage'[gate'[t]] \in Behind
      BY <1>1, <1>2, <1>3, <2>2
    <2>4. \A v \in User : stage'[v] \in Inside => gate'[thread[v]] = v
      BY <1>1, <1>2, <1>3, <2>1
    <2> QED
      BY <1>2, <2>3, <2>4 DEF GateInv, InGate, Inside
  <1> QED
    BY <1>4, <1>5, <1>6

LEMMA UserGate ==
    ASSUME PoolTypes, GateInv, NEW u \in User, UserStep(u), Frame(u)
    PROVE  GateInv'
  <1>1. gate[thread[u]] = u => stage[u] \in Behind
    BY PoolAssumption DEF GateInv, PoolTypes
  <1>2. stage[u] \in {"resume", "resumed", "release", "unsubscribe"} => gate[thread[u]] = u
    BY DEF GateInv, InGate
  <1>3. CASE Begin(u) \/ EnterGate(u)
    <2>1. CASE Begin(u)
      BY <1>1, <2>1, BeginEffect, GateKept DEF Behind, Inside
    <2>2. CASE EnterGate(u)
      BY <1>1, <2>2, EnterGateEffect, GateKept DEF Behind, Inside
    <2> QED
      BY <1>3, <2>1, <2>2
  <1>4. CASE GetSession(u)
    <2>1. Done(u) \/ (gate' = gate /\ stage'[u] \in {"have", "join", "open"})
      BY <1>4, GetSessionEffect
    <2> QED
      BY <2>1, GateKept DEF Behind, Inside
  <1>5. CASE Join(u)
    <2>1. Done(u) \/ (gate' = gate /\ stage'[u] = "have")
      BY <1>5, JoinEffect
    <2> QED
      BY <2>1, GateKept DEF Behind, Inside
  <1>6. CASE OpenEndpoint(u)
    <2>1. gate' = gate /\ stage'[u] \in {"opened", "wrong", "failed"}
      BY <1>6, OpenEndpointEffect
    <2> QED
      BY <2>1, GateKept DEF Behind, Inside
  <1>7. CASE Publish(u)
    <2>1. Done(u) \/ (gate' = gate /\ stage'[u] \in {"have", "discard"})
      BY <1>7, PublishEffect
    <2> QED
      BY <2>1, GateKept DEF Behind, Inside
  <1>8. CASE Discard(u) \/ Call(u) \/ ThreadUnsubscribe(u)
    <2>1. Done(u)
      BY <1>8, DiscardEffect, CallEffect, ThreadUnsubscribeEffect
    <2> QED
      BY <2>1, GateKept
  <1>9. CASE Subscribe(u)
    <2>1. Done(u) \/ Leased(u) \/ (gate' = gate /\ stage'[u] = "resume" /\ gate[thread[u]] = u)
      BY <1>9, SubscribeEffect
    <2> QED
      BY <2>1, GateKept DEF Behind, Inside
  <1>10. CASE ResumeThread(u)
    <2>1. Done(u) \/ (gate' = gate /\ stage'[u] = "resumed" /\ gate[thread[u]] = u)
      BY <1>2, <1>10, ResumeEffect
    <2> QED
      BY <2>1, GateKept DEF Behind, Inside
  <1>11. CASE RecordLease(u)
    <2>1. Done(u) \/ Leased(u)
      BY <1>11, RecordLeaseEffect
    <2> QED
      BY <2>1, GateKept
  <1>12. CASE Release(u)
    <2>1. /\ stage[u] = "leased"
          /\ \/ Enters(u) /\ stage'[u] = "release"
             \/ gate' = gate /\ stage'[u] = "done"
      BY <1>12, ReleaseEffect
    <2>2. gate[thread[u]] # u
      BY <1>1, <2>1 DEF Behind
    <2> QED
      BY <2>1, <2>2, GateKept DEF Behind, Inside
  <1>13. CASE Unsubscribe(u)
    <2>1. Done(u) \/ (gate' = gate /\ stage'[u] = "unsubscribe" /\ gate[thread[u]] = u)
      BY <1>2, <1>13, UnsubscribeEffect
    <2> QED
      BY <2>1, GateKept DEF Behind, Inside
  <1> QED
    BY <1>3, <1>4, <1>5, <1>6, <1>7, <1>8, <1>9, <1>10, <1>11, <1>12, <1>13 DEF UserStep
-----------------------------------------------------------------------------
(* Who opens, whose session it is, and what is in hand. *)

LEMMA OpeningKept ==
    ASSUME PoolTypes, OpeningInv, NEW u \in User, Frame(u), opening' = opening, pooled' = pooled,
           stage'[u] \in Opens => stage[u] \in Opens
    PROVE  OpeningInv'
  <1>1. closed' = closed /\ closing' = closing /\ \A v \in User \ {u} : stage'[v] = stage[v]
    BY DEF Frame
  <1>2. \A v \in User : stage'[v] \in Opens => opening = v
    BY <1>1 DEF OpeningInv
  <1> QED
    BY <1>1, <1>2 DEF OpeningInv

LEMMA UserOpening ==
    ASSUME PoolTypes, OpeningInv, NEW u \in User, UserStep(u), Frame(u)
    PROVE  OpeningInv'
  <1>1. closed' = closed /\ closing' = closing /\ \A v \in User \ {u} : stage'[v] = stage[v]
    BY DEF Frame
  <1>2. CASE Begin(u) \/ EnterGate(u) \/ Discard(u) \/ Call(u) \/ ThreadUnsubscribe(u)
    <2>1. opening' = opening /\ pooled' = pooled /\ stage'[u] \in {"gate", "session", "done"}
      <3>1. CASE Begin(u) \/ EnterGate(u)
        BY <3>1, BeginEffect, EnterGateEffect DEF pool
      <3>2. CASE Discard(u) \/ Call(u) \/ ThreadUnsubscribe(u)
        BY <3>2, DiscardEffect, CallEffect, ThreadUnsubscribeEffect DEF pool, Done
      <3> QED
        BY <1>2, <3>1, <3>2
    <2> QED
      BY <2>1, OpeningKept DEF Opens
  <1>3. CASE Join(u) \/ Subscribe(u) \/ ResumeThread(u)
    <2>1. opening' = opening /\ pooled' = pooled /\ stage'[u] \in {"have", "resume", "resumed", "leased", "done"}
      <3>1. CASE Join(u)
        BY <3>1, JoinEffect DEF pool, Done
      <3>2. CASE Subscribe(u)
        BY <3>2, SubscribeEffect DEF Done, Leased
      <3>3. CASE ResumeThread(u)
        BY <3>3, ResumeEffect DEF pool, Done
      <3> QED
        BY <1>3, <3>1, <3>2, <3>3
    <2> QED
      BY <2>1, OpeningKept DEF Opens
  <1>4. CASE RecordLease(u) \/ Release(u) \/ Unsubscribe(u)
    <2>1. opening' = opening /\ pooled' = pooled /\ stage'[u] \in {"leased", "release", "unsubscribe", "done"}
      <3>1. CASE RecordLease(u)
        BY <3>1, RecordLeaseEffect DEF Done, Leased
      <3>2. CASE Release(u)
        BY <3>2, ReleaseEffect DEF pool
      <3>3. CASE Unsubscribe(u)
        BY <3>3, UnsubscribeEffect DEF Done
      <3> QED
        BY <1>4, <3>1, <3>2, <3>3
    <2> QED
      BY <2>1, OpeningKept DEF Opens
  <1>5. CASE OpenEndpoint(u)
    <2>1. opening' = opening /\ pooled' = pooled /\ stage[u] = "open"
      BY <1>5, OpenEndpointEffect DEF pool
    <2> QED
      BY <2>1, OpeningKept DEF Opens
  <1>6. CASE GetSession(u)
    <2>1. CASE opening' = opening /\ pooled' = pooled /\ stage'[u] \in {"have", "join", "done"}
      BY <2>1, OpeningKept DEF Opens
    <2>2. CASE ~closed /\ pooled = None /\ opening = None /\ opening' = u /\ pooled' = pooled
      <3>1. \A v \in User \ {u} : stage'[v] \notin Opens
        BY <1>1, <2>2, PoolAssumption DEF OpeningInv
      <3> QED
        BY <1>1, <2>2, <3>1 DEF OpeningInv
    <2> QED
      BY <1>6, <2>1, <2>2, GetSessionEffect DEF pool, Done
  <1>7. CASE Publish(u)
    <2>1. /\ opening' = None /\ stage[u] \in Opens /\ stage'[u] \notin Opens
          /\ closed => pooled' = pooled
      BY <1>7, PublishEffect DEF Opens, Done
    <2>2. \A v \in User : stage'[v] \notin Opens
      BY <1>1, <2>1 DEF OpeningInv
    <2> QED
      BY <1>1, <2>1, <2>2 DEF OpeningInv
  <1> QED
    BY <1>2, <1>3, <1>4, <1>5, <1>6, <1>7 DEF UserStep

Owns == {"opened", "wrong", "discard"}

LEMMA HandKept ==
    ASSUME PoolTypes, HandInv, NEW u \in User, Frame(u), pooled' = pooled,
           \A s \in Session : session[s] # "unused" => session'[s] # "unused",
           \A v \in User : joined'[v].session # None /\ ~closed => joined'[v].session = pooled,
           stage'[u] \in Empty => hand'[u] = None,
           stage'[u] \in Uses => hand'[u] # None /\ (~closed => hand'[u] = pooled),
           stage'[u] \in Owns => hand'[u] # None /\ hand'[u] # pooled /\ session'[hand'[u]] # "unused",
           stage'[u] \in {"opened", "wrong"} => \A v \in User \ {u} : stage[v] = "discard" => hand'[u] # hand[v],
           stage'[u] = "discard" => \A v \in User \ {u} : stage[v] \notin {"opened", "wrong"}
    PROVE  HandInv'
  <1>1. closed' = closed /\ \A v \in User \ {u} : stage'[v] = stage[v] /\ hand'[v] = hand[v]
    BY DEF Frame
  <1>2. \A v \in User : hand[v] \in Session \cup {None}
    BY DEF PoolTypes
  <1>3. \A v \in User : stage'[v] \in Empty => hand'[v] = None
    BY <1>1 DEF HandInv
  <1>4. \A v \in User : stage'[v] \in Uses => hand'[v] # None /\ (~closed' => hand'[v] = pooled')
    BY <1>1 DEF HandInv
  <1>5. \A v \in User : stage'[v] \in Owns => hand'[v] # None /\ hand'[v] # pooled' /\ session'[hand'[v]] # "unused"
    BY <1>1, <1>2 DEF HandInv, Owns
  <1>6. ASSUME NEW v \in User, NEW w \in User, stage'[v] \in {"opened", "wrong"}, stage'[w] = "discard"
        PROVE  hand'[v] # hand'[w]
    <2>1. CASE v = u \/ w = u
      BY <1>1, <1>6, <2>1
    <2>2. CASE v # u /\ w # u
      BY <1>1, <1>6, <2>2 DEF HandInv
    <2> QED
      BY <2>1, <2>2
  <1>7. \A v \in User : joined'[v].session # None /\ ~closed' => joined'[v].session = pooled'
    BY <1>1
  <1> QED
    BY <1>3, <1>4, <1>5, <1>6, <1>7 DEF HandInv, Owns

\* The same for a step that opens, publishes and detaches nothing.
LEMMA HandMoves ==
    ASSUME PoolTypes, HandInv, NEW u \in User, Frame(u), UNCHANGED <<pooled, session>>,
           joined' = joined \/ joined' = [joined EXCEPT ![u] = Waits],
           \/ stage'[u] \in Empty /\ hand'[u] = None
           \/ stage'[u] \in Uses /\ hand'[u] # None /\ (~closed => hand'[u] = pooled)
           \/ stage'[u] = "release"
    PROVE  HandInv'
  <1>1. \A v \in User : joined'[v].session # None /\ ~closed => joined'[v].session = pooled
    <2>1. \A v \in User : joined[v].session # None /\ ~closed => joined[v].session = pooled
      BY DEF HandInv
    <2>2. joined \in [User -> [done : BOOLEAN, session : Session \cup {None}]]
      BY DEF PoolTypes
    <2>3. \A v \in User : joined'[v] = joined[v] \/ joined'[v].session = None
      BY <2>2 DEF Waits
    <2> QED
      BY <2>1, <2>3
  <1>2. CASE stage'[u] \in Empty /\ hand'[u] = None
    BY <1>1, <1>2, HandKept DEF Empty, Uses, Owns
  <1>3. CASE stage'[u] \in Uses /\ hand'[u] # None /\ (~closed => hand'[u] = pooled)
    BY <1>1, <1>3, HandKept DEF Empty, Uses, Owns
  <1>4. CASE stage'[u] = "release"
    BY <1>1, <1>4, HandKept DEF Empty, Uses, Owns
  <1> QED
    BY <1>2, <1>3, <1>4

LEMMA PublishHand ==
    ASSUME PoolTypes, OpeningInv, HandInv, NEW u \in User, Publish(u), Frame(u)
    PROVE  HandInv'
  <1>1. closed' = closed /\ \A v \in User \ {u} : stage'[v] = stage[v] /\ hand'[v] = hand[v]
    BY DEF Frame
  <1>2. stage[u] \in Opens /\ session' = session
    BY <1>1, PublishEffect DEF Opens
  <1>3. pooled = None /\ \A v \in User \ {u} : stage[v] \notin Opens
    BY <1>2, PoolAssumption DEF OpeningInv
  <1>4. CASE /\ stage[u] = "opened" /\ ~closed /\ pooled' = hand[u] /\ stage'[u] = "have" /\ hand' = hand
             /\ \A v \in User : joined'[v] = IF stage[v] = "join" THEN [done |-> TRUE, session |-> hand[u]] ELSE joined[v]
    \* Nobody had a session of the pool in hand: there was none.
    <2>1. \A v \in User \ {u} : stage[v] \notin Uses /\ stage[v] \notin {"opened", "wrong"} /\ (stage[v] = "discard" => hand[v] # hand[u])
      BY <1>3, <1>4 DEF HandInv, Opens
    <2>2. \A v \in User : joined'[v].session # None => joined'[v].session = hand[u]
      BY <1>3, <1>4 DEF HandInv
    <2>3. hand[u] # None
      BY <1>4 DEF HandInv
    <2>4. \A v \in User : stage'[v] \in Empty => hand'[v] = None
      BY <1>1, <1>4 DEF HandInv, Empty
    <2>5. \A v \in User : stage'[v] \in Uses => hand'[v] # None /\ hand'[v] = pooled'
      BY <1>1, <1>4, <2>1, <2>3
    <2>6. \A v \in User : stage'[v] \notin {"opened", "wrong"}
      BY <1>1, <1>4, <2>1
    <2>7. \A v \in User : stage'[v] = "discard" => hand'[v] # None /\ hand'[v] # pooled' /\ session'[hand'[v]] # "unused"
      BY <1>1, <1>2, <1>4, <2>1 DEF HandInv
    <2> QED
      BY <1>1, <1>4, <2>2, <2>4, <2>5, <2>6, <2>7 DEF HandInv
  <1>5. CASE /\ pooled' = pooled
             /\ \A v \in User : joined'[v] = IF stage[v] = "join" THEN [done |-> TRUE, session |-> None] ELSE joined[v]
             /\ \/ hand[u] # None /\ stage'[u] = "discard" /\ hand' = hand
                \/ Done(u)
    <2>1. \A v \in User : joined'[v].session # None /\ ~closed => joined'[v].session = pooled
      BY <1>5 DEF HandInv
    <2>2. \A v \in User \ {u} : stage[v] \notin {"opened", "wrong"}
      BY <1>3 DEF Opens
    <2>3. CASE hand[u] # None /\ stage'[u] = "discard" /\ hand' = hand
      <3>1. stage[u] \in {"opened", "wrong"}
        BY <1>2, <2>3 DEF HandInv, Opens, Empty
      <3>2. hand[u] # pooled /\ session'[hand[u]] # "unused"
        BY <1>2, <3>1 DEF HandInv
      <3> QED
        BY <1>2, <1>5, <2>1, <2>2, <2>3, <3>2, HandKept DEF Empty, Uses, Owns
    <2>4. CASE Done(u)
      BY <1>2, <1>5, <2>1, <2>4, HandKept DEF Done, Empty, Uses, Owns
    <2> QED
      BY <1>5, <2>3, <2>4
  <1>6. \/ /\ stage[u] = "opened" /\ ~closed /\ pooled' = hand[u] /\ stage'[u] = "have" /\ hand' = hand
           /\ \A v \in User : joined'[v] = IF stage[v] = "join" THEN [done |-> TRUE, session |-> hand[u]] ELSE joined[v]
        \/ /\ pooled' = pooled
           /\ \A v \in User : joined'[v] = IF stage[v] = "join" THEN [done |-> TRUE, session |-> None] ELSE joined[v]
           /\ \/ hand[u] # None /\ stage'[u] = "discard" /\ hand' = hand
              \/ Done(u)
    BY PublishEffect
  <1> QED
    BY <1>4, <1>5, <1>6

LEMMA UserHand ==
    ASSUME PoolTypes, OpeningInv, HandInv, NEW u \in User, UserStep(u), Frame(u)
    PROVE  HandInv'
  <1> USE DEF Empty, Uses
  <1>1. /\ stage[u] \in Empty => hand[u] = None
        /\ stage[u] \in Uses => hand[u] # None /\ (~closed => hand[u] = pooled)
        /\ stage[u] = "discard" => hand[u] # None
    BY DEF HandInv
  <1>2. CASE Begin(u) \/ EnterGate(u)
    <2>1. UNCHANGED <<pooled, session, joined>> /\ stage'[u] \in Empty /\ hand'[u] = None
      BY <1>1, <1>2, BeginEffect, EnterGateEffect DEF pool
    <2> QED
      BY <2>1, HandMoves
  <1>3. CASE GetSession(u)
    <2>1. /\ UNCHANGED <<pooled, session, joined>>
          /\ \/ stage'[u] \in Empty /\ hand'[u] = None
             \/ stage'[u] = "have" /\ pooled # None /\ hand'[u] = pooled
      BY <1>1, <1>3, GetSessionEffect DEF pool, Done
    <2> QED
      BY <2>1, HandMoves
  <1>4. CASE Join(u)
    <2>1. /\ UNCHANGED <<pooled, session>> /\ joined' = [joined EXCEPT ![u] = Waits]
          /\ \/ stage'[u] = "done" /\ hand'[u] = None
             \/ stage'[u] = "have" /\ joined[u].session # None /\ hand'[u] = joined[u].session
      BY <1>4, JoinEffect DEF pool, Done
    <2>2. joined[u].session # None /\ ~closed => joined[u].session = pooled
      BY DEF HandInv
    <2> QED
      BY <2>1, <2>2, HandMoves
  <1>5. CASE OpenEndpoint(u)
    <2>1. /\ UNCHANGED <<pooled, opening, joined>> /\ stage[u] = "open"
          /\ \/ \E s \in Session :
                   /\ session[s] = "unused" /\ session' = [session EXCEPT ![s] = "open"]
                   /\ hand'[u] = s /\ stage'[u] \in {"opened", "wrong"}
             \/ stage'[u] = "failed" /\ UNCHANGED <<session, hand>>
      BY <1>5, OpenEndpointEffect DEF pool
    <2>2. \A v \in User : joined'[v].session # None /\ ~closed => joined'[v].session = pooled
      BY <2>1 DEF HandInv
    <2>3. session \in [Session -> {"unused", "open", "detached"}] /\ None \notin Session
      BY PoolAssumption DEF PoolTypes
    <2>4. ASSUME NEW s \in Session, session[s] = "unused", session' = [session EXCEPT ![s] = "open"],
                 hand'[u] = s, stage'[u] \in {"opened", "wrong"}
          PROVE  HandInv'
      <3>1. \A x \in Session : session[x] # "unused" => session'[x] # "unused"
        BY <2>3, <2>4
      <3>2. s # None /\ s # pooled /\ session'[s] # "unused"
        BY <2>1, <2>3, <2>4, PoolAssumption DEF OpeningInv, Opens
      <3>3. \A v \in User \ {u} : stage[v] = "discard" => s # hand[v]
        BY <2>4 DEF HandInv
      <3> QED
        BY <2>1, <2>2, <2>4, <3>1, <3>2, <3>3, HandKept DEF Owns
    <2>5. CASE stage'[u] = "failed" /\ UNCHANGED <<session, hand>>
      <3>1. hand'[u] = None
        BY <1>1, <2>1, <2>5
      <3> QED
        BY <2>1, <2>5, <3>1, HandMoves
    <2> QED
      BY <2>1, <2>4, <2>5
  <1>6. CASE Publish(u)
    BY <1>6, PublishHand
  <1>7. CASE Discard(u)
    <2>1. UNCHANGED <<pooled, joined>> /\ session' = Detached({hand[u]}) /\ Done(u)
      BY <1>7, DiscardEffect DEF pool
    <2>2. \A s \in Session : session[s] # "unused" => session'[s] # "unused"
      BY <2>1 DEF Detached
    <2>3. \A v \in User : joined'[v].session # None /\ ~closed => joined'[v].session = pooled
      BY <2>1 DEF HandInv
    <2> QED
      BY <2>1, <2>2, <2>3, HandKept DEF Done, Owns
  <1>8. CASE Call(u) \/ ThreadUnsubscribe(u)
    <2>1. UNCHANGED <<pooled, session, joined>> /\ Done(u)
      BY <1>8, CallEffect, ThreadUnsubscribeEffect DEF pool
    <2> QED
      BY <2>1, HandMoves DEF Done
  <1>9. CASE Subscribe(u)
    <2>1. /\ UNCHANGED <<pooled, session, joined>> /\ stage[u] = "have"
          /\ \/ Done(u)
             \/ stage'[u] \in {"leased", "resume"} /\ hand' = hand
      BY <1>9, SubscribeEffect DEF Leased
    <2> QED
      BY <1>1, <2>1, HandMoves DEF Done
  <1>10. CASE ResumeThread(u)
    <2>1. /\ UNCHANGED <<pooled, session, joined>> /\ stage[u] = "resume"
          /\ \/ Done(u)
             \/ stage'[u] = "resumed" /\ hand' = hand
      BY <1>10, ResumeEffect DEF pool
    <2> QED
      BY <1>1, <2>1, HandMoves DEF Done
  <1>11. CASE RecordLease(u)
    <2>1. /\ UNCHANGED <<pooled, session, joined>> /\ stage[u] = "resumed"
          /\ \/ Done(u)
             \/ stage'[u] = "leased" /\ hand' = hand
      BY <1>11, RecordLeaseEffect DEF Leased
    <2> QED
      BY <1>1, <2>1, HandMoves DEF Done
  <1>12. CASE Release(u)
    <2>1. /\ UNCHANGED <<pooled, session, joined>>
          /\ \/ stage'[u] = "release"
             \/ stage'[u] = "done" /\ hand'[u] = None
      BY <1>12, ReleaseEffect DEF pool
    <2> QED
      BY <2>1, HandMoves
  <1>13. CASE Unsubscribe(u)
    <2>1. /\ UNCHANGED <<pooled, session, joined>>
          /\ \/ Done(u)
             \/ stage'[u] = "unsubscribe" /\ hand'[u] = pooled /\ pooled # None
      BY <1>13, UnsubscribeEffect
    <2> QED
      BY <2>1, HandMoves DEF Done
  <1> QED
    BY <1>2, <1>3, <1>4, <1>5, <1>6, <1>7, <1>8, <1>9, <1>10, <1>11, <1>12, <1>13 DEF UserStep

LEMMA OwnerKept ==
    ASSUME OwnerInv, NEW u \in User, Frame(u), UNCHANGED <<session, pooled>>,
           stage[u] \notin Owns \/ (stage'[u] \in Owns /\ hand'[u] = hand[u])
    PROVE  OwnerInv'
  <1>1. closed' = closed /\ closing' = closing /\ \A v \in User \ {u} : stage'[v] = stage[v] /\ hand'[v] = hand[v]
    BY DEF Frame
  <1> SUFFICES ASSUME NEW s \in Session, session'[s] = "open"
               PROVE  \/ s = pooled' /\ ~closed'
                      \/ s \in closing'
                      \/ \E v \in User : stage'[v] \in Owns /\ hand'[v] = s
    BY DEF OwnerInv, Owns
  <1>2. CASE \E v \in User : stage[v] \in Owns /\ hand[v] = s
    BY <1>1, <1>2
  <1> QED
    BY <1>1, <1>2 DEF OwnerInv, Owns

LEMMA UserOwner ==
    ASSUME PoolTypes, OpeningInv, HandInv, OwnerInv, NEW u \in User, UserStep(u), Frame(u)
    PROVE  OwnerInv'
  <1>1. closed' = closed /\ closing' = closing /\ \A v \in User \ {u} : stage'[v] = stage[v] /\ hand'[v] = hand[v]
    BY DEF Frame
  <1>2. CASE Begin(u) \/ EnterGate(u) \/ GetSession(u) \/ Join(u)
    <2>1. UNCHANGED <<session, pooled>> /\ stage[u] \in {"idle", "gate", "session", "join"}
      <3>1. CASE Begin(u) \/ EnterGate(u)
        BY <3>1, BeginEffect, EnterGateEffect DEF pool
      <3>2. CASE GetSession(u) \/ Join(u)
        BY <3>2, GetSessionEffect, JoinEffect DEF pool
      <3> QED
        BY <1>2, <3>1, <3>2
    <2> QED
      BY <2>1, OwnerKept DEF Owns
  <1>3. CASE Call(u) \/ Subscribe(u) \/ ResumeThread(u) \/ RecordLease(u)
    <2>1. UNCHANGED <<session, pooled>> /\ stage[u] \in {"have", "resume", "resumed"}
      <3>1. CASE Call(u) \/ Subscribe(u)
        BY <3>1, CallEffect, SubscribeEffect DEF pool
      <3>2. CASE ResumeThread(u) \/ RecordLease(u)
        BY <3>2, ResumeEffect, RecordLeaseEffect DEF pool
      <3> QED
        BY <1>3, <3>1, <3>2
    <2> QED
      BY <2>1, OwnerKept DEF Owns
  <1>4. CASE Release(u) \/ Unsubscribe(u) \/ ThreadUnsubscribe(u)
    <2>1. UNCHANGED <<session, pooled>> /\ stage[u] \in {"leased", "release", "unsubscribe"}
      BY <1>4, ReleaseEffect, UnsubscribeEffect, ThreadUnsubscribeEffect DEF pool
    <2> QED
      BY <2>1, OwnerKept DEF Owns
  <1>5. CASE OpenEndpoint(u)
    <2>1. CASE UNCHANGED session
      BY <1>5, <2>1, OpenEndpointEffect, OwnerKept DEF Owns, pool
    <2>2. ASSUME NEW x \in Session, session' = [session EXCEPT ![x] = "open"], hand'[u] = x, stage'[u] \in {"opened", "wrong"}
          PROVE  OwnerInv'
      <3>1. pooled' = pooled /\ stage[u] = "open"
        BY <1>5, OpenEndpointEffect DEF pool
      <3>2. \A s \in Session : session'[s] = "open" => session[s] = "open" \/ s = x
        BY <2>2 DEF PoolTypes
      <3>3. \A s \in Session : (\E v \in User : stage[v] \in Owns /\ hand[v] = s) =>
                                  \E v \in User : stage'[v] \in Owns /\ hand'[v] = s
        BY <1>1, <3>1 DEF Owns
      <3> QED
        BY <1>1, <2>2, <3>1, <3>2, <3>3 DEF OwnerInv, Owns
    <2> QED
      BY <1>5, <2>1, <2>2, OpenEndpointEffect
  <1>6. CASE Publish(u)
    <2>1. session' = session /\ hand[u] \in Session \cup {None} /\ None \notin Session
      BY <1>6, PublishEffect, PoolAssumption DEF PoolTypes
    <2>2. CASE ~closed /\ pooled' = hand[u] /\ pooled = None
      <3>1. \A s \in Session : (\E v \in User : stage[v] \in Owns /\ hand[v] = s) =>
                s = hand[u] \/ \E v \in User : stage'[v] \in Owns /\ hand'[v] = s
        BY <1>1
      <3> QED
        BY <1>1, <2>1, <2>2, <3>1 DEF OwnerInv, Owns
    <2>3. CASE pooled' = pooled /\ hand[u] # None /\ stage'[u] = "discard" /\ hand' = hand
      BY <2>1, <2>3, OwnerKept DEF Owns
    <2>4. CASE pooled' = pooled /\ hand[u] = None
      <3>1. \A s \in Session : (\E v \in User : stage[v] \in Owns /\ hand[v] = s) =>
                \E v \in User : stage'[v] \in Owns /\ hand'[v] = s
        BY <1>1, <2>1, <2>4
      <3> QED
        BY <1>1, <2>1, <2>4, <3>1 DEF OwnerInv, Owns
    <2>5. pooled = None
      BY <1>6, PublishEffect, PoolAssumption DEF OpeningInv, Opens
    <2> QED
      BY <1>6, <2>2, <2>3, <2>4, <2>5, PublishEffect
  <1>7. CASE Discard(u)
    <2>1. session' = [s \in Session |-> IF s = hand[u] THEN "detached" ELSE session[s]] /\ pooled' = pooled
      BY <1>7, DiscardEffect DEF Detached, pool
    <2>2. \A s \in Session : session'[s] = "open" => s # hand[u] /\ session[s] = "open"
      BY <2>1
    <2>3. \A s \in Session : s # hand[u] /\ (\E v \in User : stage[v] \in Owns /\ hand[v] = s) =>
              \E v \in User : stage'[v] \in Owns /\ hand'[v] = s
      BY <1>1
    <2> QED
      BY <1>1, <2>1, <2>2, <2>3 DEF OwnerInv, Owns
  <1> QED
    BY <1>2, <1>3, <1>4, <1>5, <1>6, <1>7 DEF UserStep
-----------------------------------------------------------------------------
(* Leases and subscriptions. *)

LEMMA Counting ==
    ASSUME NEW t \in Thread
    PROVE  /\ IsFiniteSet(Holders(t)) /\ IsFiniteSet(Takers(t))
           /\ Cardinality(Holders(t)) \in Nat /\ Cardinality(Takers(t)) \in Nat
           /\ Cardinality(Holders(t)) <= Cardinality(Takers(t))
           /\ Cardinality(Takers(t)) <= Cardinality(User)
  <1>1. IsFiniteSet(User) /\ Holders(t) \subseteq Takers(t) /\ Takers(t) \subseteq User
    BY PoolAssumption DEF Holders, Takers
  <1>2. IsFiniteSet(Takers(t)) /\ Cardinality(Takers(t)) <= Cardinality(User)
    BY <1>1, FS_Subset
  <1>3. IsFiniteSet(Holders(t)) /\ Cardinality(Holders(t)) <= Cardinality(Takers(t))
    BY <1>1, <1>2, FS_Subset
  <1> QED
    BY <1>2, <1>3, FS_CardinalityType

\* How a step of u moves it into and out of the two sets of its thread.
LEMMA CountMoves ==
    ASSUME PoolTypes, NEW u \in User, Frame(u)
    PROVE  /\ \A t \in Thread \ {thread[u]} : Holders(t)' = Holders(t) /\ Takers(t)' = Takers(t)
           /\ LET t == thread[u]
              IN  /\ Holders(t)' = IF stage'[u] \in {"leased", "release"} THEN Holders(t) \cup {u} ELSE Holders(t) \ {u}
                  /\ Takers(t)' = IF stage'[u] \in {"leased", "release", "done"} THEN Takers(t) \cup {u} ELSE Takers(t) \ {u}
                  /\ u \in Holders(t) <=> stage[u] \in {"leased", "release"}
                  /\ u \in Takers(t) <=> stage[u] \in {"leased", "release", "done"}
  <1>1. thread' = thread /\ \A v \in User \ {u} : stage'[v] = stage[v]
    BY DEF Frame
  <1>2. \A t \in Thread \ {thread[u]} : Holders(t)' = Holders(t) /\ Takers(t)' = Takers(t)
    BY <1>1 DEF Holders, Takers
  <1> DEFINE t == thread[u]
  <1>3. Holders(t)' = IF stage'[u] \in {"leased", "release"} THEN Holders(t) \cup {u} ELSE Holders(t) \ {u}
    BY <1>1 DEF Holders
  <1>4. Takers(t)' = IF stage'[u] \in {"leased", "release", "done"} THEN Takers(t) \cup {u} ELSE Takers(t) \ {u}
    BY <1>1 DEF Takers
  <1> QED
    BY <1>2, <1>3, <1>4 DEF Holders, Takers

Bit(b) == IF b THEN 1 ELSE 0
Holds(l) == Bit(l \in {"leased", "release"})
Took(l) == Bit(l \in {"leased", "release", "done"})

LEMMA CountKept ==
    ASSUME PoolTypes, CountInv, NEW u \in User, Frame(u), NEW d \in Int,
           leases' \in [Thread -> Nat], leases'[thread[u]] = leases[thread[u]] + d,
           \A t \in Thread \ {thread[u]} : leases'[t] = leases[t],
           d <= Took(stage'[u]) - Took(stage[u]),
           ~closed => Holds(stage'[u]) - Holds(stage[u]) <= d,
           held'[u] <=> stage'[u] = "leased"
    PROVE  CountInv'
  <1> DEFINE t == thread[u]
  <1>1. /\ leases \in [Thread -> Nat] /\ t \in Thread /\ thread' = thread /\ closed' = closed
        /\ \A v \in User \ {u} : stage'[v] = stage[v] /\ held'[v] = held[v]
    BY DEF PoolTypes, Frame
  <1> HIDE DEF t
  <1>2. Cardinality(Holders(t)') = Cardinality(Holders(t)) + Holds(stage'[u]) - Holds(stage[u])
    <2>1. IsFiniteSet(Holders(t)) /\ Cardinality(Holders(t)) \in Nat
      BY <1>1, Counting
    <2>2. /\ Cardinality(Holders(t) \cup {u}) = IF u \in Holders(t) THEN Cardinality(Holders(t)) ELSE Cardinality(Holders(t)) + 1
          /\ Cardinality(Holders(t) \ {u}) = IF u \in Holders(t) THEN Cardinality(Holders(t)) - 1 ELSE Cardinality(Holders(t))
      BY <2>1, FS_AddElement, FS_RemoveElement
    <2>3. /\ Holders(t)' = IF stage'[u] \in {"leased", "release"} THEN Holders(t) \cup {u} ELSE Holders(t) \ {u}
          /\ u \in Holders(t) <=> stage[u] \in {"leased", "release"}
      BY CountMoves DEF t
    <2> QED
      BY <2>1, <2>2, <2>3 DEF Holds, Bit
  <1>3. Cardinality(Takers(t)') = Cardinality(Takers(t)) + Took(stage'[u]) - Took(stage[u])
    <2>1. IsFiniteSet(Takers(t)) /\ Cardinality(Takers(t)) \in Nat
      BY <1>1, Counting
    <2>2. /\ Cardinality(Takers(t) \cup {u}) = IF u \in Takers(t) THEN Cardinality(Takers(t)) ELSE Cardinality(Takers(t)) + 1
          /\ Cardinality(Takers(t) \ {u}) = IF u \in Takers(t) THEN Cardinality(Takers(t)) - 1 ELSE Cardinality(Takers(t))
      BY <2>1, FS_AddElement, FS_RemoveElement
    <2>3. /\ Takers(t)' = IF stage'[u] \in {"leased", "release", "done"} THEN Takers(t) \cup {u} ELSE Takers(t) \ {u}
          /\ u \in Takers(t) <=> stage[u] \in {"leased", "release", "done"}
      BY CountMoves DEF t
    <2> QED
      BY <2>1, <2>2, <2>3 DEF Took, Bit
  <1>4. \A x \in Thread \ {t} : Holders(x)' = Holders(x) /\ Takers(x)' = Takers(x)
    BY CountMoves DEF t
  <1>5. Holds(stage[u]) \in Int /\ Holds(stage'[u]) \in Int /\ Took(stage[u]) \in Int /\ Took(stage'[u]) \in Int
    BY DEF Holds, Took, Bit
  <1>6. /\ leases[t] \in Nat /\ leases'[t] = leases[t] + d
        /\ leases[t] <= Cardinality(Takers(t)) /\ (~closed => Cardinality(Holders(t)) <= leases[t])
        /\ Cardinality(Takers(t)) \in Nat /\ Cardinality(Holders(t)) \in Nat
    BY <1>1, Counting DEF CountInv, t
  <1>7. leases'[t] <= Cardinality(Takers(t)')
    BY <1>3, <1>5, <1>6
  <1>8. ~closed => Cardinality(Holders(t)') <= leases'[t]
    BY <1>2, <1>5, <1>6
  <1>9. \A x \in Thread : leases'[x] <= Cardinality(Takers(x)')
    BY <1>1, <1>4, <1>7 DEF CountInv, t
  <1>10. ~closed' => \A x \in Thread : Cardinality(Holders(x)') <= leases'[x]
    BY <1>1, <1>4, <1>8 DEF CountInv, t
  <1>11. \A v \in User : held'[v] <=> stage'[v] = "leased"
    BY <1>1 DEF CountInv
  <1> QED
    BY <1>9, <1>10, <1>11 DEF CountInv

\* A step that counts no lease in or out may return, but hold a lease only if it held one.
LEMMA CountMovesOn ==
    ASSUME PoolTypes, CountInv, NEW u \in User, Frame(u), UNCHANGED <<leases, held>>,
           stage[u] \notin {"leased", "release", "done"}, stage'[u] \notin {"leased", "release"}
    PROVE  CountInv'
  <1>1. leases \in [Thread -> Nat] /\ thread[u] \in Thread
    BY DEF PoolTypes
  <1>2. /\ 0 <= Took(stage'[u]) - Took(stage[u]) /\ Holds(stage'[u]) - Holds(stage[u]) <= 0
    BY DEF Took, Holds, Bit
  <1>3. held'[u] <=> stage'[u] = "leased"
    BY DEF CountInv
  <1>4. leases'[thread[u]] = leases[thread[u]] + 0
    BY <1>1
  <1> QED
    BY <1>1, <1>2, <1>3, <1>4, CountKept

LEMMA UserCount ==
    ASSUME PoolTypes, CountInv, LeaseInv, NEW u \in User, UserStep(u), Frame(u), PoolTypes'
    PROVE  CountInv'
  <1> DEFINE t == thread[u]
  <1>1. leases \in [Thread -> Nat] /\ leases' \in [Thread -> Nat] /\ t \in Thread
    BY DEF PoolTypes
  <1>2. held[u] <=> stage[u] = "leased"
    BY DEF CountInv
  <1>3. CASE Begin(u) \/ EnterGate(u) \/ GetSession(u) \/ Join(u)
    <2>1. /\ UNCHANGED <<leases, held>> /\ stage[u] \in {"idle", "gate", "session", "join"}
          /\ stage'[u] \in {"gate", "session", "join", "have", "open", "done"}
      <3>1. CASE Begin(u) \/ EnterGate(u)
        BY <3>1, BeginEffect, EnterGateEffect DEF pool
      <3>2. CASE GetSession(u)
        BY <3>2, GetSessionEffect DEF pool, Done
      <3>3. CASE Join(u)
        BY <3>3, JoinEffect DEF pool, Done
      <3> QED
        BY <1>3, <3>1, <3>2, <3>3
    <2> QED
      BY <2>1, CountMovesOn
  <1>4. CASE OpenEndpoint(u) \/ Publish(u) \/ Discard(u) \/ Call(u)
    <2>1. /\ UNCHANGED <<leases, held>> /\ stage[u] \in {"open", "opened", "wrong", "failed", "discard", "have"}
          /\ stage'[u] \in {"opened", "wrong", "failed", "have", "discard", "done"}
      <3>1. CASE OpenEndpoint(u)
        BY <3>1, OpenEndpointEffect DEF pool
      <3>2. CASE Publish(u)
        BY <3>2, PublishEffect DEF Done
      <3>3. CASE Discard(u) \/ Call(u)
        BY <3>3, DiscardEffect, CallEffect DEF pool, Done
      <3> QED
        BY <1>4, <3>1, <3>2, <3>3
    <2> QED
      BY <2>1, CountMovesOn
  <1>5. CASE ResumeThread(u) \/ ThreadUnsubscribe(u)
    <2>1. UNCHANGED <<leases, held>> /\ stage[u] \in {"resume", "unsubscribe"} /\ stage'[u] \in {"resumed", "done"}
      BY <1>5, ResumeEffect, ThreadUnsubscribeEffect DEF pool, Done
    <2> QED
      BY <2>1, CountMovesOn
  \* A lease more: u is in neither set before, in both after.
  <1>6. ASSUME leases' = [leases EXCEPT ![t] = leases[t] + 1], Leased(u), stage[u] \in {"have", "resumed"}
        PROVE  CountInv'
    <2>1. leases'[t] = leases[t] + 1 /\ \A x \in Thread \ {t} : leases'[x] = leases[x]
      BY <1>1, <1>6
    <2>2. stage'[u] = "leased" /\ (held'[u] <=> stage'[u] = "leased")
      BY <1>6 DEF Leased
    <2>3. 1 <= Took(stage'[u]) - Took(stage[u]) /\ Holds(stage'[u]) - Holds(stage[u]) <= 1
      BY <1>6, <2>2 DEF Took, Holds, Bit
    <2> QED
      BY <1>1, <2>1, <2>2, <2>3, CountKept
  <1>7. CASE Subscribe(u)
    <2>1. CASE UNCHANGED <<leases, held>>
      <3>1. stage[u] = "have" /\ stage'[u] \in {"done", "resume"}
        BY <1>7, <2>1, <1>2, SubscribeEffect DEF Done, Leased
      <3> QED
        BY <2>1, <3>1, CountMovesOn
    <2> QED
      BY <1>6, <1>7, <2>1, SubscribeEffect
  <1>8. CASE RecordLease(u)
    <2>1. CASE Done(u) /\ UNCHANGED <<leases, held>>
      BY <1>8, <2>1, RecordLeaseEffect, CountMovesOn DEF Done
    <2>2. CASE leases' = [leases EXCEPT ![t] = 1] /\ Leased(u)
      <3>1. stage[u] = "resumed" /\ leases[t] = 0
        BY <1>8, RecordLeaseEffect DEF LeaseInv
      <3>2. leases' = [leases EXCEPT ![t] = leases[t] + 1]
        BY <2>2, <3>1
      <3> QED
        BY <1>6, <2>2, <3>1, <3>2
    <2> QED
      BY <1>8, <2>1, <2>2, RecordLeaseEffect
  <1>9. CASE Release(u)
    <2>1. stage[u] = "leased" /\ held'[u] = FALSE /\ stage'[u] \in {"release", "done"} /\ leases' = leases
      BY <1>9, ReleaseEffect DEF pool
    <2>2. 0 <= Took(stage'[u]) - Took(stage[u]) /\ Holds(stage'[u]) - Holds(stage[u]) <= 0
      BY <2>1 DEF Took, Holds, Bit
    <2>3. leases'[t] = leases[t] + 0
      BY <1>1, <2>1
    <2> QED
      BY <1>1, <2>1, <2>2, <2>3, CountKept
  <1>10. CASE Unsubscribe(u)
    <2>1. stage[u] = "release" /\ ~held[u] /\ held' = held
      BY <1>2, <1>10, UnsubscribeEffect
    <2>2. CASE Done(u) /\ leases' = leases
      <3>1. 0 <= Took(stage'[u]) - Took(stage[u]) /\ Holds(stage'[u]) - Holds(stage[u]) <= 0
        BY <2>1, <2>2 DEF Done, Took, Holds, Bit
      <3>2. leases'[t] = leases[t] + 0
        BY <1>1, <2>2
      <3> QED
        BY <1>1, <2>1, <2>2, <3>1, <3>2, CountKept DEF Done
    <2>3. CASE Done(u) /\ leases' = [leases EXCEPT ![t] = @ - 1]
      <3>1. -1 <= Took(stage'[u]) - Took(stage[u]) /\ Holds(stage'[u]) - Holds(stage[u]) <= -1
        BY <2>1, <2>3 DEF Done, Took, Holds, Bit
      <3>2. leases'[t] = leases[t] + (-1) /\ \A x \in Thread \ {t} : leases'[x] = leases[x]
        BY <1>1, <2>3
      <3> QED
        BY <1>1, <2>1, <2>3, <3>1, <3>2, CountKept DEF Done
    <2>4. CASE stage'[u] = "unsubscribe" /\ leases[t] = 1 /\ leases' = [leases EXCEPT ![t] = 0]
      <3>1. -1 <= Took(stage'[u]) - Took(stage[u]) /\ Holds(stage'[u]) - Holds(stage[u]) <= -1
        BY <2>1, <2>4 DEF Took, Holds, Bit
      <3>2. leases'[t] = leases[t] + (-1) /\ \A x \in Thread \ {t} : leases'[x] = leases[x]
        BY <1>1, <2>4
      <3> QED
        BY <1>1, <2>1, <2>4, <3>1, <3>2, CountKept
    <2> QED
      BY <1>10, <2>2, <2>3, <2>4, UnsubscribeEffect
  <1> QED
    BY <1>3, <1>4, <1>5, <1>7, <1>8, <1>9, <1>10 DEF UserStep

LEMMA LeaseKept ==
    ASSUME PoolTypes, LeaseInv, NEW u \in User, Frame(u), UNCHANGED <<leases, pooled>>, subscribed \subseteq subscribed',
           stage'[u] \in {"resume", "resumed", "unsubscribe"} => leases[thread[u]] = 0,
           stage'[u] = "resumed" => closed \/ <<hand'[u], thread[u]>> \in subscribed'
    PROVE  LeaseInv'
  <1>1. closed' = closed /\ thread' = thread /\ \A v \in User \ {u} : stage'[v] = stage[v] /\ hand'[v] = hand[v]
    BY DEF Frame
  <1>2. closed' \/ pooled' = None => \A t \in Thread : leases'[t] = 0
    BY <1>1 DEF LeaseInv
  <1>3. \A v \in User : stage'[v] \in {"resume", "resumed", "unsubscribe"} => leases'[thread'[v]] = 0
    BY <1>1 DEF LeaseInv
  <1>4. \A t \in Thread : leases'[t] > 0 => <<pooled', t>> \in subscribed'
    BY DEF LeaseInv
  <1>5. \A v \in User : stage'[v] = "resumed" => closed' \/ <<hand'[v], thread'[v]>> \in subscribed'
    BY <1>1 DEF LeaseInv
  <1> QED
    BY <1>2, <1>3, <1>4, <1>5 DEF LeaseInv

\* Whoever changes the leases of a thread is inside its gate, and nobody else is.
LEMMA LeaseChanges ==
    ASSUME PoolTypes, GateInv, OpeningInv, LeaseInv, NEW u \in User, Frame(u), NEW n \in Nat,
           gate[thread[u]] = u, leases' = [leases EXCEPT ![thread[u]] = n], UNCHANGED <<pooled, subscribed>>,
           ~closed, pooled # None, n > 0 => <<pooled, thread[u]>> \in subscribed,
           stage'[u] \notin {"resume", "resumed"}, stage'[u] = "unsubscribe" => n = 0
    PROVE  LeaseInv'
  <1>1. closed' = closed /\ thread' = thread /\ \A v \in User \ {u} : stage'[v] = stage[v] /\ hand'[v] = hand[v]
    BY DEF Frame
  <1>2. leases \in [Thread -> Nat] /\ thread \in [User -> Thread]
    BY DEF PoolTypes
  <1>3. leases'[thread[u]] = n /\ \A t \in Thread \ {thread[u]} : leases'[t] = leases[t]
    BY <1>2
  <1>4. \A v \in User \ {u} : stage[v] \in Inside => thread[v] # thread[u]
    BY DEF GateInv, InGate, Inside
  <1>5. \A v \in User : stage'[v] \in {"resume", "resumed", "unsubscribe"} => leases'[thread'[v]] = 0
    <2> SUFFICES ASSUME NEW v \in User, stage'[v] \in {"resume", "resumed", "unsubscribe"}
                 PROVE  leases'[thread[v]] = 0
      BY <1>1
    <2>1. CASE v = u
      BY <1>3, <2>1
    <2>2. CASE v # u
      <3>1. stage[v] \in {"resume", "resumed", "unsubscribe"}
        BY <1>1, <2>2
      <3>2. thread[v] \in Thread \ {thread[u]}
        BY <1>2, <1>4, <2>2, <3>1 DEF Inside
      <3> QED
        BY <1>3, <3>1, <3>2 DEF LeaseInv
    <2> QED
      BY <2>1, <2>2
  <1>6. \A t \in Thread : leases'[t] > 0 => <<pooled', t>> \in subscribed'
    BY <1>2, <1>3 DEF LeaseInv
  <1>7. \A v \in User : stage'[v] = "resumed" => closed' \/ <<hand'[v], thread'[v]>> \in subscribed'
    BY <1>1 DEF LeaseInv
  <1> QED
    BY <1>1, <1>5, <1>6, <1>7 DEF LeaseInv

\* A session that is not the pooled one may be detached, and a subscription without leases be given up.
LEMMA LeaseDrops ==
    ASSUME PoolTypes, HandInv, LeaseInv, NEW u \in User, Frame(u), Done(u), UNCHANGED <<leases, pooled>>,
           \A t \in Thread : leases[t] > 0 /\ <<pooled, t>> \in subscribed => <<pooled, t>> \in subscribed',
           \A v \in User \ {u} : stage[v] = "resumed" /\ ~closed /\ <<pooled, thread[v]>> \in subscribed =>
               <<pooled, thread[v]>> \in subscribed'
    PROVE  LeaseInv'
  <1>1. closed' = closed /\ thread' = thread /\ \A v \in User \ {u} : stage'[v] = stage[v] /\ hand'[v] = hand[v]
    BY DEF Frame
  <1>2. stage'[u] = "done"
    BY DEF Done
  <1>3. closed' \/ pooled' = None => \A t \in Thread : leases'[t] = 0
    BY <1>1 DEF LeaseInv
  <1>4. \A v \in User : stage'[v] \in {"resume", "resumed", "unsubscribe"} => leases'[thread'[v]] = 0
    BY <1>1, <1>2 DEF LeaseInv
  <1>5. \A t \in Thread : leases'[t] > 0 => <<pooled', t>> \in subscribed'
    BY DEF LeaseInv
  <1>6. ASSUME NEW v \in User, stage'[v] = "resumed", ~closed PROVE <<hand'[v], thread[v]>> \in subscribed'
    <2>1. v # u /\ stage[v] = "resumed" /\ hand'[v] = hand[v]
      BY <1>1, <1>2, <1>6
    <2>2. hand[v] = pooled
      BY <1>6, <2>1 DEF HandInv, Uses
    <2>3. <<pooled, thread[v]>> \in subscribed
      BY <1>6, <2>1, <2>2 DEF LeaseInv
    <2> QED
      BY <1>6, <2>1, <2>2, <2>3
  <1> QED
    BY <1>1, <1>3, <1>4, <1>5, <1>6 DEF LeaseInv

LEMMA UserLease ==
    ASSUME PoolTypes, GateInv, OpeningInv, HandInv, LeaseInv, NEW u \in User, UserStep(u), Frame(u)
    PROVE  LeaseInv'
  <1> DEFINE t == thread[u]
  <1>1. leases \in [Thread -> Nat] /\ t \in Thread /\ pooled \in Session \cup {None} /\ subscribed \subseteq Session \X Thread
    BY DEF PoolTypes
  <1>3. CASE Begin(u) \/ EnterGate(u) \/ GetSession(u) \/ Join(u)
    <2>1. UNCHANGED <<leases, pooled, subscribed>> /\ stage'[u] \in {"gate", "session", "join", "have", "open", "done"}
      <3>1. CASE Begin(u) \/ EnterGate(u)
        BY <3>1, BeginEffect, EnterGateEffect DEF pool
      <3>2. CASE GetSession(u)
        BY <3>2, GetSessionEffect DEF pool, Done
      <3>3. CASE Join(u)
        BY <3>3, JoinEffect DEF pool, Done
      <3> QED
        BY <1>3, <3>1, <3>2, <3>3
    <2> QED
      BY <2>1, LeaseKept
  <1>4. CASE OpenEndpoint(u) \/ Call(u) \/ Release(u)
    <2>1. UNCHANGED <<leases, pooled, subscribed>> /\ stage'[u] \in {"opened", "wrong", "failed", "release", "done"}
      <3>1. CASE OpenEndpoint(u)
        BY <3>1, OpenEndpointEffect DEF pool
      <3>2. CASE Call(u)
        BY <3>2, CallEffect DEF pool, Done
      <3>3. CASE Release(u)
        BY <3>3, ReleaseEffect DEF pool
      <3> QED
        BY <1>4, <3>1, <3>2, <3>3
    <2> QED
      BY <2>1, LeaseKept
  <1>5. CASE Publish(u)
    <2>1. /\ UNCHANGED <<leases, subscribed>> /\ stage[u] \in Opens /\ stage'[u] \in {"have", "discard", "done"}
      BY <1>5, PublishEffect DEF Opens, Done
    \* Nothing was pooled, so there are no leases that the new session could lack.
    <2>2. \A x \in Thread : leases[x] = 0
      BY <2>1, PoolAssumption DEF OpeningInv, LeaseInv
    <2>3. closed' = closed /\ thread' = thread /\ \A v \in User \ {u} : stage'[v] = stage[v] /\ hand'[v] = hand[v]
      BY DEF Frame
    <2>4. \A v \in User : stage'[v] \in {"resume", "resumed", "unsubscribe"} => leases'[thread'[v]] = 0
      BY <2>1, <2>2, <2>3 DEF PoolTypes
    <2>5. \A v \in User : stage'[v] = "resumed" => closed' \/ <<hand'[v], thread'[v]>> \in subscribed'
      BY <2>1, <2>3 DEF LeaseInv
    <2> QED
      BY <2>1, <2>2, <2>4, <2>5 DEF LeaseInv
  <1>6. CASE Discard(u)
    <2>1. UNCHANGED <<leases, pooled>> /\ Done(u) /\ subscribed' = Dropped({hand[u]}) /\ stage[u] = "discard"
      BY <1>6, DiscardEffect DEF pool
    <2>2. hand[u] # pooled
      BY <2>1 DEF HandInv
    <2>3. \A x \in Thread : <<pooled, x>> \in subscribed => <<pooled, x>> \in subscribed'
      BY <2>1, <2>2 DEF Dropped
    <2>4. \A v \in User : thread[v] \in Thread
      BY DEF PoolTypes
    <2> QED
      BY <2>1, <2>3, <2>4, LeaseDrops
  <1>7. CASE Subscribe(u)
    <2>1. UNCHANGED <<pooled, subscribed>> /\ gate[t] = u /\ stage[u] = "have"
      BY <1>7, SubscribeEffect
    <2>2. CASE Done(u) /\ leases' = leases
      BY <2>1, <2>2, LeaseKept DEF Done
    <2>3. CASE ~closed /\ pooled = hand[u] /\ leases[t] > 0 /\ leases' = [leases EXCEPT ![t] = @ + 1] /\ Leased(u)
      <3>1. leases[t] + 1 \in Nat /\ leases' = [leases EXCEPT ![t] = leases[t] + 1]
        BY <1>1, <2>3
      <3>2. pooled # None /\ <<pooled, t>> \in subscribed /\ stage'[u] = "leased"
        BY <1>1, <2>1, <2>3 DEF HandInv, Uses, LeaseInv, Leased
      <3> QED
        BY <2>1, <2>3, <3>1, <3>2, LeaseChanges
    <2>4. CASE leases[t] = 0 /\ stage'[u] = "resume" /\ leases' = leases
      BY <2>1, <2>4, LeaseKept
    <2> QED
      BY <1>7, <2>2, <2>3, <2>4, SubscribeEffect
  <1>8. CASE ResumeThread(u)
    <2>1. UNCHANGED <<leases, pooled>> /\ stage[u] = "resume" /\ subscribed \subseteq subscribed'
      BY <1>8, ResumeEffect DEF pool
    <2>2. leases[t] = 0
      BY <2>1 DEF LeaseInv
    <2>3. CASE Done(u)
      BY <2>1, <2>3, LeaseKept DEF Done
    <2>4. CASE /\ subscribed' = subscribed \cup {<<hand[u], t>>} /\ stage'[u] = "resumed" /\ hand' = hand
      BY <2>1, <2>2, <2>4, LeaseKept
    <2> QED
      BY <1>8, <2>3, <2>4, ResumeEffect
  <1>9. CASE RecordLease(u)
    <2>1. UNCHANGED <<pooled, subscribed>> /\ stage[u] = "resumed"
      BY <1>9, RecordLeaseEffect
    <2>2. CASE Done(u) /\ leases' = leases
      BY <2>1, <2>2, LeaseKept DEF Done
    <2>3. CASE ~closed /\ pooled = hand[u] /\ leases' = [leases EXCEPT ![t] = 1] /\ Leased(u)
      <3>1. gate[t] = u
        BY <2>1 DEF GateInv, InGate
      <3>2. pooled # None /\ <<pooled, t>> \in subscribed /\ stage'[u] = "leased"
        BY <2>1, <2>3 DEF HandInv, Uses, LeaseInv, Leased
      <3> QED
        BY <2>1, <2>3, <3>1, <3>2, LeaseChanges
    <2> QED
      BY <1>9, <2>2, <2>3, RecordLeaseEffect
  <1>10. CASE Unsubscribe(u)
    <2>1. UNCHANGED <<pooled, subscribed>> /\ stage[u] = "release"
      BY <1>10, UnsubscribeEffect
    <2>2. gate[t] = u
      BY <2>1 DEF GateInv, InGate
    <2>3. leases[t] > 0 => ~closed /\ pooled # None /\ <<pooled, t>> \in subscribed
      BY <1>1 DEF LeaseInv
    <2>4. CASE Done(u) /\ leases' = leases
      BY <2>1, <2>4, LeaseKept DEF Done
    <2>5. CASE Done(u) /\ leases[t] > 1 /\ leases' = [leases EXCEPT ![t] = @ - 1]
      <3>1. leases[t] - 1 \in Nat /\ leases[t] > 0 /\ leases' = [leases EXCEPT ![t] = leases[t] - 1]
        BY <1>1, <2>5
      <3>2. stage'[u] = "done"
        BY <2>5 DEF Done
      <3> QED
        BY <2>1, <2>2, <2>3, <3>1, <3>2, LeaseChanges
    <2>6. CASE leases[t] = 1 /\ leases' = [leases EXCEPT ![t] = 0] /\ stage'[u] = "unsubscribe"
      <3>1. leases[t] > 0
        BY <2>6
      <3> QED
        BY <2>1, <2>2, <2>3, <2>6, <3>1, LeaseChanges
    <2> QED
      BY <1>10, <2>4, <2>5, <2>6, UnsubscribeEffect
  <1>11. CASE ThreadUnsubscribe(u)
    <2>1. /\ UNCHANGED <<leases, pooled>> /\ Done(u) /\ stage[u] = "unsubscribe"
          /\ subscribed' \in {subscribed, subscribed \ {<<hand[u], t>>}}
      BY <1>11, ThreadUnsubscribeEffect DEF pool
    <2>2. \A x \in Thread \ {t} : <<pooled, x>> \in subscribed => <<pooled, x>> \in subscribed'
      BY <2>1
    <2>3. leases[t] = 0
      BY <2>1 DEF LeaseInv
    <2>4. \A v \in User \ {u} : stage[v] = "resumed" => thread[v] \in Thread \ {t}
      BY <2>1 DEF GateInv, InGate, PoolTypes
    <2>5. \A x \in Thread : leases[x] > 0 => x # t
      BY <2>3
    <2> QED
      BY <2>1, <2>2, <2>4, <2>5, LeaseDrops
  <1> QED
    BY <1>3, <1>4, <1>5, <1>6, <1>7, <1>8, <1>9, <1>10, <1>11 DEF UserStep
-----------------------------------------------------------------------------
(* The steps of the readers and of Close, and a context that ends. *)

LEMMA UserReader ==
    ASSUME PoolTypes, ReaderInv, NEW u \in User, Frame(u)
    PROVE  ReaderInv'
  BY DEF ReaderInv, Frame, scans

\* What no user, no pool and no session takes part in.
PoolStays ==
    /\ \A v \in User : stage'[v] = stage[v]
    /\ UNCHANGED <<session, subscribed, pooled, opening, leases, closed, closing, gate, hand, thread, joined, held>>

LEMMA StaysSound ==
    ASSUME PoolTypes, GateInv, OpeningInv, HandInv, OwnerInv, CountInv, LeaseInv, PoolStays
    PROVE  GateInv' /\ OpeningInv' /\ HandInv' /\ OwnerInv' /\ CountInv' /\ LeaseInv'
  <1>1. GateInv'
    <2>1. \A t \in Thread : gate[t] # None => stage'[gate[t]] = stage[gate[t]]
      BY DEF PoolTypes, PoolStays
    <2> QED
      BY <2>1 DEF GateInv, InGate, PoolStays
  <1>2. OpeningInv'
    BY DEF OpeningInv, PoolStays
  <1>3. HandInv'
    BY DEF HandInv, PoolStays
  <1>4. OwnerInv'
    BY DEF OwnerInv, PoolStays
  <1>5. CountInv'
    <2>1. \A t \in Thread : Holders(t)' = Holders(t) /\ Takers(t)' = Takers(t)
      BY DEF Holders, Takers, PoolStays
    <2> QED
      BY <2>1 DEF CountInv, PoolStays
  <1>6. LeaseInv'
    BY DEF LeaseInv, PoolStays
  <1> QED
    BY <1>1, <1>2, <1>3, <1>4, <1>5, <1>6

LEMMA ContextKeeps ==
    ASSUME PoolInv, NEW u \in User, ContextEnds(u)
    PROVE  PoolInv'
  <1>1. /\ over' = [over EXCEPT ![u] = TRUE]
        /\ UNCHANGED <<session, subscribed, pool, gate, stage, hand, thread, joined, held, scans>>
    BY DEF ContextEnds
  <1>2. PoolTypes'
    BY <1>1 DEF PoolInv, PoolTypes, pool, scans
  <1>3. PoolStays
    BY <1>1 DEF PoolStays, pool
  <1>4. ReaderInv'
    BY <1>1 DEF PoolInv, ReaderInv, scans
  <1> QED
    BY <1>2, <1>3, <1>4, StaysSound DEF PoolInv

LEMMA ReaderKeeps ==
    ASSUME PoolInv, NEW r \in Reader, ReaderStep(r)
    PROVE  PoolInv'
  <1>1. PoolTypes' /\ ReaderFrame(r) /\ ReaderInv'
    BY ReaderStepInv DEF PoolInv
  <1>2. PoolStays
    BY <1>1 DEF ReaderFrame, PoolStays, pool, users
  <1> QED
    BY <1>1, <1>2, StaysSound DEF PoolInv

\* Close takes the pooled session over; no lease is counted from then on.
LEMMA CloseKeeps ==
    ASSUME PoolInv, Close
    PROVE  PoolInv'
  <1>1. /\ ~closed /\ closed' = TRUE /\ closing' = (IF pooled = None THEN {} ELSE {pooled})
        /\ pooled' = None /\ leases' = [t \in Thread |-> 0]
        /\ UNCHANGED <<session, subscribed, opening, gate, stage, hand, users, scans>>
    BY DEF Close
  <1>2. UNCHANGED <<thread, joined, held, over, own, fits, limit, pass>>
    BY <1>1 DEF users, scans
  <1>3. pooled \in Session \cup {None} /\ None \notin Session /\ thread \in [User -> Thread]
    BY PoolAssumption DEF PoolInv, PoolTypes
  <1>4. PoolTypes'
    <2>1. closing' \subseteq Session /\ leases' \in [Thread -> Nat] /\ pooled' \in Session \cup {None}
      BY <1>1, <1>3
    <2> QED
      BY <1>1, <1>2, <2>1 DEF PoolInv, PoolTypes
  <1>5. GateInv'
    BY <1>1, <1>2 DEF PoolInv, GateInv, InGate
  <1>6. OpeningInv'
    BY <1>1 DEF PoolInv, OpeningInv
  <1>7. HandInv'
    <2>1. \A u \in User : hand[u] = pooled' => hand[u] = None
      BY <1>1
    <2> QED
      BY <1>1, <1>2, <2>1 DEF PoolInv, HandInv
  <1>8. OwnerInv'
    <2>1. closing = {}
      BY <1>1 DEF PoolInv, OpeningInv
    <2> SUFFICES ASSUME NEW s \in Session, session[s] = "open"
                 PROVE  \/ s \in closing'
                        \/ \E u \in User : stage[u] \in {"opened", "wrong", "discard"} /\ hand[u] = s
      BY <1>1 DEF OwnerInv
    <2>2. \/ s = pooled
          \/ \E u \in User : stage[u] \in {"opened", "wrong", "discard"} /\ hand[u] = s
      BY <2>1 DEF PoolInv, OwnerInv
    <2>3. s = pooled => s \in closing'
      BY <1>1, <1>3
    <2> QED
      BY <2>2, <2>3
  <1>9. CountInv'
    <2>1. \A t \in Thread : Takers(t)' = Takers(t) /\ leases'[t] = 0
      BY <1>1, <1>2 DEF Takers
    <2>2. \A t \in Thread : Cardinality(Takers(t)) \in Nat
      BY Counting
    <2>3. \A t \in Thread : leases'[t] <= Cardinality(Takers(t)')
      BY <2>1, <2>2
    <2>4. \A u \in User : held'[u] <=> stage'[u] = "leased"
      BY <1>1, <1>2 DEF PoolInv, CountInv
    <2> QED
      BY <1>1, <2>3, <2>4 DEF CountInv
  <1>10. LeaseInv'
    <2>1. \A t \in Thread : leases'[t] = 0
      BY <1>1
    <2>2. \A u \in User : leases'[thread'[u]] = 0
      BY <1>2, <1>3, <2>1
    <2> QED
      BY <1>1, <2>1, <2>2 DEF LeaseInv
  <1>11. ReaderInv'
    BY <1>1, <1>2 DEF PoolInv, ReaderInv
  <1> QED
    BY <1>4, <1>5, <1>6, <1>7, <1>8, <1>9, <1>10, <1>11 DEF PoolInv

LEMMA DetachesKeeps ==
    ASSUME PoolInv, CloseDetaches
    PROVE  PoolInv'
  <1>1. /\ session' = Detached(closing) /\ subscribed' = Dropped(closing) /\ closing' = {}
        /\ UNCHANGED <<pooled, opening, leases, closed, gate, stage, hand, users, scans>>
    BY DEF CloseDetaches
  <1>2. UNCHANGED <<thread, joined, held, over, own, fits, limit, pass>>
    BY <1>1 DEF users, scans
  <1>3. closed
    BY DEF PoolInv, OpeningInv, CloseDetaches
  <1>4. /\ \A s \in Session : session'[s] = IF s \in closing THEN "detached" ELSE session[s]
        /\ session' \in [Session -> {"unused", "open", "detached"}]
    BY <1>1 DEF Detached, PoolInv, PoolTypes
  <1>5. PoolTypes'
    <2>1. subscribed' \subseteq Session \X Thread
      BY <1>1 DEF Dropped, PoolInv, PoolTypes
    <2> QED
      BY <1>1, <1>2, <1>4, <2>1 DEF PoolInv, PoolTypes
  <1>6. GateInv' /\ OpeningInv'
    BY <1>1, <1>2 DEF PoolInv, GateInv, InGate, OpeningInv
  <1>7. HandInv'
    <2>1. \A u \in User : stage[u] \in {"opened", "wrong", "discard"} => session'[hand[u]] # "unused"
      <3>1. \A u \in User : hand[u] # None => hand[u] \in Session
        BY DEF PoolInv, PoolTypes
      <3> QED
        BY <1>4, <3>1 DEF PoolInv, HandInv
    <2> QED
      BY <1>1, <1>2, <2>1 DEF PoolInv, HandInv
  <1>8. OwnerInv'
    BY <1>1, <1>3, <1>4 DEF PoolInv, OwnerInv
  <1>9. CountInv'
    <2>1. \A t \in Thread : Takers(t)' = Takers(t)
      BY <1>1, <1>2 DEF Takers
    <2> QED
      BY <1>1, <1>2, <1>3, <2>1 DEF PoolInv, CountInv
  <1>10. LeaseInv'
    <2>1. \A t \in Thread : leases[t] = 0
      BY <1>3 DEF PoolInv, LeaseInv
    <2>2. thread \in [User -> Thread]
      BY DEF PoolInv, PoolTypes
    <2> QED
      BY <1>1, <1>2, <1>3, <2>1, <2>2 DEF LeaseInv
  <1>11. ReaderInv'
    BY <1>1, <1>2 DEF PoolInv, ReaderInv
  <1> QED
    BY <1>5, <1>6, <1>7, <1>8, <1>9, <1>10, <1>11 DEF PoolInv
-----------------------------------------------------------------------------
(* The inductive invariant, and what it implies. *)

LEMMA UserKeeps ==
    ASSUME PoolInv, NEW u \in User, UserStep(u)
    PROVE  PoolInv'
  <1>1. PoolTypes' /\ Frame(u)
    BY UserStepTyped DEF PoolInv
  <1>2. GateInv' /\ OpeningInv'
    BY <1>1, UserGate, UserOpening DEF PoolInv
  <1>3. HandInv' /\ OwnerInv'
    BY <1>1, UserHand, UserOwner DEF PoolInv
  <1>4. CountInv' /\ LeaseInv'
    BY <1>1, UserCount, UserLease DEF PoolInv
  <1>5. ReaderInv'
    BY <1>1, UserReader DEF PoolInv
  <1> QED
    BY <1>1, <1>2, <1>3, <1>4, <1>5 DEF PoolInv

LEMMA InitIInv == PoolInit => PoolInv
  <1> SUFFICES ASSUME PoolInit PROVE PoolInv
    OBVIOUS
  <1>1. "idle" \in UserLabel /\ "idle" \in ReaderLabel /\ Page \in Nat \ {0} /\ User \cap Reader = {}
    BY PoolAssumption DEF UserLabel, ReaderLabel
  <1>2. PoolTypes
    <2>1. stage \in [User \cup Reader -> Label]
      BY <1>1 DEF PoolInit, Label
    <2>2. /\ \A u \in User : stage[u] \in UserLabel
          /\ \A r \in Reader : stage[r] \in ReaderLabel
      BY <1>1 DEF PoolInit
    <2>3. limit \in [Reader -> 1..Page] /\ fits \in 0..Page /\ pass \in [Reader -> {"turns", "items", "events"}]
      BY <1>1 DEF PoolInit
    <2>4. joined \in [User -> [done : BOOLEAN, session : Session \cup {None}]]
      BY DEF PoolInit, Waits
    <2>5. /\ session \in [Session -> {"unused", "open", "detached"}] /\ subscribed \subseteq Session \X Thread
          /\ pooled \in Session \cup {None} /\ opening \in User \cup {None}
          /\ gate \in [Thread -> User \cup {None}] /\ leases \in [Thread -> Nat]
          /\ closed \in BOOLEAN /\ closing \subseteq Session
      BY DEF PoolInit
    <2>6. /\ thread \in [User -> Thread] /\ hand \in [User -> Session \cup {None}]
          /\ own \in [Reader -> {"none", "open", "dead"}] /\ held \in [User -> BOOLEAN]
          /\ over \in [User -> BOOLEAN]
      BY DEF PoolInit
    <2> QED
      BY <2>1, <2>2, <2>3, <2>4, <2>5, <2>6 DEF PoolTypes
  <1>3. \A u \in User : stage[u] = "idle" /\ hand[u] = None /\ joined[u].session = None /\ held[u] = FALSE
    BY DEF PoolInit, Waits
  <1>4. GateInv
    BY <1>3 DEF PoolInit, GateInv
  <1>5. OpeningInv
    BY <1>3 DEF PoolInit, OpeningInv, Opens
  <1>6. HandInv
    BY <1>3 DEF PoolInit, HandInv, Empty, Uses
  <1>7. OwnerInv
    BY DEF PoolInit, OwnerInv
  <1>8. CountInv
    <2>1. \A t \in Thread : leases[t] = 0 /\ Holders(t) = {}
      BY <1>3 DEF PoolInit, Holders
    <2>2. \A t \in Thread : Cardinality(Holders(t)) = 0
      BY <2>1, FS_EmptySet
    <2>3. \A t \in Thread : Cardinality(Takers(t)) \in Nat
      BY Counting
    <2> QED
      BY <1>3, <2>1, <2>2, <2>3 DEF CountInv
  <1>9. LeaseInv
    BY <1>3 DEF PoolInit, LeaseInv
  <1>10. ReaderInv
    BY DEF PoolInit, ReaderInv, ReaderEnded, Alive
  <1> QED
    BY <1>2, <1>4, <1>5, <1>6, <1>7, <1>8, <1>9, <1>10 DEF PoolInv

LEMMA NextPoolInv == PoolInv /\ [PoolNext]_poolVars => PoolInv'
  <1> SUFFICES ASSUME PoolInv, [PoolNext]_poolVars PROVE PoolInv'
    OBVIOUS
  <1>1. ASSUME NEW u \in User, UserStep(u) PROVE PoolInv'
    BY <1>1, UserKeeps
  <1>2. ASSUME NEW u \in User, ContextEnds(u) PROVE PoolInv'
    BY <1>2, ContextKeeps
  <1>3. ASSUME NEW r \in Reader, ReaderStep(r) PROVE PoolInv'
    BY <1>3, ReaderKeeps
  <1>4. CASE Close
    BY <1>4, CloseKeeps
  <1>5. CASE CloseDetaches
    BY <1>5, DetachesKeeps
  <1>6. CASE UNCHANGED poolVars
    <2>1. UNCHANGED <<session, subscribed, pool, gate, stage, hand, users, scans>>
      BY <1>6 DEF poolVars
    <2>2. PoolTypes'
      BY <2>1 DEF PoolInv, PoolTypes, pool, users, scans
    <2>3. PoolStays
      BY <2>1 DEF PoolStays, pool, users
    <2>4. ReaderInv'
      BY <2>1 DEF PoolInv, ReaderInv, scans
    <2> QED
      BY <2>2, <2>3, <2>4, StaysSound DEF PoolInv
  <1> QED
    BY <1>1, <1>2, <1>3, <1>4, <1>5, <1>6 DEF PoolNext

\* The inductive invariant holds in every state of every behaviour of the pool and its readers.
THEOREM PoolInvariant == PoolSpec => []PoolInv
  BY InitIInv, NextPoolInv, PTL DEF PoolSpec

LEMMA OneOpens ==
    ASSUME PoolInv
    PROVE  OneConnection
  <1> DEFINE Those == { u \in User : stage[u] \in {"open", "opened"} } \cup ({pooled} \ {None})
  <1>1. None \notin User
    BY PoolAssumption
  <1>2. CASE pooled # None
    <2>1. \A u \in User : stage[u] \notin {"open", "opened"}
      BY <1>1, <1>2 DEF PoolInv, OpeningInv, Opens
    <2>2. Those = {pooled}
      BY <1>2, <2>1
    <2> QED
      BY <2>2, FS_Singleton DEF OneConnection
  <1>3. CASE pooled = None
    <2>1. Those \subseteq {opening}
      BY <1>3 DEF PoolInv, OpeningInv, Opens
    <2>2. Those = {} \/ Those = {opening}
      BY <2>1
    <2>3. Cardinality({}) = 0 /\ Cardinality({opening}) = 1
      BY FS_EmptySet, FS_Singleton
    <2>4. Cardinality(Those) <= 1
      BY <2>2, <2>3
    <2> QED
      BY <2>4 DEF OneConnection
  <1> QED
    BY <1>2, <1>3

LEMMA LeaseCounted ==
    ASSUME PoolInv
    PROVE  LeaseKeepsSubscription
  <1> SUFFICES ASSUME NEW u \in User, held[u], At(u, "leased"), ~closed
               PROVE  leases[thread[u]] > 0 /\ <<pooled, thread[u]>> \in subscribed
    BY DEF LeaseKeepsSubscription
  <1> DEFINE t == thread[u]
  <1>1. t \in Thread /\ leases[t] \in Nat
    BY DEF PoolInv, PoolTypes
  <1>2. u \in Holders(t)
    BY DEF Holders, At
  <1>3. IsFiniteSet(Holders(t)) /\ Cardinality(Holders(t)) \in Nat
    BY <1>1, Counting
  <1>4. Cardinality(Holders(t)) # 0
    BY <1>2, <1>3, FS_EmptySet
  <1>5. Cardinality(Holders(t)) <= leases[t]
    BY <1>1 DEF PoolInv, CountInv
  <1>6. leases[t] > 0
    BY <1>1, <1>3, <1>4, <1>5
  <1> QED
    BY <1>1, <1>6 DEF PoolInv, LeaseInv

LEMMA ImpliesSound ==
    ASSUME PoolInv
    PROVE  PoolIsSound
  <1>1. SessionsHaveOwners
    <2>1. \A r \in Reader : own[r] # "none" => stage[r] \notin ReaderEnded
      BY DEF PoolInv, ReaderInv
    <2> QED
      BY <2>1 DEF PoolInv, OwnerInv, SessionsHaveOwners, ReaderEnded
  <1>2. ReadsAreSound
    BY DEF PoolInv, ReaderInv, ReadsAreSound, At, Alive
  <1> QED
    BY <1>1, <1>2, OneOpens, LeaseCounted DEF PoolIsSound

\* ConnectionPool.session, the leases of delivery.go, Close, and the isolated reads of observe.go: an
\* open session has an owner that will detach it, at most one session is opened or pooled, a goroutine
\* with a lease finds its thread resumed on the pooled session, and a page is read on a live connection.
THEOREM PoolSound == PoolSpec => []PoolIsSound
  BY PoolInvariant, ImpliesSound, PTL

\* Every variable of the pool has values of its type; p.subscriptions never counts more leases than there are users.
THEOREM PoolTyped == PoolSpec => []PoolTypeOK
  <1>1. ASSUME PoolInv PROVE PoolTypeOK
    <2>1. Cardinality(User) \in Nat
      BY PoolAssumption, FS_CardinalityType
    <2>2. \A t \in Thread : leases[t] \in 0..Cardinality(User)
      <3> SUFFICES ASSUME NEW t \in Thread PROVE leases[t] \in 0..Cardinality(User)
        OBVIOUS
      <3>1. leases[t] \in Nat /\ leases[t] <= Cardinality(Takers(t))
        BY <1>1 DEF PoolInv, PoolTypes, CountInv
      <3>2. Cardinality(Takers(t)) \in Nat /\ Cardinality(Takers(t)) <= Cardinality(User)
        BY Counting
      <3> QED
        BY <2>1, <3>1, <3>2
    <2>3. leases \in [Thread -> 0..Cardinality(User)]
      BY <1>1, <2>2 DEF PoolInv, PoolTypes
    <2> QED
      BY <1>1, <2>3 DEF PoolInv, PoolTypes, PoolTypeOK
  <1> QED
    BY PoolInvariant, <1>1, PTL

(***************************************************************************)
(* WaitService: every item of the thread has a place, every answer a cause.*)
(***************************************************************************)
WaitPoints == {"start", "subscribe", "loop", "items", "item", "stop", "poll", "final", "return", "done"}
WaitKinds == {"none", "error", "winner", "unknown", "incomplete"}

\* What Wait and its goroutines hold, and what they exchange.
ScanTypes ==
    /\ landed \subseteq Reply /\ base \subseteq Reply /\ (found = {"error"} \/ found \subseteq Reply)
    /\ live \in {"off", "on", "cut"} /\ stream \in Seq(Reply)
    /\ reader \in {"off", "next", "done", "gap"} \cup Reply
    /\ events \in Seq(Reply \cup {"gap"}) /\ Len(events) <= EventBuffer
    /\ scan \in {"off", "reading", "holding", "sent", "done"} /\ stopped \in BOOLEAN
    /\ point \in WaitPoints
    /\ todo \subseteq Reply /\ seen \subseteq Reply /\ putOff \subseteq Reply
    /\ current \in Reply \cup {NoReply}

\* What was told of custody is what custody decided, and stays it.
ToldBy(s, states, first) ==
    /\ s.kind = "winner" => first # NoReply /\ s.reply = first
    /\ s.kind = "unknown" => s.reply \in Reply /\ states[s.reply] \in {"unknown"} \cup Positive
Told(s) == ToldBy(s, cst, winner)
CustodyInv ==
    /\ cst \in [Reply -> {"absent", "claimed", "overdue", "unknown"} \cup Positive]
    /\ winner \in Reply \cup {NoReply}
    /\ Told(status) /\ status.kind \in {"pending", "winner", "unknown"}
    /\ Told(result) /\ result.kind \in WaitKinds

\* Where an item of the thread can be while its stream is read, and what the history still has to tell.
Handled == seen \cup putOff \cup todo \cup {current, reader} \cup Range(events) \cup Range(stream)
Untold ==
    IF scan = "reading" THEN base
    ELSE IF scan \in {"holding", "sent"} THEN found
    ELSE {}
Looping == point \in {"loop", "items", "item"}
Hears == Looping /\ live = "on" /\ reader # "done" /\ found # {"error"}

\* Wait has one item in hand, and scans until it stops its workers.
HandsInv ==
    /\ point = "item" <=> current # NoReply
    /\ point # "items" => todo = {}
    /\ point \in {"start", "subscribe"} => live = "off" /\ scan = "off" /\ stream = <<>> /\ found = {} /\ ~stopped
    /\ Looping => ~stopped /\ scan # "off"
    /\ scan = "reading" \/ (scan = "done" /\ Looping) => found = {}
FlowInv == Hears => landed \subseteq Handled \cup Untold

WaitInv == ScanTypes /\ CustodyInv /\ HandsInv /\ FlowInv

-----------------------------------------------------------------------------
\* Sequences: what is taken from one end or added at the other.
LEMMA TailRange ==
    ASSUME NEW S, NEW s \in Seq(S), s # <<>>
    PROVE  /\ Head(s) \in S /\ Tail(s) \in Seq(S) /\ Len(Tail(s)) = Len(s) - 1
           /\ Range(s) = {Head(s)} \cup Range(Tail(s))
  <1>1. /\ Len(s) \in Nat \ {0} /\ DOMAIN s = 1..Len(s) /\ Head(s) = s[1] /\ Head(s) \in S
        /\ Tail(s) \in Seq(S) /\ Len(Tail(s)) = Len(s) - 1
        /\ \A i \in 1..Len(Tail(s)) : Tail(s)[i] = s[i + 1]
    OBVIOUS
  <1>2. DOMAIN Tail(s) = 1..(Len(s) - 1)
    BY <1>1
  <1>3. \A i \in 1..Len(s) : i # 1 => s[i] = Tail(s)[i - 1] /\ i - 1 \in DOMAIN Tail(s)
    BY <1>1, <1>2
  <1>4. \A i \in DOMAIN Tail(s) : Tail(s)[i] = s[i + 1] /\ i + 1 \in DOMAIN s
    BY <1>1, <1>2
  <1>5. ASSUME NEW x \in Range(s) PROVE x \in {Head(s)} \cup Range(Tail(s))
    <2>1. PICK i \in 1..Len(s) : x = s[i]
      BY <1>1 DEF Range
    <2>2. CASE i = 1
      BY <1>1, <2>1, <2>2
    <2>3. CASE i # 1
      BY <1>3, <2>1, <2>3 DEF Range
    <2> QED
      BY <2>2, <2>3
  <1>6. ASSUME NEW x \in Range(Tail(s)) PROVE x \in Range(s)
    BY <1>4 DEF Range
  <1>7. Head(s) \in Range(s)
    BY <1>1 DEF Range
  <1> QED
    BY <1>1, <1>5, <1>6, <1>7

LEMMA AppendRange ==
    ASSUME NEW S, NEW s \in Seq(S), NEW e \in S
    PROVE  Append(s, e) \in Seq(S) /\ Len(Append(s, e)) = Len(s) + 1 /\ Range(Append(s, e)) = Range(s) \cup {e}
  <1>1. /\ Len(s) \in Nat /\ DOMAIN s = 1..Len(s) /\ Append(s, e) \in Seq(S) /\ Len(Append(s, e)) = Len(s) + 1
        /\ DOMAIN Append(s, e) = 1..(Len(s) + 1) /\ Append(s, e)[Len(s) + 1] = e
        /\ \A i \in 1..Len(s) : Append(s, e)[i] = s[i]
    OBVIOUS
  <1> QED
    BY <1>1 DEF Range

LEMMA EmptyRange == Range(<<>>) = {} /\ \A S : <<>> \in Seq(S) /\ Len(<<>>) = 0
  BY DEF Range

-----------------------------------------------------------------------------
(* Custody: what was told stays true.                                       *)

\* A step of custody: decisions are kept and unknown replies only improve.
CustodyKeeps ==
    /\ cst' \in [Reply -> {"absent", "claimed", "overdue", "unknown"} \cup Positive]
    /\ winner' \in Reply \cup {NoReply} /\ (winner # NoReply => winner' = winner)
    /\ \A r \in Reply : cst[r] \in {"unknown"} \cup Positive => cst'[r] \in {"unknown"} \cup Positive

LEMMA ToldStays ==
    ASSUME CustodyKeeps, NEW s, ToldBy(s, cst, winner)
    PROVE  ToldBy(s, cst', winner')
  BY DEF CustodyKeeps, ToldBy

\* A step that leaves what Wait was told alone.
LEMMA CustodyQuiet ==
    ASSUME CustodyInv, CustodyKeeps, UNCHANGED <<status, result>>
    PROVE  CustodyInv'
  BY ToldStays DEF CustodyInv, CustodyKeeps, Told

LEMMA ReadTells ==
    ASSUME CustodyInv, ReadCustody
    PROVE  /\ CustodyKeeps /\ Told(status)' /\ status'.kind \in {"pending", "winner", "unknown"}
           /\ ToldBy(result, cst', winner')
           /\ ~Terminal(status') => winner = NoReply /\ \A r \in Reply : cst'[r] # "unknown"
  <1>1. /\ \A r \in Reply : cst'[r] = IF cst[r] = "overdue" THEN "unknown" ELSE cst[r]
        /\ cst' \in [Reply -> {"absent", "claimed", "overdue", "unknown"} \cup Positive] /\ winner' = winner
    BY DEF CustodyInv, ReadCustody
  <1>2. CustodyKeeps
    BY <1>1 DEF CustodyInv, CustodyKeeps, Positive
  <1>3. \/ winner # NoReply /\ status' = StatusOf("winner", winner)
        \/ winner = NoReply /\ status' = Pending /\ \A r \in Reply : cst'[r] # "unknown"
        \/ winner = NoReply /\ \E r \in Reply : cst'[r] = "unknown" /\ status' = StatusOf("unknown", r)
    BY DEF ReadCustody, LookupOf
  <1>4. /\ \A k, r : StatusOf(k, r).kind = k /\ StatusOf(k, r).reply = r
        /\ Pending.kind = "pending"
    BY DEF StatusOf, Pending
  <1>5. CASE winner # NoReply /\ status' = StatusOf("winner", winner)
    <2>1. status'.kind = "winner" /\ status'.reply = winner
      BY <1>4, <1>5
    <2> QED
      BY <1>1, <1>2, <1>5, <2>1, ToldStays DEF CustodyInv, Told, ToldBy, Terminal
  <1>6. CASE winner = NoReply /\ status' = Pending /\ \A r \in Reply : cst'[r] # "unknown"
    <2>1. status'.kind = "pending"
      BY <1>4, <1>6
    <2> QED
      BY <1>2, <1>6, <2>1, ToldStays DEF CustodyInv, Told, ToldBy, Terminal
  <1>7. CASE winner = NoReply /\ \E r \in Reply : cst'[r] = "unknown" /\ status' = StatusOf("unknown", r)
    <2>1. PICK r \in Reply : cst'[r] = "unknown" /\ status' = StatusOf("unknown", r)
      BY <1>7
    <2>2. status'.kind = "unknown" /\ status'.reply = r
      BY <1>4, <2>1
    <2> QED
      BY <1>2, <2>1, <2>2, ToldStays DEF CustodyInv, Told, ToldBy, Terminal
  <1> QED
    BY <1>3, <1>5, <1>6, <1>7

\* An answer: what was read, or one that names nothing.
LEMMA AnswerTold ==
    ASSUME NEW kind \in {"error", "incomplete"}, NEW r
    PROVE  Told(StatusOf(kind, r)) /\ Told(Incomplete(TRUE)) /\ Told(Incomplete(FALSE))
  BY DEF Told, ToldBy, StatusOf, Incomplete

-----------------------------------------------------------------------------
(* The scan: an item moves from the stream to custody and is nowhere lost.  *)

ScanInv == ScanTypes /\ HandsInv /\ FlowInv

\* Steps that move no item.
LEMMA ScanRests ==
    ASSUME ScanInv, UNCHANGED <<landed, workers, stopped, todo, current, seen, putOff>>,
           \/ point' = point
           \/ point \notin {"items", "item"} /\ point' \in {"stop", "poll", "final", "return", "done"}
           \/ point = "start" /\ point' = "subscribe"
    PROVE  ScanInv'
  <1> USE DEF ScanInv
  <1>1. ScanTypes'
    BY DEF ScanTypes, workers, WaitPoints
  <1>2. HandsInv'
    BY DEF HandsInv, workers, Looping
  <1>3. FlowInv'
    BY DEF FlowInv, workers, Looping, Hears, Handled, Untold, HandsInv
  <1> QED
    BY <1>1, <1>2, <1>3

LEMMA DeliverScans ==
    ASSUME ScanInv, NEW r \in Reply, Deliver(r)
    PROVE  ScanInv'
  <1> USE DEF ScanInv
  <1>1. IF live = "on" THEN stream' \in Seq(Reply) /\ Range(stream') = Range(stream) \cup {r} ELSE stream' = stream
    BY AppendRange DEF Deliver, ScanTypes
  <1>2. ScanTypes'
    BY <1>1 DEF Deliver, ScanTypes, wait, custody
  <1>3. HandsInv'
    BY <1>1 DEF Deliver, HandsInv, Looping, wait
  <1>4. FlowInv'
    BY <1>1 DEF Deliver, FlowInv, Looping, Hears, Handled, Untold, wait
  <1> QED
    BY <1>2, <1>3, <1>4

LEMMA CutScans ==
    ASSUME ScanInv, Cut
    PROVE  ScanInv'
  <1> USE DEF ScanInv
  <1>1. ScanTypes'
    BY EmptyRange DEF Cut, ScanTypes, wait
  <1>2. HandsInv' /\ FlowInv'
    BY DEF Cut, HandsInv, FlowInv, Looping, Hears, wait
  <1> QED
    BY <1>1, <1>2

LEMMA SubscribeScans ==
    ASSUME ScanInv, SubscribeThread
    PROVE  ScanInv'
  <1> USE DEF ScanInv
  <1>1. CASE /\ live' = "on" /\ reader' = "next" /\ point' = "loop"
             /\ scan' = "reading" /\ base' = landed /\ UNCHANGED gap
    <2>1. ScanTypes'
      BY <1>1 DEF SubscribeThread, ScanTypes, WaitPoints
    <2>2. HandsInv'
      BY <1>1 DEF SubscribeThread, HandsInv, Looping
    <2>3. FlowInv'
      BY <1>1 DEF FlowInv, Untold, SubscribeThread
    <2> QED
      BY <2>1, <2>2, <2>3
  <1>2. CASE point' = "poll" /\ gap' = TRUE /\ UNCHANGED <<live, reader, scan, base>>
    BY <1>2, ScanRests DEF SubscribeThread, workers
  <1> QED
    BY <1>1, <1>2 DEF SubscribeThread

\* The items of the history are in the thread or not: what it missed is in the stream.
LEMMA TakeHistoryScans ==
    ASSUME ScanInv, TakeHistory
    PROVE  ScanInv'
  <1> USE DEF ScanInv
  <1>1. CASE found = {"error"}
    BY <1>1 DEF TakeHistory, ScanTypes, HandsInv, FlowInv, Looping, Hears, WaitPoints
  <1>2. CASE found # {"error"}
    <2>1. point' = "items" /\ todo' = found /\ found' = {} /\ scan' = "done" /\ todo = {}
      BY <1>2 DEF TakeHistory, HandsInv
    <2>2. ScanTypes' /\ HandsInv'
      BY <1>2, <2>1 DEF TakeHistory, ScanTypes, HandsInv, Looping, WaitPoints
    <2>3. FlowInv'
      BY <1>2, <2>1 DEF TakeHistory, FlowInv, Looping, Hears, Handled, Untold
    <2> QED
      BY <2>2, <2>3
  <1> QED
    BY <1>1, <1>2

LEMMA TakeEventScans ==
    ASSUME ScanInv, TakeEvent
    PROVE  ScanInv'
  <1> USE DEF ScanInv
  <1>1. CASE events # <<>>
    <2>1. /\ Head(events) \in Reply \cup {"gap"} /\ events' \in Seq(Reply \cup {"gap"})
          /\ Len(events') = Len(events) - 1 /\ Range(events) = {Head(events)} \cup Range(events')
      BY <1>1, TailRange DEF TakeEvent, ScanTypes
    <2>2. Len(events') <= EventBuffer
      BY <2>1, WaitAssumption DEF ScanTypes
    <2>3. IF Head(events) = "gap" THEN point' = "stop" /\ current' = current
          ELSE point' = "item" /\ current' = Head(events)
      BY <1>1 DEF TakeEvent
    <2>4. current = NoReply /\ (Head(events) # "gap" => current' \in Reply /\ current' # NoReply)
      BY <2>1, <2>3, WaitAssumption DEF TakeEvent, HandsInv
    <2>5. ScanTypes'
      BY <2>1, <2>2, <2>3, <2>4 DEF TakeEvent, ScanTypes, WaitPoints
    <2>6. HandsInv'
      BY <2>3, <2>4 DEF TakeEvent, HandsInv, Looping
    <2>7. FlowInv'
      <3> SUFFICES ASSUME Hears' PROVE landed \subseteq (Handled \cup Untold)'
        BY DEF TakeEvent, FlowInv
      <3>1. Head(events) # "gap" /\ current' = Head(events)
        BY <2>3 DEF Hears, Looping
      <3>2. landed \subseteq Handled \cup Untold /\ Untold' = Untold
        BY DEF TakeEvent, FlowInv, Hears, Looping, Untold
      <3>3. Handled \subseteq Handled' \cup {NoReply}
        BY <2>1, <2>4, <3>1 DEF TakeEvent, Handled
      <3> QED
        BY <3>2, <3>3, WaitAssumption DEF ScanTypes
    <2> QED
      BY <2>5, <2>6, <2>7
  <1>2. CASE events = <<>> /\ reader = "done" /\ point' = "stop" /\ UNCHANGED <<events, current>>
    BY <1>2, ScanRests DEF TakeEvent, workers
  <1> QED
    BY <1>1, <1>2 DEF TakeEvent

\* observeCandidate: an item in hand is marked, put off, or ends the scan.
LEMMA CandidateScans ==
    ASSUME ScanInv, NEW r \in Reply, NEW set \in SUBSET Reply, Looping, ObserveCandidate(r, set, NoReply),
           todo \cup {current} \subseteq set \cup {r, NoReply}, UNCHANGED <<landed, workers, stopped>>
    PROVE  ScanInv'
  <1> USE DEF ScanInv
  <1>1. /\ seen \subseteq seen' /\ putOff \subseteq putOff' /\ seen' \cup putOff' \subseteq Reply
        /\ current' = NoReply
        /\ \/ point' = "stop" /\ todo' = {}
           \/ todo' = set /\ point' = (IF set # {} THEN "items" ELSE "loop") /\ r \in seen' \cup putOff'
    BY DEF ObserveCandidate, ResumeLoop, ScanTypes
  <1>2. ScanTypes'
    BY <1>1 DEF ScanTypes, workers, WaitPoints
  <1>3. HandsInv'
    BY <1>1 DEF HandsInv, Looping, workers
  <1>4. FlowInv'
    <2> SUFFICES ASSUME Hears' PROVE landed' \subseteq (Handled \cup Untold)'
      BY DEF FlowInv
    <2>1. landed \subseteq Handled \cup Untold /\ Untold' = Untold /\ landed' = landed
      BY DEF FlowInv, Hears, Untold, workers
    <2>2. todo' = set /\ r \in seen' \cup putOff'
      BY <1>1 DEF Hears, Looping
    <2>3. Handled \subseteq Handled' \cup {NoReply}
      BY <1>1, <2>2 DEF Handled, workers
    <2> QED
      BY <2>1, <2>3, WaitAssumption DEF ScanTypes
  <1> QED
    BY <1>2, <1>3, <1>4

LEMMA ObserveScans ==
    ASSUME ScanInv, ObserveHistory \/ ObserveEvent
    PROVE  ScanInv'
  <1>1. CASE ObserveHistory /\ todo = {}
    <2>1. /\ point = "items" /\ point' = "loop" /\ todo' = {} /\ current' = NoReply /\ current = NoReply
          /\ UNCHANGED <<landed, workers, stopped, seen, putOff>>
      BY <1>1 DEF ObserveHistory, ResumeLoop, ScanInv, HandsInv
    <2>2. ScanTypes' /\ HandsInv'
      BY <1>1, <2>1 DEF ScanInv, ScanTypes, HandsInv, Looping, workers, WaitPoints
    <2>3. FlowInv'
      BY <1>1, <2>1 DEF ScanInv, FlowInv, Hears, Looping, Handled, Untold, workers
    <2> QED
      BY <2>2, <2>3 DEF ScanInv
  <1>2. CASE ObserveHistory /\ todo # {}
    <2>1. PICK r \in todo : ObserveCandidate(r, todo \ {r}, NoReply)
      BY <1>2 DEF ObserveHistory
    <2>2. current = NoReply /\ Looping /\ todo \subseteq Reply /\ UNCHANGED <<landed, workers, stopped>>
      BY <1>2 DEF ObserveHistory, ScanInv, ScanTypes, HandsInv, Looping
    <2> QED
      BY <2>1, <2>2, CandidateScans
  <1>3. CASE ObserveEvent
    <2>1. /\ current \in Reply /\ todo = {} /\ Looping /\ UNCHANGED <<landed, workers, stopped>>
          /\ ObserveCandidate(current, {}, NoReply)
      BY <1>3 DEF ObserveEvent, ScanInv, ScanTypes, HandsInv, Looping
    <2> QED
      BY <2>1, CandidateScans
  <1> QED
    BY <1>1, <1>2, <1>3

\* stopWorkers: nothing is listened to any more.
LEMMA StopScans ==
    ASSUME ScanInv, StopWorkers \/ Returns
    PROVE  ScanInv'
  <1>1. /\ stopped' = TRUE /\ live' = "off" /\ stream' = <<>> /\ point' \in {"poll", "final", "done"}
        /\ point \in {"stop", "return"}
        /\ UNCHANGED <<landed, reader, events, scan, base, found, todo, current, seen, putOff>>
    BY DEF StopWorkers, Returns, Stop
  <1>2. ScanTypes'
    BY <1>1, EmptyRange DEF ScanInv, ScanTypes, WaitPoints
  <1>3. HandsInv' /\ FlowInv'
    BY <1>1 DEF ScanInv, HandsInv, FlowInv, Hears, Looping
  <1> QED
    BY <1>2, <1>3 DEF ScanInv

-----------------------------------------------------------------------------
(* The goroutines.                                                          *)

LEMMA ReaderTakesScans ==
    ASSUME ScanInv, ReaderTakes
    PROVE  ScanInv'
  <1> USE DEF ScanInv
  <1>1. /\ reader = "next"
        /\ UNCHANGED <<landed, live, events, scan, base, found, stopped, point, todo, current, seen, putOff>>
    BY DEF ReaderTakes, wait
  <1>2. \/ /\ reader' \in Reply /\ stream' \in Seq(Reply) /\ Range(stream) = {reader'} \cup Range(stream')
           /\ stream # <<>>
        \/ reader' = "gap" /\ stream' = stream
    <2>1. CASE stream # <<>> /\ reader' = Head(stream) /\ stream' = Tail(stream)
      BY <2>1, TailRange DEF ScanTypes
    <2> QED
      BY <2>1 DEF ReaderTakes
  <1>3. ScanTypes'
    BY <1>1, <1>2 DEF ScanTypes
  <1>4. HandsInv'
    BY <1>1, <1>2 DEF HandsInv, Looping
  <1>5. FlowInv'
    <2> SUFFICES ASSUME Hears' PROVE landed' \subseteq (Handled \cup Untold)'
      BY DEF FlowInv
    <2>1. landed \subseteq Handled \cup Untold /\ Untold' = Untold /\ landed' = landed
      BY <1>1 DEF FlowInv, Hears, Looping, Untold
    <2>2. Handled \subseteq Handled' \cup {"next"}
      BY <1>1, <1>2 DEF Handled
    <2> QED
      BY <2>1, <2>2, WaitAssumption DEF ScanTypes
  <1> QED
    BY <1>3, <1>4, <1>5

LEMMA ReaderSendsScans ==
    ASSUME ScanInv, ReaderSends
    PROVE  ScanInv'
  <1> USE DEF ScanInv
  <1>1. /\ reader \in Reply \cup {"gap"}
        /\ UNCHANGED <<landed, live, stream, scan, base, found, stopped, point, todo, current, seen, putOff>>
    BY DEF ReaderSends, wait
  <1>2. CASE reader' = "done" /\ events' = events
    BY <1>1, <1>2 DEF ScanTypes, HandsInv, FlowInv, Hears, Looping
  <1>3. CASE /\ Len(events) < EventBuffer /\ events' = Append(events, reader)
             /\ reader' = IF reader = "gap" THEN "done" ELSE "next"
    <2>1. /\ events' \in Seq(Reply \cup {"gap"}) /\ Len(events') = Len(events) + 1
          /\ Range(events') = Range(events) \cup {reader}
      BY <1>1, <1>3, AppendRange DEF ScanTypes
    <2>2. Len(events') <= EventBuffer
      BY <1>3, <2>1, WaitAssumption DEF ScanTypes
    <2>3. ScanTypes' /\ HandsInv'
      BY <1>1, <1>3, <2>1, <2>2 DEF ScanTypes, HandsInv, Looping
    <2>4. FlowInv'
      <3> SUFFICES ASSUME Hears' PROVE landed' \subseteq (Handled \cup Untold)'
        BY DEF FlowInv
      <3>1. landed \subseteq Handled \cup Untold /\ Untold' = Untold /\ landed' = landed
        BY <1>1, WaitAssumption DEF FlowInv, Hears, Looping, Untold
      <3>2. Handled \subseteq Handled'
        BY <1>1, <2>1 DEF Handled
      <3> QED
        BY <3>1, <3>2
    <2> QED
      BY <2>3, <2>4
  <1> QED
    BY <1>2, <1>3 DEF ReaderSends

LEMMA HistoryScans ==
    ASSUME ScanInv, HistoryReads \/ HistorySends
    PROVE  ScanInv'
  <1> USE DEF ScanInv
  <1>1. UNCHANGED <<landed, live, stream, reader, events, stopped, point, todo, current, seen, putOff>>
    BY DEF HistoryReads, HistorySends, wait
  <1>2. CASE HistoryReads
    <2>1. /\ scan = "reading" /\ scan' = "holding" /\ base' = {} /\ found = {}
          /\ found' = {"error"} \/ (base \subseteq found' /\ found' \subseteq base \cup landed)
      <3>1. CASE found' = {"error"}
        BY <1>2, <3>1 DEF HistoryReads, HandsInv
      <3>2. CASE \E late \in SUBSET (landed \ base) : found' = base \cup late
        <4>1. base \subseteq found' /\ found' \subseteq base \cup landed
          BY <3>2
        <4> QED
          BY <1>2, <4>1 DEF HistoryReads, HandsInv
      <3> QED
        BY <1>2, <3>1, <3>2 DEF HistoryReads
    <2>2. ScanTypes' /\ HandsInv'
      BY <1>1, <2>1 DEF ScanTypes, HandsInv, Looping
    <2>3. FlowInv'
      BY <1>1, <2>1 DEF FlowInv, Hears, Looping, Handled, Untold
    <2> QED
      BY <2>2, <2>3
  <1>3. CASE HistorySends
    <2>1. scan = "holding" /\ (scan' = "sent" \/ (scan' = "done" /\ stopped)) /\ UNCHANGED <<base, found>>
      BY <1>3 DEF HistorySends
    <2>2. ScanTypes' /\ HandsInv'
      BY <1>1, <2>1 DEF ScanTypes, HandsInv, Looping
    <2>3. FlowInv'
      BY <1>1, <2>1 DEF FlowInv, Hears, Looping, Handled, Untold, HandsInv
    <2> QED
      BY <2>2, <2>3
  <1> QED
    BY <1>2, <1>3

-----------------------------------------------------------------------------
(* The answers.                                                             *)

\* Who says that nothing was decided has just read it.
Honest == result'.kind = "incomplete" /\ result' # result /\ result'.reply = "read" =>
             winner = NoReply /\ \A r \in Reply : cst'[r] # "unknown"
Speaks == CustodyInv' /\ Honest

LEMMA SilentSpeaks ==
    ASSUME CustodyInv, CustodyKeeps, UNCHANGED <<status, result>>
    PROVE  Speaks
  BY CustodyQuiet DEF Speaks, Honest

LEMMA CustodyRests ==
    ASSUME CustodyInv, UNCHANGED custody
    PROVE  CustodyKeeps
  BY DEF CustodyInv, CustodyKeeps, custody

\* A read of custody, after which Wait goes on or returns what it read.
LEMMA ReadSpeaks ==
    ASSUME CustodyInv, ReadCustody,
           \/ Terminal(status') /\ result' = status'
           \/ ~Terminal(status') /\ (result' = result \/ result' = Incomplete(TRUE))
    PROVE  Speaks
  <1>1. /\ CustodyKeeps /\ Told(status)' /\ status'.kind \in {"pending", "winner", "unknown"}
        /\ ToldBy(result, cst', winner')
        /\ ~Terminal(status') => winner = NoReply /\ \A r \in Reply : cst'[r] # "unknown"
    BY ReadTells
  <1>2. CASE Terminal(status') /\ result' = status'
    <2>1. Told(result)' /\ result'.kind \in {"winner", "unknown"}
      BY <1>1, <1>2 DEF Told, Terminal
    <2> QED
      BY <1>1, <2>1 DEF CustodyInv, CustodyKeeps, Speaks, Honest, WaitKinds
  <1>3. CASE ~Terminal(status') /\ result' = result
    BY <1>1, <1>3 DEF CustodyInv, CustodyKeeps, Speaks, Honest, Told
  <1>4. CASE ~Terminal(status') /\ result' = Incomplete(TRUE)
    <2>1. result'.kind = "incomplete"
      BY <1>4 DEF Incomplete
    <2> QED
      BY <1>1, <1>4, <2>1 DEF CustodyInv, CustodyKeeps, Speaks, Honest, Told, ToldBy, WaitKinds
  <1> QED
    BY <1>2, <1>3, <1>4

\* An answer without a read says so.
LEMMA UnreadSpeaks ==
    ASSUME CustodyInv, UNCHANGED <<custody, status>>,
           \/ result' \in {result, Incomplete(FALSE), StatusOf("error", NoReply)}
           \/ Terminal(status) /\ result' = status
    PROVE  Speaks
  <1>1. CustodyKeeps
    BY CustodyRests DEF custody
  <1>2. CASE result' = result
    BY <1>1, <1>2, SilentSpeaks
  <1>3. CASE result' \in {Incomplete(FALSE), StatusOf("error", NoReply)}
    <2>1. result'.kind \in {"incomplete", "error"} /\ result'.reply = NoReply
      BY <1>3 DEF Incomplete, StatusOf
    <2> QED
      BY <1>1, <2>1, WaitAssumption DEF CustodyInv, CustodyKeeps, Speaks, Honest, Told, ToldBy, WaitKinds, custody
  <1>4. CASE Terminal(status) /\ result' = status
    BY <1>1, <1>4 DEF CustodyInv, CustodyKeeps, Speaks, Honest, Told, ToldBy, WaitKinds, custody, Terminal
  <1> QED
    BY <1>2, <1>3, <1>4

LEMMA CustodyMoves ==
    ASSUME CustodyInv, NEW r \in Reply, Deliverer(r) \/ RecordObserved(r)
    PROVE  CustodyKeeps
  <1>1. cst \in [Reply -> {"absent", "claimed", "overdue", "unknown"} \cup Positive] /\ winner \in Reply \cup {NoReply}
    BY DEF CustodyInv
  <1>2. CASE Deliverer(r)
    <2>1. PICK from \in SUBSET {"absent", "claimed", "overdue"}, to \in {"claimed", "overdue", "accepted", "unknown"} :
             Move(r, from, to)
      <3>1. CASE Move(r, {"absent"}, "claimed")
        BY <3>1
      <3>2. CASE Move(r, {"claimed"}, "overdue")
        BY <3>2
      <3>3. CASE Move(r, {"claimed"}, "accepted")
        BY <3>3
      <3>4. CASE Move(r, {"claimed", "overdue"}, "unknown")
        BY <3>4
      <3> QED
        BY <1>2, <3>1, <3>2, <3>3, <3>4 DEF Deliverer
    <2>2. winner' = winner \/ (winner = NoReply /\ winner' = r)
      BY <1>2 DEF Deliverer
    <2> QED
      BY <1>1, <2>1, <2>2 DEF CustodyKeeps, Move, Positive
  <1>3. CASE RecordObserved(r)
    BY <1>1, <1>3 DEF RecordObserved, CustodyKeeps, Positive
  <1> QED
    BY <1>2, <1>3

LEMMA CandidateSpeaks ==
    ASSUME CustodyInv, NEW r \in Reply, NEW set, ObserveCandidate(r, set, NoReply), UNCHANGED <<status, result>>
    PROVE  Speaks
  <1>1. RecordObserved(r) \/ UNCHANGED custody
    BY DEF ObserveCandidate
  <1> QED
    BY <1>1, CustodyMoves, CustodyRests, SilentSpeaks

LEMMA WaiterSpeaks ==
    ASSUME CustodyInv, ScanInv, Waiter \/ TickerReads \/ PollCustody
    PROVE  Speaks
  <1>1. CASE Start
    <2>1. CASE ReturnWith(StatusOf("error", NoReply)) /\ UNCHANGED <<custody, status>>
      BY <2>1, UnreadSpeaks DEF ReturnWith
    <2>2. CASE ReadCustody /\ IF Terminal(status') THEN ReturnWith(status')
                              ELSE point' \in {"subscribe", "poll"} /\ UNCHANGED result
      BY <2>2, ReadSpeaks DEF ReturnWith
    <2> QED
      BY <1>1, <2>1, <2>2 DEF Start
  <1>2. CASE ObserveHistory
    <2>1. UNCHANGED <<status, result>>
      BY <1>2 DEF ObserveHistory
    <2>2. CASE todo = {}
      <3>1. UNCHANGED custody
        BY <1>2, <2>2 DEF ObserveHistory
      <3> QED
        BY <2>1, <3>1, CustodyRests, SilentSpeaks
    <2>3. CASE todo # {}
      <3>1. PICK r \in todo : ObserveCandidate(r, todo \ {r}, NoReply)
        BY <1>2, <2>3 DEF ObserveHistory
      <3> QED
        BY <2>1, <3>1, CandidateSpeaks DEF ScanInv, ScanTypes
    <2> QED
      BY <2>2, <2>3
  <1>3. CASE ObserveEvent
    <2>1. UNCHANGED <<status, result>> /\ ObserveCandidate(current, {}, NoReply) /\ current \in Reply
      BY <1>3 DEF ObserveEvent, ScanInv, ScanTypes, HandsInv
    <2> QED
      BY <2>1, CandidateSpeaks
  <1>4. CASE TickerReads
    BY <1>4, ReadSpeaks DEF TickerReads, ReturnWith
  <1>5. CASE PollCustody
    <2>1. CASE ReadCustody /\ IF Terminal(status') THEN ReturnWith(status')
                              ELSE IF gap /\ ~bounded THEN ReturnWith(Incomplete(TRUE))
                              ELSE UNCHANGED <<point, result>>
      BY <2>1, ReadSpeaks DEF ReturnWith
    <2>2. CASE (IF gap /\ ~bounded THEN ReturnWith(Incomplete(FALSE)) ELSE UNCHANGED <<point, result>>)
               /\ UNCHANGED <<custody, status>>
      BY <2>2, UnreadSpeaks DEF ReturnWith
    <2> QED
      BY <1>5, <2>1, <2>2 DEF PollCustody
  <1>6. CASE FinishWait
    <2>1. CASE ReadCustody /\ ReturnWith(IF Terminal(status') THEN status' ELSE Incomplete(TRUE))
      BY <2>1, ReadSpeaks DEF ReturnWith
    <2>2. CASE UNCHANGED <<custody, status>> /\ ReturnWith(IF Terminal(status) THEN status ELSE Incomplete(FALSE))
      BY <2>2, UnreadSpeaks DEF ReturnWith
    <2> QED
      BY <1>6, <2>1, <2>2 DEF FinishWait
  <1>7. CASE SubscribeThread \/ TakeHistory \/ TakeEvent \/ LoopEnds \/ StopWorkers \/ PollEnds \/ Returns
    <2>1. UNCHANGED <<custody, status, result>>
      BY <1>7 DEF SubscribeThread, TakeHistory, TakeEvent, LoopEnds, StopWorkers, PollEnds, Returns
    <2> QED
      BY <2>1, CustodyRests, SilentSpeaks
  <1> QED
    BY <1>1, <1>2, <1>3, <1>4, <1>5, <1>6, <1>7 DEF Waiter

LEMMA WaitKeepsInv ==
    ASSUME WaitInv, [WaitNext]_waitVars
    PROVE  WaitInv' /\ (Honest \/ UNCHANGED waitVars)
  <1>1. CustodyInv /\ ScanInv
    BY DEF WaitInv, ScanInv
  <1>2. CASE UNCHANGED waitVars
    <2>1. UNCHANGED <<custody, status, result, landed, workers, stopped, todo, current, seen, putOff, point>>
      BY <1>2 DEF waitVars, wait
    <2>2. Speaks
      BY <1>1, <2>1, CustodyRests, SilentSpeaks
    <2>3. ScanInv'
      BY <1>1, <2>1, ScanRests
    <2> QED
      BY <2>2, <2>3 DEF WaitInv, ScanInv, Speaks
  <1>3. CASE Worker \/ (\E r \in Reply : Deliver(r)) \/ Cut \/ CallerEnds \/ \E r \in Reply : Deliverer(r)
    <2>1. Speaks
      <3>1. UNCHANGED <<status, result>>
        BY <1>3 DEF Worker, ReaderTakes, ReaderSends, HistoryReads, HistorySends, Deliver, Cut, CallerEnds, Deliverer, wait
      <3>2. UNCHANGED custody \/ \E r \in Reply : Deliverer(r)
        BY <1>3 DEF Worker, ReaderTakes, ReaderSends, HistoryReads, HistorySends, Deliver, Cut, CallerEnds
      <3> QED
        BY <1>1, <3>1, <3>2, CustodyMoves, CustodyRests, SilentSpeaks
    <2>2. CASE CallerEnds \/ \E r \in Reply : Deliverer(r)
      <3>1. UNCHANGED <<landed, workers, stopped, todo, current, seen, putOff, point>>
        BY <2>2 DEF CallerEnds, Deliverer, wait
      <3> QED
        BY <1>1, <2>1, <3>1, ScanRests DEF WaitInv, ScanInv, Speaks
    <2>3. CASE Worker \/ (\E r \in Reply : Deliver(r)) \/ Cut
      BY <1>1, <2>1, <2>3, ReaderTakesScans, ReaderSendsScans, HistoryScans, DeliverScans, CutScans
         DEF Worker, WaitInv, ScanInv, Speaks
    <2> QED
      BY <1>3, <2>2, <2>3
  <1>4. CASE Waiter \/ TickerReads \/ PollCustody
    <2>1. Speaks
      BY <1>1, <1>4, WaiterSpeaks
    <2>2. CASE Start \/ LoopEnds \/ PollEnds \/ FinishWait \/ TickerReads \/ PollCustody
      <3>1. /\ UNCHANGED <<landed, workers, stopped, todo, current, seen, putOff>>
            /\ \/ point' = point
               \/ point \notin {"items", "item"} /\ point' \in {"stop", "poll", "final", "return", "done"}
               \/ point = "start" /\ point' = "subscribe"
        BY <2>2 DEF Start, LoopEnds, PollEnds, FinishWait, TickerReads, PollCustody, ReturnWith
      <3> QED
        BY <1>1, <2>1, <3>1, ScanRests DEF WaitInv, ScanInv, Speaks
    <2>3. CASE SubscribeThread \/ TakeHistory \/ TakeEvent \/ ObserveHistory \/ ObserveEvent \/ StopWorkers \/ Returns
      BY <1>1, <2>1, <2>3, SubscribeScans, TakeHistoryScans, TakeEventScans, ObserveScans, StopScans
         DEF WaitInv, ScanInv, Speaks
    <2> QED
      BY <1>4, <2>2, <2>3 DEF Waiter
  <1> QED
    BY <1>2, <1>3, <1>4 DEF WaitNext, Environment

LEMMA InitWaits == WaitInit => WaitInv
  <1> SUFFICES ASSUME WaitInit PROVE WaitInv
    OBVIOUS
  <1>1. Pending.kind = "pending" /\ NoResult.kind = "none"
    BY DEF Pending, NoResult, StatusOf
  <1>2. ScanTypes
    <2>1. <<>> \in Seq(Reply) /\ <<>> \in Seq(Reply \cup {"gap"}) /\ Len(<<>>) <= EventBuffer
      BY EmptyRange, WaitAssumption
    <2> QED
      BY <2>1 DEF WaitInit, ScanTypes, WaitPoints
  <1>3. CustodyInv
    BY <1>1 DEF WaitInit, CustodyInv, Told, ToldBy, WaitKinds
  <1>4. HandsInv /\ FlowInv
    BY DEF WaitInit, HandsInv, FlowInv, Hears, Looping
  <1> QED
    BY <1>2, <1>3, <1>4 DEF WaitInv

\* Service.Wait answers what custody decided, loses no item between its subscription, its history
\* and its last read, and reports an incomplete wait only after a read that found nothing decided.
THEOREM WaitingMissesNothing == WaitSpec => WaitMissesNothing
  <1>1. ASSUME WaitInv PROVE AnswerIsCustodys /\ NothingFallsBetween
    <2>1. AnswerIsCustodys
      BY <1>1 DEF WaitInv, CustodyInv, Told, ToldBy, AnswerIsCustodys
    <2>2. NothingFallsBetween
      BY <1>1 DEF WaitInv, HandsInv, FlowInv, Hears, Looping, Handled, Untold, NothingFallsBetween
    <2> QED
      BY <2>1, <2>2
  <1>2. WaitInv /\ [WaitNext]_waitVars =>
          WaitInv' /\ [result'.kind = "incomplete" /\ result' # result /\ result'.reply = "read" =>
                         winner = NoReply /\ \A r \in Reply : cst'[r] # "unknown"]_waitVars
    BY WaitKeepsInv DEF Honest
  <1> QED
    BY <1>1, <1>2, InitWaits, PTL DEF WaitSpec, WaitMissesNothing, IncompleteIsHonest

\* The channels, the goroutines and the status of a wait keep values of their types, and the event
\* channel never holds more than its capacity.
THEOREM WaitTyped == WaitSpec => []WaitTypeOK
  <1>1. WaitInv => WaitTypeOK
    BY DEF WaitInv, ScanTypes, CustodyInv, WaitTypeOK, WaitPoints, WaitKinds
  <1>2. WaitInv /\ [WaitNext]_waitVars => WaitInv'
    BY WaitKeepsInv
  <1> QED
    BY <1>1, <1>2, InitWaits, PTL DEF WaitSpec
=============================================================================
