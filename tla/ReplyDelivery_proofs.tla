------------------------ MODULE ReplyDelivery_proofs ------------------------
(***************************************************************************)
(* Proofs about ReplyDelivery, for any numbers of invocations, machines,   *)
(* operations and replies, any lease, staleness and number of tries.       *)
(*                                                                         *)
(* The two journals come first: every step of the composition is a step of *)
(* each or leaves it alone, so that what OperationJournal_proofs and       *)
(* ReplyCustody_proofs show of any behaviour of a journal holds here.  The *)
(* rest of the invariant says what an invocation that has come to a point  *)
(* of reply knows: which rows are its own, on which side of the fence they *)
(* stand, and whether its body has left.                                   *)
(***************************************************************************)
EXTENDS ReplyDelivery, TLAPS

LocalP == INSTANCE OperationJournal_proofs WITH
    Message <- Op, Meta <- {Same},
    owner <- attemptOwner, left <- attemptLeft, granted <- attemptToken,
    events <- opEvents, receipt <- opReceipt
CustodyP == INSTANCE ReplyCustody_proofs WITH
    Holder <- Invocation, Body <- {Same}, Item <- {},
    state <- claimState, owner <- claimOwner, left <- claimLeft, granted <- claimToken

\* The assumptions under which the two journals' theorems hold.
LEMMA JournalAssumptions ==
    /\ Lease \in Nat \ {0} /\ MaxStale \in Nat
    /\ None \notin Op /\ None \notin {Same} /\ None \notin Invocation
    /\ CustodyP!IsFiniteSet(Reply)
    /\ None \notin Reply \cup Original \cup Invocation \cup {Same} \cup {}
  BY JournalAssumption DEF IsFiniteSet, CustodyP!IsFiniteSet

-----------------------------------------------------------------------------
(* The composition implements its journals. *)

\* The definitions of Local and LocalP, and of Custody and CustodyP, are the
\* same ones: the proof modules extend the modules they are about.
LEMMA SameJournals ==
    /\ Local!Init => LocalP!Init
    /\ Local!Next => LocalP!Next
    /\ Local!vars = LocalP!vars
    /\ Custody!Init => CustodyP!Init
    /\ Custody!Next => CustodyP!Next
    /\ Custody!vars = CustodyP!vars
  <1>1. Local!Next => LocalP!Next
    BY DEF Local!identity, LocalP!identity, Local!lease, LocalP!lease, Local!manual,
     LocalP!manual, Local!vars, LocalP!vars, Local!Assertion, LocalP!Assertion, Local!Open,
     LocalP!Open, Local!Sent, LocalP!Sent, Local!State, LocalP!State, Local!MessageIsFree,
     LocalP!MessageIsFree, Local!MoveTo, LocalP!MoveTo, Local!MayFence, LocalP!MayFence,
     Local!RecoversToken, LocalP!RecoversToken, Local!PrepareNew, LocalP!PrepareNew,
     Local!PrepareAgain, LocalP!PrepareAgain, Local!ImportPortable, LocalP!ImportPortable,
     Local!MarkDispatchStartedOwned, LocalP!MarkDispatchStartedOwned,
     Local!HeartbeatAttempt, LocalP!HeartbeatAttempt, Local!ValidResult, LocalP!ValidResult,
     Local!RecordResult, LocalP!RecordResult, Local!RecordAccepted, LocalP!RecordAccepted,
     Local!Resolvable, LocalP!Resolvable, Local!RecordManualResolution,
     LocalP!RecordManualResolution, Local!ResolveFirst, LocalP!ResolveFirst,
     Local!ResolveAgain, LocalP!ResolveAgain, Local!ResolveWithReceipt,
     LocalP!ResolveWithReceipt, Local!Orphaned, LocalP!Orphaned, Local!Recovered,
     LocalP!Recovered, Local!RecoverOrphans, LocalP!RecoverOrphans, Local!Tick, LocalP!Tick,
     Local!Next, LocalP!Next
  <1>2. Custody!Next => CustodyP!Next
    BY DEF Custody!Cardinality, CustodyP!Cardinality, Custody!claim, CustodyP!claim,
     Custody!winners, CustodyP!winners, Custody!unknown, CustodyP!unknown, Custody!vars,
     CustodyP!vars, Custody!Decided, CustodyP!Decided, Custody!State, CustodyP!State,
     Custody!IsNextCommit, CustodyP!IsNextCommit, Custody!CommitAs, CustodyP!CommitAs,
     Custody!AssignReplyCommit, CustodyP!AssignReplyCommit, Custody!Orders, CustodyP!Orders,
     Custody!ExpireAll, CustodyP!ExpireAll, Custody!Due, CustodyP!Due, Custody!Holds,
     CustodyP!Holds, Custody!Observable, CustodyP!Observable, Custody!RecordObservation,
     CustodyP!RecordObservation, Custody!PrepareOriginal, CustodyP!PrepareOriginal,
     Custody!ClaimNew, CustodyP!ClaimNew, Custody!ClaimExisting, CustodyP!ClaimExisting,
     Custody!ClaimReply, CustodyP!ClaimReply, Custody!Heartbeat, CustodyP!Heartbeat,
     Custody!CommitReply, CustodyP!CommitReply, Custody!AbandonReply, CustodyP!AbandonReply,
     Custody!ExpireClaims, CustodyP!ExpireClaims, Custody!OriginalStatus,
     CustodyP!OriginalStatus, Custody!ObserveReply, CustodyP!ObserveReply,
     Custody!ReconcileReplyObservation, CustodyP!ReconcileReplyObservation,
     Custody!ReconcileReplyObservationWithReceipt,
     CustodyP!ReconcileReplyObservationWithReceipt, Custody!ReconcileReplyAccepted,
     CustodyP!ReconcileReplyAccepted, Custody!Tick, CustodyP!Tick, Custody!Next,
     CustodyP!Next
  <1>3. Local!vars = LocalP!vars /\ Custody!vars = CustodyP!vars
    BY DEF Local!vars, LocalP!vars, Custody!vars, CustodyP!vars
  <1>4. (Local!Init => LocalP!Init) /\ (Custody!Init => CustodyP!Init)
    BY DEF Local!Init, LocalP!Init, Custody!Init, CustodyP!Init
  <1> QED
    BY <1>1, <1>2, <1>3, <1>4

\* Every call an invocation makes is a transaction of the journal it calls.
LEMMA LocalStep == [Next]_vars => [Local!Next]_local
  <1>1. ASSUME NEW i \in Invocation, Step(i) PROVE [Local!Next]_local
    <2>0. uses[i] \in Op /\ TRUE \in BOOLEAN /\ FALSE \in BOOLEAN
      BY InvocationAssumption
    <2>1. CASE Prepare(i)
      BY <2>0, <2>1 DEF Prepare, JoinPrepared, Local!Next
    <2>2. CASE FailedReplyClaim(i) \/ ResumeFailed(i)
      <3>1. "not_sent" \in Local!State
        BY DEF Local!State
      <3> QED
        BY <2>0, <2>2, <3>1 DEF FailedReplyClaim, ResumeFailed, Local!Next
    <2>3. CASE Fence(i)
      BY <2>0, <2>3 DEF Fence, Local!Next
    <2>4. CASE Record(i)
      <3>1. \A s : Local!RecordResult(uses[i], s) => s \in Local!State
        BY DEF Local!RecordResult, Local!ValidResult, Local!State, Local!Sent
      <3> QED
        BY <2>0, <2>4, <3>1 DEF Record, Local!Next
    <2>5. CASE UNCHANGED local
      BY <2>5
    <2> QED
      BY <1>1, <2>1, <2>2, <2>3, <2>4, <2>5 DEF Step, ClaimReply, Resume, Release, FenceFailed,
         Dispatch, Check, Abort, Abandon, Commit
  <1>2. ASSUME NEW i \in Invocation, Heartbeat(i) \/ Crash(i) PROVE UNCHANGED local
    BY <1>2 DEF Heartbeat, Crash
  <1>3. CASE Request \/ Poll
    BY <1>3 DEF Request, Poll
  <1>4. CASE Tick
    BY <1>4 DEF Tick, Local!Next
  <1>5. CASE UNCHANGED vars
    BY <1>5 DEF vars
  <1> QED
    BY <1>1, <1>2, <1>3, <1>4, <1>5 DEF Next

LEMMA CustodyStep == [Next]_vars => [Custody!Next]_custody
  <1>1. ASSUME NEW i \in Invocation, Step(i) \/ Heartbeat(i) \/ Crash(i)
        PROVE  [Custody!Next]_custody
    <2>0. /\ delivers[i] \in Reply /\ answers[delivers[i]] \in Original
          /\ Same \in {Same} /\ TRUE \in BOOLEAN /\ FALSE \in BOOLEAN
      BY InvocationAssumption
    <2>1. CASE ClaimReply(i)
      <3>1. \A answered \in BOOLEAN :
               Custody!ClaimNew(i, delivers[i], answers[delivers[i]], Same, answered) => Custody!Next
        BY <2>0 DEF Custody!Next, Custody!ClaimReply
      <3>2. Custody!ClaimExisting(i, delivers[i], answers[delivers[i]], Same) => Custody!Next
        BY <2>0 DEF Custody!Next, Custody!ClaimReply
      <3> QED
        BY <2>0, <2>1, <3>1, <3>2 DEF ClaimReply, JoinClaim
    <2>2. CASE Release(i) \/ FenceFailed(i) \/ Abort(i) \/ Abandon(i)
      BY <2>0, <2>2 DEF Release, FenceFailed, Abort, Abandon, AbandonOrFail, Custody!Next
    <2>3. CASE Commit(i)
      BY <2>0, <2>3 DEF Commit, Custody!Next
    <2>4. CASE Heartbeat(i)
      BY <2>0, <2>4 DEF Heartbeat, Custody!Next
    <2>5. CASE UNCHANGED custody
      BY <2>5
    <2> QED
      BY <1>1, <2>1, <2>2, <2>3, <2>4, <2>5 DEF Step, Prepare, FailedReplyClaim, Resume,
         ResumeFailed, Fence, Dispatch, Check, Record, Crash
  <1>2. CASE Request \/ Poll
    BY <1>2 DEF Request, Poll, Custody!Next
  <1>3. CASE Tick
    BY <1>3 DEF Tick, Custody!Next
  <1>4. CASE UNCHANGED vars
    BY <1>4 DEF vars
  <1> QED
    BY <1>1, <1>2, <1>3, <1>4 DEF Next

\* reply calls the operation journal of its machine only as that journal
\* allows, whichever invocations share it, fail or crash.
THEOREM ImplementsLocal == Spec => Local!Spec
  <1>1. Init => Local!Init
    BY DEF Init
  <1>2. [Next]_vars => [Local!Next]_(Local!vars)
    BY LocalStep DEF Local!vars, local
  <1> QED
    BY <1>1, <1>2, PTL DEF Spec, Local!Spec

\* So do deliverers, waiter and clock with custody.
THEOREM ImplementsCustody == Spec => Custody!Spec
  <1>1. Init => Custody!Init
    BY DEF Init
  <1>2. [Next]_vars => [Custody!Next]_(Custody!vars)
    BY CustodyStep DEF Custody!vars, custody
  <1> QED
    BY <1>1, <1>2, PTL DEF Spec, Custody!Spec

JournalInv == LocalP!IInv /\ CustodyP!IInv

LEMMA InitJournalInv == Init => JournalInv
  BY JournalAssumptions, LocalP!InitIInv, CustodyP!InitIInv, SameJournals DEF Init, JournalInv

LEMMA NextJournalInv == JournalInv /\ [Next]_vars => JournalInv'
  <1> SUFFICES ASSUME JournalInv, [Next]_vars PROVE JournalInv'
    OBVIOUS
  <1>1. [LocalP!Next]_(LocalP!vars)
    BY LocalStep, SameJournals DEF LocalP!vars, local
  <1>2. [CustodyP!Next]_(CustodyP!vars)
    BY CustodyStep, SameJournals DEF CustodyP!vars, custody
  <1> QED
    BY <1>1, <1>2, JournalAssumptions, LocalP!NextIInv, CustodyP!NextIInv DEF JournalInv

\* What the journals' invariants say, in the terms of this module.
JournalSays ==
    /\ Local!TypeOK /\ Custody!TypeOK
    /\ \A o \in Op :
        /\ opState[o] = "absent" => attemptOwner[o] = None
        /\ opState[o] \in {"absent", "prepared", "not_sent"} => o \notin fenced
        /\ opState[o] = "dispatch_started" => o \in fenced
    /\ \A i \in Invocation, o \in Op : o \in attemptToken[i] => attemptOwner[o] = i
    /\ \A i \in Invocation, r \in Reply : r \in claimToken[i] => claimOwner[r] = i

LEMMA JournalFacts == JournalInv => JournalSays
  <1> SUFFICES ASSUME JournalInv PROVE JournalSays
    OBVIOUS
  <1>1. Local!TypeOK
    BY DEF JournalInv, LocalP!IInv, LocalP!TypeOK, Local!TypeOK, LocalP!State, Local!State,
       LocalP!Open, Local!Open, LocalP!Sent, Local!Sent, LocalP!Assertion, Local!Assertion
  <1>2. Custody!TypeOK
    BY DEF JournalInv, CustodyP!IInv, CustodyP!TypeOK, Custody!TypeOK, CustodyP!State,
       Custody!State, CustodyP!Decided, Custody!Decided
  <1>3. \A o \in Op : opState[o] = "absent" => attemptOwner[o] = None
    BY DEF JournalInv, LocalP!IInv, LocalP!RowInv, LocalP!AbsentIsBlank
  <1>4. /\ \A o \in Op : opState[o] \in {"absent", "prepared", "not_sent"} => o \notin fenced
        /\ \A o \in Op : opState[o] = "dispatch_started" => o \in fenced
    BY DEF JournalInv, LocalP!IInv, LocalP!FenceInv, LocalP!FenceDividesEvidence, LocalP!Sent
  <1>5. \A i \in Invocation, o \in Op : o \in attemptToken[i] => attemptOwner[o] = i
    BY DEF JournalInv, LocalP!IInv, LocalP!AuthInv, LocalP!TokenOnlyToOwner
  <1>6. \A i \in Invocation, r \in Reply : r \in claimToken[i] => claimOwner[r] = i
    BY DEF JournalInv, CustodyP!IInv, CustodyP!TokenOnlyToOwner
  <1> QED
    BY <1>1, <1>2, <1>3, <1>4, <1>5, <1>6 DEF JournalSays

LEMMA NextJournalFacts == JournalInv' => JournalSays'
  BY JournalFacts, PTL

-----------------------------------------------------------------------------
(* The invariant of the control flow. *)

Unfenced == {"claim", "claimFailed", "resume", "resumeFailed", "fence"}
Sending  == {"dispatch", "check", "abort", "abandon", "commit", "record"}
Working  == Unfenced \cup Sending \cup {"release", "fenceFailed"}
Unsent   == Unfenced \cup {"prepare", "release", "fenceFailed", "dispatch"}
MaySend  == {"claim", "resume", "fence", "dispatch"}

FlowTypeOK ==
    /\ pc \in [Invocation -> Label]
    /\ heartbeat \in [Invocation -> {"off", "on", "failed"}]
    /\ verdict \in [Invocation -> {"prepared", "accepted", "rejected", "outcome_unknown"}]
    /\ tries \in [Invocation -> 0..MaxTries]
    /\ copies \in [Invocation -> 0..MaxTries]
    /\ result \in [Invocation -> Local!State \cup Custody!State \cup {"none"}]

\* An invocation at work owns its operation row, which is on the side of the
\* fence its control state says, and from resume on it holds the claim.
OwnsRow(i) ==
    /\ pc[i] \in Working => attemptOwner[uses[i]] = i
    /\ pc[i] \in Unfenced => opState[uses[i]] = "prepared"
    /\ pc[i] \in Sending => opState[uses[i]] = "dispatch_started"
    /\ pc[i] \in Working \ {"claim", "claimFailed"} => delivers[i] \in claimToken[i]

\* A body that was admitted left under the fence and the claim of its sender,
\* once; a rejected one was not admitted.
CopiesInv(i) ==
    /\ copies[i] \in {0, 1}
    /\ pc[i] \in Unsent => copies[i] = 0
    /\ copies[i] = 1 => /\ attemptOwner[uses[i]] = i /\ uses[i] \in fenced
                        /\ delivers[i] \in claimToken[i]
    /\ opState[uses[i]] = "rejected" => copies[i] = 0

TriesInv(i) ==
    /\ pc[i] \in Unsent \ {"dispatch"} => tries[i] = 0
    /\ pc[i] = "dispatch" => tries[i] < MaxTries

\* What the invocation is about to say is true of its body and its claim.
VerdictInv(i) ==
    /\ pc[i] \in {"check", "abandon", "commit", "record"} =>
          /\ verdict[i] # "prepared"
          /\ verdict[i] = "accepted" => copies[i] = 1
          /\ verdict[i] = "rejected" => copies[i] = 0
    /\ pc[i] = "abandon" => verdict[i] # "accepted"
    /\ pc[i] = "commit" => verdict[i] = "accepted"
    /\ pc[i] = "record" /\ verdict[i] = "accepted" => claimState[delivers[i]] = "reply_accepted"

\* What was said stays true: nobody can submit the body any more.
ResultInv(i) ==
    /\ result[i] \in {"not_sent", "rejected"} =>
          /\ opState[uses[i]] # "absent"
          /\ \A j \in Invocation : uses[j] = uses[i] => copies[j] = 0 /\ pc[j] \notin MaySend
    /\ result[i] \in {"accepted", "reply_accepted"} =>
          \E j \in Invocation : delivers[j] = delivers[i] /\ copies[j] = 1

\* The lease of the attempt, which began first, ends first.
LeaseInv(i) ==
    pc[i] \in {"resume", "fence"} /\ attemptLeft[uses[i]] > 0 =>
        claimState[delivers[i]] = "reply_claimed" /\ attemptLeft[uses[i]] <= claimLeft[delivers[i]]

FlowInv(i) == OwnsRow(i) /\ CopiesInv(i) /\ TriesInv(i) /\ VerdictInv(i)

IInv ==
    /\ JournalInv /\ FlowTypeOK /\ EvidenceIsTrue
    /\ \A i \in Invocation : FlowInv(i) /\ LeaseInv(i) /\ ResultInv(i)

LEMMA InitIInv == Init => IInv
  <1> SUFFICES ASSUME Init PROVE IInv
    OBVIOUS
  <1>1. JournalInv
    BY InitJournalInv
  <1>2. FlowTypeOK
    BY TriesAssumption DEF Init, FlowTypeOK, Label
  <1>3. /\ opState = [o \in Op |-> "absent"] /\ claimState = [r \in Reply |-> "absent"]
    BY DEF Init, Local!Init, Custody!Init
  <1>4. EvidenceIsTrue
    BY <1>3, InvocationAssumption DEF Init, EvidenceIsTrue, Copies
  <1>5. ASSUME NEW i \in Invocation PROVE FlowInv(i) /\ LeaseInv(i) /\ ResultInv(i)
    BY <1>3, InvocationAssumption DEF Init, FlowInv, OwnsRow, CopiesInv, TriesInv, VerdictInv,
       LeaseInv, ResultInv, Unfenced, Sending, Working, Unsent
  <1> QED
    BY <1>1, <1>2, <1>4, <1>5 DEF IInv

-----------------------------------------------------------------------------
(* What a step leaves alone. *)

\* The rows of the other owners are as they were, and no row disappears or
\* loses its fence.
LocalKept(i) ==
    /\ \A o \in Op : attemptOwner[o] \notin {None, i} =>
          /\ opState'[o] = opState[o] /\ attemptOwner'[o] = attemptOwner[o]
          /\ attemptLeft'[o] = attemptLeft[o]
    /\ \A o \in Op : opState[o] # "absent" => opState'[o] # "absent"
    /\ fenced \subseteq fenced'

\* Claims whose token is not in R stay in their leases; an accepted claim
\* stays accepted, and no token is taken back.
CustodyKept(R) ==
    /\ \A j \in Invocation : claimToken[j] \subseteq claimToken'[j]
    /\ \A r \in Reply : claimState[r] = "reply_accepted" => claimState'[r] = "reply_accepted"
    /\ \A r \in Reply \ R : claimState[r] = "reply_claimed" /\ claimLeft[r] > 0 =>
          claimState'[r] = "reply_claimed" /\ claimLeft[r] <= claimLeft'[r]

\* No claim becomes accepted.
NoneAccepted ==
    \A r \in Reply : claimState'[r] = "reply_accepted" => claimState[r] = "reply_accepted"

LEMMA PrepareKeeps ==
    ASSUME JournalInv, NEW i \in Invocation, NEW o \in Op, NEW answered \in BOOLEAN,
           Local!PrepareNew(i, o, o, Same, answered)
    PROVE  /\ LocalKept(i)
           /\ opState[o] = "absent" /\ opState'[o] = "prepared" /\ attemptOwner'[o] = i
           /\ attemptLeft'[o] = Lease
           /\ \A p \in Op \ {o} : opState'[p] = opState[p]
  <1>1. opState \in [Op -> Local!State \cup {"absent"}] /\ attemptOwner \in [Op -> Invocation \cup {None}]
        /\ attemptLeft \in [Op -> (-MaxStale)..Lease]
    BY JournalFacts DEF JournalSays, Local!TypeOK
  <1>2. attemptOwner[o] = None
    BY JournalFacts DEF JournalSays, Local!PrepareNew
  <1> QED
    BY <1>1, <1>2 DEF Local!PrepareNew, Local!manual, LocalKept

LEMMA RecordKeeps ==
    ASSUME JournalInv, NEW i \in Invocation, NEW o \in Op, attemptOwner[o] = i, NEW s,
           Local!RecordResult(o, s)
    PROVE  /\ LocalKept(i)
           /\ opState'[o] = s /\ \A p \in Op \ {o} : opState'[p] = opState[p]
           /\ UNCHANGED <<attemptOwner, attemptLeft, fenced>>
  BY JournalFacts DEF JournalSays, Local!RecordResult, Local!ValidResult, Local!MoveTo, Local!lease,
     Local!TypeOK, LocalKept

LEMMA FenceKeeps ==
    ASSUME JournalInv, NEW i \in Invocation, NEW o \in Op,
           Local!MarkDispatchStartedOwned(i, o)
    PROVE  /\ LocalKept(i)
           /\ attemptOwner[o] = i /\ attemptLeft[o] > 0
           /\ opState'[o] = "dispatch_started" /\ \A p \in Op \ {o} : opState'[p] = opState[p]
           /\ UNCHANGED <<attemptOwner, attemptLeft>> /\ fenced' = fenced \cup {o}
  BY JournalFacts DEF JournalSays, Local!MarkDispatchStartedOwned, Local!MayFence, Local!MoveTo, Local!lease,
     Local!TypeOK, LocalKept

\* Whoever calls custody, only the holder of a claim ends it in its lease.
LEMMA ExpiryKeeps ==
    ASSUME JournalInv, NEW S \in SUBSET Reply, Custody!ExpireAll(S), UNCHANGED <<claimToken, claimLeft>>,
           \A r \in S : claimState[r] = "reply_claimed"
    PROVE  CustodyKept(S) /\ NoneAccepted
  BY JournalFacts DEF JournalSays, Custody!ExpireAll, Custody!TypeOK, CustodyKept, NoneAccepted

LEMMA AbandonKeeps ==
    ASSUME JournalInv, NEW i \in Invocation, NEW r \in Reply,
           Custody!AbandonReply(i, r) \/ UNCHANGED custody
    PROVE  CustodyKept({r} \cap claimToken[i]) /\ NoneAccepted
  <1>1. CASE Custody!AbandonReply(i, r)
    <2>1. /\ r \in claimToken[i] /\ claimState[r] = "reply_claimed" /\ Custody!ExpireAll({r})
          /\ UNCHANGED <<claimToken, claimLeft>>
      BY <1>1 DEF Custody!AbandonReply, Custody!Holds
    <2> QED
      BY <2>1, ExpiryKeeps DEF CustodyKept
  <1>2. CASE UNCHANGED custody
    BY <1>2, JournalFacts DEF JournalSays, custody, CustodyKept, NoneAccepted, Custody!TypeOK
  <1> QED
    BY <1>1, <1>2

LEMMA CommitKeeps ==
    ASSUME JournalInv, NEW i \in Invocation, NEW r \in Reply,
           Custody!CommitReply(i, r) \/ UNCHANGED custody
    PROVE  /\ CustodyKept({r} \cap claimToken[i])
           /\ \A q \in Reply \ {r} : claimState'[q] = "reply_accepted" => claimState[q] = "reply_accepted"
  <1>1. CASE Custody!CommitReply(i, r) /\ claimLeft[r] > 0
    <2>1. /\ r \in claimToken[i] /\ claimState' = [claimState EXCEPT ![r] = "reply_accepted"]
          /\ UNCHANGED <<claimToken, claimLeft>>
      BY <1>1, JournalFacts DEF JournalSays, Custody!CommitReply, Custody!Holds, Custody!TypeOK
    <2> QED
      BY <2>1, JournalFacts DEF JournalSays, CustodyKept, Custody!TypeOK
  <1>2. CASE Custody!CommitReply(i, r) /\ claimLeft[r] <= 0
    <2>1. /\ r \in claimToken[i] /\ claimState[r] = "reply_claimed" /\ Custody!ExpireAll({r})
          /\ UNCHANGED <<claimToken, claimLeft>>
      BY <1>2, JournalFacts, JournalAssumption DEF JournalSays, Custody!CommitReply, Custody!Holds, Custody!TypeOK
    <2> QED
      BY <2>1, ExpiryKeeps DEF CustodyKept, NoneAccepted
  <1>3. CASE UNCHANGED custody
    BY <1>3, JournalFacts DEF JournalSays, custody, CustodyKept, Custody!TypeOK
  <1> QED
    BY <1>1, <1>2, <1>3, JournalFacts, JournalAssumption DEF JournalSays, Custody!TypeOK

LEMMA ClaimNewKeeps ==
    ASSUME JournalInv, NEW i \in Invocation, NEW r \in Reply, NEW o \in Original,
           NEW answered \in BOOLEAN, Custody!ClaimNew(i, r, o, Same, answered)
    PROVE  /\ CustodyKept({}) /\ NoneAccepted
           /\ claimState'[r] = "reply_claimed" /\ claimLeft'[r] = Lease
           /\ answered => r \in claimToken'[i]
  BY JournalFacts DEF JournalSays, Custody!ClaimNew, Custody!TypeOK, CustodyKept, NoneAccepted

LEMMA ExpiredKeeps ==
    ASSUME JournalInv, NEW stale \in 0..MaxStale, NEW S \in SUBSET Custody!Due(stale),
           Custody!ExpireAll(S), UNCHANGED <<claimToken, claimLeft>>
    PROVE  CustodyKept({}) /\ NoneAccepted
  <1>1. S \in SUBSET Reply /\ \A r \in S : claimState[r] = "reply_claimed"
    BY DEF Custody!Due
  <1>2. CustodyKept(S) /\ NoneAccepted
    BY <1>1, ExpiryKeeps
  <1>3. \A r \in S : ~(claimLeft[r] > 0)
    BY JournalFacts, JournalAssumption DEF JournalSays, Custody!TypeOK, Custody!Due
  <1> QED
    BY <1>2, <1>3 DEF CustodyKept

LEMMA CustodyStill ==
    ASSUME JournalInv, UNCHANGED <<claimState, claimToken, claimLeft>>
    PROVE  (\A R : CustodyKept(R)) /\ NoneAccepted
  BY JournalFacts DEF JournalSays, Custody!TypeOK, CustodyKept, NoneAccepted

LEMMA ClaimExistingKeeps ==
    ASSUME JournalInv, NEW i \in Invocation, NEW r \in Reply, NEW o \in Original,
           Custody!ClaimExisting(i, r, o, Same)
    PROVE  CustodyKept({}) /\ NoneAccepted
  <1>1. CASE r \in Custody!Due(0)
    <2>1. {r} \in SUBSET Custody!Due(0) /\ 0 \in 0..MaxStale
      BY <1>1, JournalAssumption
    <2> QED
      BY <1>1, <2>1, ExpiredKeeps DEF Custody!ClaimExisting
  <1>2. CASE r \notin Custody!Due(0)
    BY <1>2, CustodyStill DEF Custody!ClaimExisting
  <1> QED
    BY <1>1, <1>2

LEMMA HeartbeatKeeps ==
    ASSUME JournalInv, NEW i \in Invocation, NEW r \in Reply,
           Custody!Heartbeat(i, r) \/ UNCHANGED custody
    PROVE  CustodyKept({}) /\ NoneAccepted
  <1>1. CASE Custody!Heartbeat(i, r)
    BY <1>1, JournalFacts DEF JournalSays, Custody!Heartbeat, Custody!TypeOK, Custody!claim,
       CustodyKept, NoneAccepted
  <1>2. CASE UNCHANGED custody
    BY <1>2, CustodyStill DEF custody
  <1> QED
    BY <1>1, <1>2

LEMMA WaiterKeeps ==
    ASSUME JournalInv, Request \/ Poll
    PROVE  CustodyKept({}) /\ NoneAccepted
  <1>1. CASE Request
    BY <1>1, CustodyStill DEF Request, Custody!PrepareOriginal, Custody!claim
  <1>2. ASSUME NEW stale \in 0..MaxStale, Custody!ExpireClaims(stale)
        PROVE  CustodyKept({}) /\ NoneAccepted
    BY <1>2, ExpiredKeeps DEF Custody!ExpireClaims
  <1>3. ASSUME NEW o \in Original, Custody!OriginalStatus(o)
        PROVE  CustodyKept({}) /\ NoneAccepted
    <2>1. 0 \in 0..MaxStale
      BY JournalAssumption
    <2> QED
      BY <1>3, <2>1, ExpiredKeeps DEF Custody!OriginalStatus
  <1> QED
    BY <1>1, <1>2, <1>3 DEF Poll

-----------------------------------------------------------------------------
(* From one invocation's step to all of them. *)

\* What an invocation relies on while others move.
Undisturbed(j) ==
    /\ pc'[j] = pc[j] /\ verdict'[j] = verdict[j] /\ tries'[j] = tries[j] /\ copies'[j] = copies[j]
    /\ attemptOwner[uses[j]] = j =>
          /\ opState'[uses[j]] = opState[uses[j]] /\ attemptOwner'[uses[j]] = j
          /\ attemptLeft'[uses[j]] = attemptLeft[uses[j]]
    /\ fenced \subseteq fenced'
    /\ claimState[delivers[j]] = "reply_accepted" => claimState'[delivers[j]] = "reply_accepted"
    /\ delivers[j] \in claimToken[j] =>
          /\ delivers[j] \in claimToken'[j]
          /\ claimState[delivers[j]] = "reply_claimed" /\ claimLeft[delivers[j]] > 0 =>
                claimState'[delivers[j]] = "reply_claimed" /\ claimLeft[delivers[j]] <= claimLeft'[delivers[j]]

\* What a step adds to the evidence, and the authority it needs to add it.
Grows ==
    /\ \A j \in Invocation : copies[j] = 1 => copies'[j] = 1
    /\ \A j \in Invocation :
          copies'[j] # copies[j] \/ pc'[j] \in MaySend => pc[j] \in MaySend \/ opState[uses[j]] = "absent"
    /\ \A o \in Op : opState[o] # "absent" => opState'[o] # "absent"
    /\ \A o \in Op : opState'[o] = "accepted" /\ opState[o] # "accepted" =>
          \E j \in Invocation : /\ uses[j] = o /\ copies[j] = 1
                                /\ claimState[delivers[j]] = "reply_accepted"
    /\ \A r \in Reply : claimState[r] = "reply_accepted" => claimState'[r] = "reply_accepted"
    /\ \A r \in Reply : claimState'[r] = "reply_accepted" /\ claimState[r] # "reply_accepted" =>
          \E j \in Invocation : delivers[j] = r /\ copies[j] = 1

LEMMA UndisturbedKept ==
    ASSUME IInv, JournalInv', NEW j \in Invocation, Undisturbed(j)
    PROVE  FlowInv(j)' /\ LeaseInv(j)'
  <1>1. FlowInv(j) /\ LeaseInv(j) /\ uses[j] \in Op /\ delivers[j] \in Reply
    BY InvocationAssumption DEF IInv
  <1>2. OwnsRow(j)'
    BY <1>1 DEF FlowInv, OwnsRow, Undisturbed, Working, Unfenced, Sending
  <1>3. CopiesInv(j)'
    BY <1>1 DEF FlowInv, CopiesInv, Undisturbed
  <1>4. TriesInv(j)' /\ VerdictInv(j)'
    BY <1>1 DEF FlowInv, TriesInv, VerdictInv, Undisturbed
  <1>5. LeaseInv(j)'
    <2>1. /\ attemptLeft[uses[j]] \in Int /\ claimLeft[delivers[j]] \in Int
          /\ claimLeft'[delivers[j]] \in Int
      BY <1>1, JournalFacts, NextJournalFacts, JournalAssumption
         DEF IInv, JournalSays, Local!TypeOK, Custody!TypeOK
    <2>2. pc[j] \in {"resume", "fence"} => attemptOwner[uses[j]] = j /\ delivers[j] \in claimToken[j]
      BY <1>1 DEF FlowInv, OwnsRow, Working, Unfenced
    <2> QED
      BY <1>1, <2>1, <2>2 DEF LeaseInv, Undisturbed
  <1> QED
    BY <1>2, <1>3, <1>4, <1>5 DEF FlowInv

LEMMA EvidenceKept ==
    ASSUME IInv, JournalInv', Grows, \A i \in Invocation : CopiesInv(i)'
    PROVE  EvidenceIsTrue'
  <1>1. ASSUME NEW o \in Op, opState'[o] \in {"absent", "prepared", "not_sent", "rejected"}
        PROVE  Copies(o)' = {}
    <2>1. o \notin fenced' \/ opState'[o] = "rejected"
      BY <1>1, NextJournalFacts DEF JournalSays
    <2>2. \A i \in Invocation : uses[i] = o => copies'[i] = 0
      BY <2>1 DEF CopiesInv
    <2> QED
      BY <2>2 DEF Copies
  <1>2. ASSUME NEW o \in Op, opState'[o] = "accepted"
        PROVE  \E i \in Copies(o)' : claimState'[delivers[i]] = "reply_accepted"
    <2>1. \A i \in Invocation : copies[i] > 0 => copies[i] = 1
      BY DEF IInv, FlowInv, CopiesInv
    <2>2. PICK i \in Invocation : /\ uses[i] = o /\ copies[i] = 1
                                  /\ claimState[delivers[i]] = "reply_accepted"
      BY <1>2, <2>1 DEF IInv, EvidenceIsTrue, Copies, Grows
    <2>3. copies'[i] = 1 /\ claimState'[delivers[i]] = "reply_accepted"
      BY <2>2, InvocationAssumption DEF Grows
    <2> QED
      BY <2>2, <2>3 DEF Copies
  <1>3. ASSUME NEW r \in Reply, claimState'[r] = "reply_accepted"
        PROVE  \E i \in Invocation : delivers[i] = r /\ copies'[i] = 1
    BY <1>3 DEF IInv, EvidenceIsTrue, Grows
  <1> QED
    BY <1>1, <1>2, <1>3 DEF EvidenceIsTrue

LEMMA ResultKept ==
    ASSUME IInv, Grows, NEW i \in Invocation, result'[i] = result[i]
    PROVE  ResultInv(i)'
  <1>1. ResultInv(i) /\ uses[i] \in Op
    BY InvocationAssumption DEF IInv
  <1>2. CASE result[i] \in {"not_sent", "rejected"}
    <2>1. /\ opState[uses[i]] # "absent"
          /\ \A j \in Invocation : uses[j] = uses[i] => copies[j] = 0 /\ pc[j] \notin MaySend
      BY <1>1, <1>2 DEF ResultInv
    <2>2. opState'[uses[i]] # "absent"
      BY <1>1, <2>1 DEF Grows
    <2>3. \A j \in Invocation : uses[j] = uses[i] => copies'[j] = 0 /\ pc'[j] \notin MaySend
      BY <2>1 DEF Grows
    <2> QED
      BY <1>2, <2>2, <2>3 DEF ResultInv
  <1>3. CASE result[i] \notin {"not_sent", "rejected"}
    BY <1>1, <1>3 DEF ResultInv, Grows
  <1> QED
    BY <1>2, <1>3

\* No other invocation can send a body under a row that i owns.
LEMMA Sole ==
    ASSUME IInv, NEW i \in Invocation, attemptOwner[uses[i]] = i,
           NEW j \in Invocation \ {i}, uses[j] = uses[i]
    PROVE  copies[j] = 0 /\ pc[j] \notin MaySend
  <1>1. OwnsRow(j) /\ CopiesInv(j)
    BY DEF IInv, FlowInv
  <1> QED
    BY <1>1 DEF OwnsRow, CopiesInv, MaySend, Working, Unfenced, Sending

LEMMA UnsentIsTrue ==
    ASSUME IInv, Grows, NEW i \in Invocation, attemptOwner[uses[i]] = i,
           opState[uses[i]] # "absent", copies'[i] = 0, pc'[i] \notin MaySend,
           result'[i] \notin {"accepted", "reply_accepted"}
    PROVE  ResultInv(i)'
  <1>1. opState'[uses[i]] # "absent"
    BY InvocationAssumption DEF Grows
  <1>2. ASSUME NEW j \in Invocation, uses[j] = uses[i] PROVE copies'[j] = 0 /\ pc'[j] \notin MaySend
    BY <1>2, Sole DEF Grows
  <1> QED
    BY <1>1, <1>2 DEF ResultInv

\* A step of invocation i: what it may do to the others, and what its own
\* action has to show.
Moved(i) ==
    /\ LocalKept(i) /\ CustodyKept({delivers[i]} \cap claimToken[i])
    /\ \A j \in Invocation \ {i} :
          /\ pc'[j] = pc[j] /\ verdict'[j] = verdict[j] /\ tries'[j] = tries[j]
          /\ copies'[j] = copies[j] /\ result'[j] = result[j]
    /\ copies'[i] = copies[i] \/ pc[i] = "dispatch"
    /\ pc'[i] \in MaySend => pc[i] \in MaySend \/ opState[uses[i]] = "absent"
    /\ \A o \in Op : opState'[o] = "accepted" /\ opState[o] # "accepted" =>
          o = uses[i] /\ copies[i] = 1 /\ claimState[delivers[i]] = "reply_accepted"
    /\ \A r \in Reply : claimState'[r] = "reply_accepted" /\ claimState[r] # "reply_accepted" =>
          r = delivers[i] /\ copies[i] = 1

LEMMA MovedGrows ==
    ASSUME IInv, NEW i \in Invocation, Moved(i)
    PROVE  Grows /\ \A j \in Invocation \ {i} : Undisturbed(j)
  <1>1. Grows
    <2>1. copies[i] = 1 => copies'[i] = 1
      BY DEF Moved, IInv, FlowInv, CopiesInv, Unsent
    <2>2. pc[i] = "dispatch" => pc[i] \in MaySend
      BY DEF MaySend
    <2>3. \A r \in Reply : claimState[r] = "reply_accepted" => claimState'[r] = "reply_accepted"
      BY DEF Moved, CustodyKept
    <2>4. \A o \in Op : opState[o] # "absent" => opState'[o] # "absent"
      BY DEF Moved, LocalKept
    <2> QED
      BY <2>1, <2>2, <2>3, <2>4 DEF Moved, Grows
  <1>2. ASSUME NEW j \in Invocation \ {i} PROVE Undisturbed(j)
    <2>1. uses[j] \in Op /\ delivers[j] \in Reply /\ j \notin {None, i}
      BY InvocationAssumption, JournalAssumption
    <2>2. attemptOwner[uses[j]] = j =>
             /\ opState'[uses[j]] = opState[uses[j]] /\ attemptOwner'[uses[j]] = j
             /\ attemptLeft'[uses[j]] = attemptLeft[uses[j]]
      BY <2>1 DEF Moved, LocalKept
    <2>3. delivers[j] \in claimToken[j] => delivers[j] \notin claimToken[i]
      BY <2>1, JournalFacts DEF IInv, JournalSays
    <2>4. delivers[j] \in claimToken[j] =>
             /\ delivers[j] \in claimToken'[j]
             /\ claimState[delivers[j]] = "reply_claimed" /\ claimLeft[delivers[j]] > 0 =>
                   /\ claimState'[delivers[j]] = "reply_claimed"
                   /\ claimLeft[delivers[j]] <= claimLeft'[delivers[j]]
      BY <2>1, <2>3 DEF Moved, CustodyKept
    <2> QED
      BY <2>1, <2>2, <2>4 DEF Moved, LocalKept, CustodyKept, Undisturbed
  <1> QED
    BY <1>1, <1>2

LEMMA StepKeepsIInv ==
    ASSUME IInv, JournalInv', FlowTypeOK', NEW i \in Invocation, Moved(i),
           FlowInv(i)', LeaseInv(i)', ResultInv(i)'
    PROVE  IInv'
  <1>1. Grows /\ \A j \in Invocation \ {i} : Undisturbed(j)
    BY MovedGrows
  <1>2. ASSUME NEW j \in Invocation PROVE FlowInv(j)' /\ LeaseInv(j)' /\ ResultInv(j)'
    <2>1. CASE j = i
      BY <2>1
    <2>2. CASE j # i
      <3>1. Undisturbed(j) /\ result'[j] = result[j]
        BY <1>1, <2>2 DEF Moved
      <3> QED
        BY <1>1, <3>1, UndisturbedKept, ResultKept
    <2> QED
      BY <2>1, <2>2
  <1>3. EvidenceIsTrue'
    BY <1>1, <1>2, EvidenceKept DEF FlowInv
  <1> QED
    BY <1>2, <1>3 DEF IInv

\* What invocation i knows before its step.
LEMMA Here ==
    ASSUME IInv, NEW i \in Invocation
    PROVE  /\ uses[i] \in Op /\ delivers[i] \in Reply /\ answers[delivers[i]] \in Original
           /\ i # None
           /\ FlowTypeOK /\ OwnsRow(i) /\ CopiesInv(i) /\ TriesInv(i) /\ VerdictInv(i) /\ LeaseInv(i)
           /\ JournalInv
           /\ opState[uses[i]] \in Local!State \cup {"absent"}
           /\ claimState[delivers[i]] \in Custody!State \cup {"absent"}
           /\ attemptLeft[uses[i]] \in Int /\ attemptLeft[uses[i]] <= Lease
  BY InvocationAssumption, JournalAssumption, JournalFacts
     DEF IInv, FlowInv, JournalSays, Local!TypeOK, Custody!TypeOK

LEMMA LocalStill ==
    ASSUME NEW i, UNCHANGED local
    PROVE  LocalKept(i)
  BY DEF local, LocalKept

-----------------------------------------------------------------------------
(* The steps of an invocation. *)

LEMMA PrepareKeepsIInv ==
    ASSUME IInv, JournalInv', NEW i \in Invocation, Prepare(i)
    PROVE  IInv'
  <1>0. At(i, "prepare") /\ copies[i] = 0 /\ tries[i] = 0
    BY Here DEF Prepare, At, CopiesInv, TriesInv, Unsent
  <1>1. CASE \E answered \in BOOLEAN : Local!PrepareNew(i, uses[i], uses[i], Same, answered)
                /\ IF answered THEN Goto(i, "claim") ELSE Return(i, "none")
    <2>1. /\ LocalKept(i)
          /\ opState[uses[i]] = "absent" /\ opState'[uses[i]] = "prepared" /\ attemptOwner'[uses[i]] = i
          /\ \A p \in Op \ {uses[i]} : opState'[p] = opState[p]
      BY <1>1, Here, PrepareKeeps
    <2>2. UNCHANGED <<custody, heartbeat, verdict, tries, copies>>
      BY DEF Prepare, flow
    <2>3. FlowTypeOK'
      BY <1>1, <2>2, Here DEF Goto, Return, FlowTypeOK, Label
    <2>4. Moved(i)
      BY <1>1, <2>1, <2>2, Here, CustodyStill DEF Goto, Return, custody, Moved, NoneAccepted, FlowTypeOK
    <2>5. pc'[i] \in {"claim", "done"}
      BY <1>1, Here DEF Goto, Return, FlowTypeOK
    <2>6. FlowInv(i)'
      BY <1>0, <2>1, <2>2, <2>5 DEF FlowInv, OwnsRow, CopiesInv, TriesInv, VerdictInv, Working, Unfenced,
         Sending, Unsent
    <2>7. LeaseInv(i)'
      BY <2>5 DEF LeaseInv
    <2>8. ResultInv(i)'
      <3>1. result'[i] = result[i] \/ result'[i] = "none"
        BY <1>1, Here DEF Goto, Return, FlowTypeOK
      <3> QED
        BY <2>4, <3>1, MovedGrows, ResultKept DEF ResultInv
    <2> QED
      BY <2>3, <2>4, <2>6, <2>7, <2>8, StepKeepsIInv
  <1>2. CASE UNCHANGED local /\ \E e : Return(i, e) /\ (e = "none" \/ (opState[uses[i]] = e /\ e # "absent"))
    <2>1. PICK e : Return(i, e) /\ (e = "none" \/ (opState[uses[i]] = e /\ e # "absent"))
      BY <1>2
    <2>2. UNCHANGED <<local, custody, heartbeat, verdict, tries, copies>>
      BY <1>2 DEF Prepare, flow
    <2>3. FlowTypeOK'
      BY <2>1, <2>2, Here DEF Return, FlowTypeOK, Label
    <2>4. Moved(i)
      BY <2>1, <2>2, Here, CustodyStill, LocalStill DEF Return, custody, local, Moved, NoneAccepted,
         FlowTypeOK, MaySend
    <2>5. pc'[i] = "done" /\ result'[i] = e
      BY <2>1, Here DEF Return, FlowTypeOK
    <2>6. FlowInv(i)'
      BY <1>0, <2>2, <2>5 DEF FlowInv, OwnsRow, CopiesInv, TriesInv, VerdictInv, Working, Unfenced,
         Sending, Unsent
    <2>7. LeaseInv(i)'
      BY <2>5 DEF LeaseInv
    <2>8. ResultInv(i)'
      <3>1. CASE e \in {"not_sent", "rejected"}
        <4>1. opState[uses[i]] = e /\ opState'[uses[i]] = e
          BY <2>1, <2>2, <3>1 DEF local
        <4>2. Copies(uses[i]) = {}
          BY <3>1, <4>1, Here DEF IInv, EvidenceIsTrue
        <4>3. ASSUME NEW j \in Invocation, uses[j] = uses[i] PROVE copies'[j] = 0 /\ pc'[j] \notin MaySend
          <5>1. copies[j] = 0
            BY <4>2, <4>3 DEF Copies, IInv, FlowInv, CopiesInv
          <5>2. pc[j] \notin MaySend
            BY <3>1, <4>1, <4>3 DEF IInv, FlowInv, OwnsRow, MaySend, Unfenced, Sending
          <5> QED
            BY <2>2, <2>4, <2>5, <5>1, <5>2 DEF Moved, MaySend
        <4> QED
          BY <2>5, <3>1, <4>1, <4>3 DEF ResultInv
      <3>2. CASE e = "accepted"
        <4>1. PICK j \in Copies(uses[i]) : TRUE
          BY <2>1, <3>2, Here DEF IInv, EvidenceIsTrue
        <4>2. j \in Invocation /\ delivers[j] = delivers[i] /\ copies[j] = 1
          BY <4>1, InvocationAssumption DEF Copies, IInv, FlowInv, CopiesInv
        <4> QED
          BY <2>2, <2>5, <3>2, <4>2 DEF ResultInv
      <3>3. e # "reply_accepted"
        BY <2>1, Here DEF Local!State, Local!Open, Local!Sent
      <3> QED
        BY <2>5, <3>1, <3>2, <3>3 DEF ResultInv
    <2> QED
      BY <2>3, <2>4, <2>6, <2>7, <2>8, StepKeepsIInv
  <1> QED
    BY <1>1, <1>2, Here DEF Prepare, JoinPrepared

LEMMA ClaimKeepsIInv ==
    ASSUME IInv, JournalInv', NEW i \in Invocation, ClaimReply(i)
    PROVE  IInv'
  <1>0. /\ At(i, "claim") /\ UNCHANGED <<local, heartbeat, verdict, tries, copies>>
        /\ copies[i] = 0 /\ tries[i] = 0
    BY Here DEF ClaimReply, At, flow, CopiesInv, TriesInv, Unsent, Unfenced
  <1>1. CustodyKept({}) /\ NoneAccepted
    BY Here, ClaimNewKeeps, ClaimExistingKeeps, CustodyStill DEF ClaimReply, JoinClaim, custody
  <1>2. \/ /\ Goto(i, "resume") /\ delivers[i] \in claimToken'[i]
           /\ claimState'[delivers[i]] = "reply_claimed" /\ claimLeft'[delivers[i]] = Lease
        \/ Goto(i, "claimFailed")
        \/ Return(i, claimState'[delivers[i]]) /\ claimState[delivers[i]] # "absent"
             /\ claimState'[delivers[i]] \in Custody!State
    <2> DEFINE d == delivers[i]
    <2>1. d \in Reply /\ answers[d] \in Original
      BY Here
    <2>2. CASE Custody!ClaimNew(i, d, answers[d], Same, TRUE) /\ Goto(i, "resume")
      BY <2>1, <2>2, ClaimNewKeeps, Here
    <2>3. CASE Custody!ClaimExisting(i, d, answers[d], Same)
               /\ (Goto(i, "claimFailed") \/ Return(i, claimState'[d]))
      <3>1. claimState[d] \in Custody!Decided \cup {"reply_claimed"}
        BY <2>3 DEF Custody!ClaimExisting
      <3>2. claimState'[d] \in {claimState[d], "reply_outcome_unknown"}
        BY <2>1, <2>3 DEF Custody!ClaimExisting, Custody!ExpireAll
      <3>3. claimState[d] # "absent" /\ claimState'[d] \in Custody!State
        BY <3>1, <3>2 DEF Custody!Decided, Custody!State
      <3> QED
        BY <2>3, <3>3
    <2>4. CASE claimState[d] = "reply_outcome_unknown" /\ UNCHANGED custody
               /\ (Goto(i, "claimFailed") \/ Return(i, "reply_outcome_unknown"))
      BY <2>4 DEF custody, Custody!State
    <2>5. CASE JoinClaim(i)
      <3>1. CASE Custody!ClaimExisting(i, d, answers[d], Same)
                 /\ claimState'[d] # "reply_outcome_unknown" /\ Return(i, claimState'[d])
        BY <2>3, <3>1
      <3>2. CASE Custody!ClaimExisting(i, d, answers[d], Same) /\ claimState'[d] = "reply_outcome_unknown"
                 /\ (Goto(i, "claimFailed") \/ Return(i, "reply_outcome_unknown"))
        BY <2>3, <3>2
      <3> QED
        BY <2>4, <2>5, <3>1, <3>2 DEF JoinClaim
    <2> QED
      BY <2>2, <2>5 DEF ClaimReply
  <1>3. FlowTypeOK'
    BY <1>0, <1>2, Here DEF Goto, Return, FlowTypeOK, Label
  <1>4. Moved(i)
    BY <1>0, <1>1, <1>2, Here, LocalStill DEF Goto, Return, Moved, NoneAccepted, CustodyKept, local,
       FlowTypeOK, MaySend, At
  <1>5. pc'[i] \in {"resume", "claimFailed", "done"}
    BY <1>2, Here DEF Goto, Return, FlowTypeOK
  <1>6. pc'[i] = "resume" => /\ delivers[i] \in claimToken'[i] /\ claimState'[delivers[i]] = "reply_claimed"
                             /\ claimLeft'[delivers[i]] = Lease
    BY <1>2, Here DEF Goto, Return, FlowTypeOK
  <1>7. FlowInv(i)'
    BY <1>0, <1>5, <1>6, Here DEF At, local, FlowInv, OwnsRow, CopiesInv, TriesInv, VerdictInv, Working,
       Unfenced, Sending, Unsent
  <1>8. LeaseInv(i)'
    BY <1>0, <1>5, <1>6, Here DEF local, LeaseInv
  <1>9. ResultInv(i)'
    <2>1. CASE result'[i] = result[i]
      BY <1>4, <2>1, MovedGrows, ResultKept
    <2>2. CASE result'[i] = claimState'[delivers[i]]
      <3>1. claimState'[delivers[i]] = "reply_accepted" =>
               \E j \in Invocation : delivers[j] = delivers[i] /\ copies[j] = 1
        BY <1>1, Here DEF NoneAccepted, IInv, EvidenceIsTrue
      <3>2. claimState'[delivers[i]] \notin {"not_sent", "rejected", "accepted"}
        BY Here, NextJournalFacts DEF JournalSays, Custody!TypeOK, Custody!State, Custody!Decided
      <3> QED
        BY <1>0, <2>2, <3>1, <3>2 DEF ResultInv
    <2> QED
      BY <1>2, <2>1, <2>2, Here DEF Goto, Return, FlowTypeOK
  <1> QED
    BY <1>3, <1>4, <1>7, <1>8, <1>9, StepKeepsIInv

\* Steps that only say that nothing was sent, with or without recording it.
LEMMA FailedKeepsIInv ==
    ASSUME IInv, JournalInv', NEW i \in Invocation, FailedReplyClaim(i) \/ ResumeFailed(i)
    PROVE  IInv'
  <1>0. /\ pc[i] \in {"claimFailed", "resumeFailed"} /\ attemptOwner[uses[i]] = i
        /\ opState[uses[i]] = "prepared" /\ copies[i] = 0 /\ tries[i] = 0
        /\ UNCHANGED <<custody, heartbeat, verdict, tries, copies>>
        /\ pc[i] = "resumeFailed" => delivers[i] \in claimToken[i]
    BY Here DEF FailedReplyClaim, ResumeFailed, At, flow, OwnsRow, CopiesInv, TriesInv, Working, Unsent,
       Unfenced
  <1>1. /\ LocalKept(i) /\ attemptOwner'[uses[i]] = i
        /\ opState'[uses[i]] \in {"prepared", "not_sent"}
        /\ \A p \in Op \ {uses[i]} : opState'[p] = opState[p]
    BY <1>0, Here, RecordKeeps, LocalStill DEF FailedReplyClaim, ResumeFailed, local
  <1>2. \/ pc[i] = "resumeFailed" /\ Goto(i, "release")
        \/ Return(i, "not_sent")
    BY <1>0 DEF FailedReplyClaim, ResumeFailed, At
  <1>3. FlowTypeOK'
    BY <1>0, <1>2, Here DEF Goto, Return, FlowTypeOK, Label, Local!State
  <1>4. Moved(i)
    BY <1>0, <1>1, <1>2, Here, CustodyStill DEF Goto, Return, custody, Moved, NoneAccepted, FlowTypeOK,
       MaySend
  <1>5. pc'[i] = "done" \/ (pc[i] = "resumeFailed" /\ pc'[i] = "release")
    <2>1. pc \in [Invocation -> Label]
      BY Here DEF FlowTypeOK
    <2> QED
      BY <1>2, <2>1 DEF Goto, Return
  <1>6. FlowInv(i)'
    BY <1>0, <1>1, <1>5 DEF custody, FlowInv, OwnsRow, CopiesInv, TriesInv, VerdictInv, Working,
       Unfenced, Sending, Unsent
  <1>7. LeaseInv(i)'
    BY <1>5 DEF LeaseInv
  <1>8. ResultInv(i)'
    <2>1. result'[i] = result[i] \/ result'[i] = "not_sent"
      BY <1>2, Here DEF Goto, Return, FlowTypeOK
    <2> QED
      BY <1>0, <1>4, <1>5, <2>1, MovedGrows, ResultKept, UnsentIsTrue DEF MaySend
  <1> QED
    BY <1>3, <1>4, <1>6, <1>7, <1>8, StepKeepsIInv

LEMMA ResumeKeepsIInv ==
    ASSUME IInv, JournalInv', NEW i \in Invocation, Resume(i)
    PROVE  IInv'
  <1>0. pc[i] = "resume" /\ UNCHANGED <<local, custody, verdict, tries, copies, result>>
    BY DEF Resume, At, Goto
  <1>1. FlowTypeOK'
    BY <1>0, Here DEF Resume, Goto, FlowTypeOK, Label
  <1>2. Moved(i)
    BY <1>0, Here, CustodyStill, LocalStill DEF Resume, Goto, custody, local, Moved, NoneAccepted,
       FlowTypeOK, MaySend
  <1>3. pc'[i] \in {"fence", "resumeFailed"}
    BY Here DEF Resume, Goto, FlowTypeOK
  <1>4. FlowInv(i)'
    BY <1>0, <1>3, Here DEF local, custody, FlowInv, OwnsRow, CopiesInv, TriesInv, VerdictInv, Working,
       Unfenced, Sending, Unsent
  <1>5. LeaseInv(i)'
    BY <1>0, Here DEF local, custody, LeaseInv
  <1>6. ResultInv(i)'
    BY <1>0, <1>2, MovedGrows, ResultKept
  <1> QED
    BY <1>1, <1>2, <1>4, <1>5, <1>6, StepKeepsIInv

\* release and fenceFailed: the claim is given up and no body was sent.
LEMMA ReleaseKeepsIInv ==
    ASSUME IInv, JournalInv', NEW i \in Invocation, Release(i) \/ FenceFailed(i)
    PROVE  IInv'
  <1>0. /\ pc[i] \in {"release", "fenceFailed"} /\ attemptOwner[uses[i]] = i
        /\ copies[i] = 0 /\ UNCHANGED <<local, heartbeat, verdict, tries, copies>>
    BY Here DEF Release, FenceFailed, At, flow, OwnsRow, CopiesInv, Working, Unsent
  <1>1. CustodyKept({delivers[i]} \cap claimToken[i]) /\ NoneAccepted
    BY Here, AbandonKeeps DEF Release, FenceFailed, AbandonOrFail
  <1>2. \E e \in {"not_sent", "outcome_unknown"} : Return(i, e)
    BY DEF Release, FenceFailed
  <1>3. FlowTypeOK'
    BY <1>0, <1>2, Here DEF Return, FlowTypeOK, Label, Local!State, Local!Sent
  <1>4. Moved(i)
    BY <1>0, <1>1, <1>2, Here, LocalStill DEF Return, local, Moved, NoneAccepted, FlowTypeOK, MaySend
  <1>5. pc'[i] = "done" /\ result'[i] \in {"not_sent", "outcome_unknown"}
    BY <1>2, Here DEF Return, FlowTypeOK
  <1>6. FlowInv(i)' /\ LeaseInv(i)'
    BY <1>0, <1>5 DEF FlowInv, OwnsRow, CopiesInv, TriesInv, VerdictInv, LeaseInv, Working,
       Unfenced, Sending, Unsent
  <1>7. ResultInv(i)'
    <2>1. opState[uses[i]] # "absent"
      BY <1>0, Here, JournalFacts DEF JournalSays
    <2> QED
      BY <1>0, <1>4, <1>5, <2>1, MovedGrows, UnsentIsTrue DEF MaySend
  <1> QED
    BY <1>3, <1>4, <1>6, <1>7, StepKeepsIInv

LEMMA FenceKeepsIInv ==
    ASSUME IInv, JournalInv', NEW i \in Invocation, Fence(i)
    PROVE  IInv'
  <1>0. /\ pc[i] = "fence" /\ attemptOwner[uses[i]] = i /\ delivers[i] \in claimToken[i]
        /\ opState[uses[i]] = "prepared" /\ copies[i] = 0 /\ tries[i] = 0
        /\ UNCHANGED <<custody, heartbeat, verdict, tries, copies, result>>
    BY Here DEF Fence, At, Goto, flow, OwnsRow, CopiesInv, TriesInv, Working, Unsent, Unfenced
  <1>1. \/ /\ Local!MarkDispatchStartedOwned(i, uses[i])
           /\ Goto(i, "dispatch") \/ Goto(i, "fenceFailed")
        \/ UNCHANGED local /\ Goto(i, "fenceFailed")
    BY DEF Fence
  <1>2. /\ LocalKept(i) /\ attemptOwner'[uses[i]] = i
        /\ opState'[uses[i]] \in {"prepared", "dispatch_started"}
        /\ \A p \in Op \ {uses[i]} : opState'[p] = opState[p]
        /\ Goto(i, "dispatch") => opState'[uses[i]] = "dispatch_started"
        /\ Goto(i, "dispatch") \/ Goto(i, "fenceFailed")
    <2>1. Goto(i, "fenceFailed") => ~Goto(i, "dispatch")
      BY Here DEF Goto, FlowTypeOK
    <2> QED
      BY <1>0, <1>1, <2>1, Here, FenceKeeps, LocalStill DEF local
  <1>3. FlowTypeOK'
    BY <1>0, <1>2, Here DEF Goto, FlowTypeOK, Label
  <1>4. Moved(i)
    BY <1>0, <1>2, Here, CustodyStill DEF Goto, custody, Moved, NoneAccepted, FlowTypeOK, MaySend
  <1>5. pc'[i] = "fenceFailed" \/ (pc'[i] = "dispatch" /\ opState'[uses[i]] = "dispatch_started")
    <2>1. pc \in [Invocation -> Label]
      BY Here DEF FlowTypeOK
    <2> QED
      BY <1>2, <2>1 DEF Goto
  <1>6. FlowInv(i)' /\ LeaseInv(i)'
    BY <1>0, <1>2, <1>5, TriesAssumption DEF custody, FlowInv, OwnsRow, CopiesInv, TriesInv, VerdictInv,
       LeaseInv, Working, Unfenced, Sending, Unsent
  <1>7. ResultInv(i)'
    BY <1>0, <1>4, MovedGrows, ResultKept
  <1> QED
    BY <1>3, <1>4, <1>6, <1>7, StepKeepsIInv

LEMMA DispatchKeepsIInv ==
    ASSUME IInv, JournalInv', NEW i \in Invocation, Dispatch(i)
    PROVE  IInv'
  <1>0. /\ pc[i] = "dispatch" /\ attemptOwner[uses[i]] = i /\ delivers[i] \in claimToken[i]
        /\ opState[uses[i]] = "dispatch_started" /\ copies[i] = 0 /\ tries[i] < MaxTries
        /\ UNCHANGED <<local, custody, heartbeat, result>>
    BY Here DEF Dispatch, At, Goto, OwnsRow, CopiesInv, TriesInv, Working, Unsent, Unfenced, Sending
  <1>1. PICK x \in Outcome :
           /\ copies' = [copies EXCEPT ![i] = @ + x.copies]
           /\ verdict' = [verdict EXCEPT ![i] = Evidence(x.answer)]
           /\ \/ Goto(i, "check")
              \/ x.answer = "not_submitted" /\ tries[i] + 1 < MaxTries /\ Goto(i, "dispatch")
    BY DEF Dispatch, MayRetry
  <1>2. /\ x.copies \in {0, 1} /\ Evidence(x.answer) \in {"accepted", "rejected", "outcome_unknown"}
        /\ Evidence(x.answer) = "accepted" => x.copies = 1
        /\ Evidence(x.answer) = "rejected" => x.copies = 0
        /\ x.answer = "not_submitted" => x.copies = 0
    BY DEF Outcome, Evidence
  <1>3. tries' = [tries EXCEPT ![i] = @ + 1] /\ tries[i] \in 0..MaxTries
    BY Here DEF Dispatch, FlowTypeOK
  <1>4. copies'[i] = x.copies /\ verdict'[i] = Evidence(x.answer) /\ tries'[i] = tries[i] + 1
    BY <1>0, <1>1, <1>2, <1>3, Here DEF FlowTypeOK
  <1>5. FlowTypeOK'
    <2>1. copies' \in [Invocation -> 0..MaxTries]
      BY <1>0, <1>1, <1>2, Here, TriesAssumption DEF FlowTypeOK
    <2>2. tries' \in [Invocation -> 0..MaxTries]
      BY <1>0, <1>3, Here, TriesAssumption DEF FlowTypeOK
    <2>3. verdict' \in [Invocation -> {"prepared", "accepted", "rejected", "outcome_unknown"}]
      BY <1>1, <1>2, Here DEF FlowTypeOK
    <2>4. pc' \in [Invocation -> Label]
      BY <1>1, Here DEF Goto, FlowTypeOK, Label
    <2> QED
      BY <1>0, <2>1, <2>2, <2>3, <2>4, Here DEF FlowTypeOK
  <1>6. Moved(i)
    BY <1>0, <1>1, <1>3, Here, CustodyStill, LocalStill DEF Goto, custody, local, Moved, NoneAccepted,
       FlowTypeOK, MaySend
  <1>7. /\ pc'[i] \in {"check", "dispatch"}
        /\ pc'[i] = "dispatch" => x.answer = "not_submitted" /\ tries[i] + 1 < MaxTries
    BY <1>1, Here DEF Goto, FlowTypeOK
  <1>8. FlowInv(i)' /\ LeaseInv(i)'
    <2>1. uses[i] \in fenced
      BY <1>0, Here, JournalFacts DEF JournalSays
    <2>2. OwnsRow(i)' /\ LeaseInv(i)'
      BY <1>0, <1>7 DEF local, custody, OwnsRow, LeaseInv, Working, Unfenced, Sending
    <2>3. CopiesInv(i)'
      BY <1>0, <1>2, <1>4, <1>7, <2>1 DEF local, custody, CopiesInv, Unsent, Unfenced
    <2>4. TriesInv(i)' /\ VerdictInv(i)'
      BY <1>2, <1>4, <1>7 DEF TriesInv, VerdictInv, Unsent, Unfenced
    <2> QED
      BY <2>2, <2>3, <2>4 DEF FlowInv
  <1>9. ResultInv(i)'
    BY <1>0, <1>6, MovedGrows, ResultKept
  <1> QED
    BY <1>5, <1>6, <1>8, <1>9, StepKeepsIInv

LEMMA CheckKeepsIInv ==
    ASSUME IInv, JournalInv', NEW i \in Invocation, Check(i)
    PROVE  IInv'
  <1>0. /\ pc[i] = "check" /\ UNCHANGED <<local, custody, heartbeat, verdict, tries, copies, result>>
    BY DEF Check, At, Goto, flow
  <1>1. \/ Goto(i, "commit") /\ verdict[i] = "accepted"
        \/ Goto(i, "abandon") /\ verdict[i] # "accepted"
        \/ Goto(i, "abort")
    BY DEF Check
  <1>2. pc \in [Invocation -> Label]
    BY Here DEF FlowTypeOK
  <1>3. FlowTypeOK'
    BY <1>0, <1>1, Here DEF Goto, FlowTypeOK, Label
  <1>4. Moved(i)
    BY <1>0, <1>1, <1>2, Here, CustodyStill, LocalStill DEF Goto, custody, local, Moved, NoneAccepted,
       MaySend
  <1>5. \/ pc'[i] = "commit" /\ verdict[i] = "accepted"
        \/ pc'[i] = "abandon" /\ verdict[i] # "accepted"
        \/ pc'[i] = "abort"
    BY <1>1, <1>2 DEF Goto
  <1>6. FlowInv(i)' /\ LeaseInv(i)'
    BY <1>0, <1>5, Here DEF local, custody, FlowInv, OwnsRow, CopiesInv, TriesInv, VerdictInv,
       LeaseInv, Working, Unfenced, Sending, Unsent
  <1>7. ResultInv(i)'
    BY <1>0, <1>4, MovedGrows, ResultKept
  <1> QED
    BY <1>3, <1>4, <1>6, <1>7, StepKeepsIInv

LEMMA AbortKeepsIInv ==
    ASSUME IInv, JournalInv', NEW i \in Invocation, Abort(i)
    PROVE  IInv'
  <1>0. /\ pc[i] = "abort" /\ Goto(i, "record") /\ UNCHANGED <<local, heartbeat, tries, copies, result>>
        /\ verdict' = [verdict EXCEPT ![i] = "outcome_unknown"]
    BY DEF Abort, At, Goto
  <1>1. CustodyKept({delivers[i]} \cap claimToken[i]) /\ NoneAccepted
    BY Here, AbandonKeeps DEF Abort, AbandonOrFail
  <1>2. /\ pc \in [Invocation -> Label]
        /\ verdict \in [Invocation -> {"prepared", "accepted", "rejected", "outcome_unknown"}]
    BY Here DEF FlowTypeOK
  <1>3. FlowTypeOK'
    BY <1>0, Here DEF Goto, FlowTypeOK, Label
  <1>4. Moved(i)
    BY <1>0, <1>1, <1>2, Here, LocalStill DEF Goto, local, Moved, NoneAccepted, MaySend
  <1>5. pc'[i] = "record" /\ verdict'[i] = "outcome_unknown"
    BY <1>0, <1>2 DEF Goto
  <1>6. delivers[i] \in claimToken'[i]
    BY <1>0, <1>1, Here DEF CustodyKept, OwnsRow, Working, Sending
  <1>7. FlowInv(i)' /\ LeaseInv(i)'
    BY <1>0, <1>5, <1>6, Here DEF local, FlowInv, OwnsRow, CopiesInv, TriesInv, VerdictInv, LeaseInv,
       Working, Unfenced, Sending, Unsent
  <1>8. ResultInv(i)'
    BY <1>0, <1>4, MovedGrows, ResultKept
  <1> QED
    BY <1>3, <1>4, <1>7, <1>8, StepKeepsIInv

LEMMA AbandonKeepsIInv ==
    ASSUME IInv, JournalInv', NEW i \in Invocation, Abandon(i)
    PROVE  IInv'
  <1>0. /\ pc[i] = "abandon" /\ UNCHANGED <<local, heartbeat, verdict, tries, copies>>
        /\ verdict[i] \notin {"prepared", "accepted"} /\ (verdict[i] = "rejected" => copies[i] = 0)
        /\ attemptOwner[uses[i]] = i /\ opState[uses[i]] = "dispatch_started"
    BY Here DEF Abandon, At, flow, VerdictInv, OwnsRow, Working, Sending
  <1>1. CustodyKept({delivers[i]} \cap claimToken[i]) /\ NoneAccepted
    BY Here, AbandonKeeps DEF Abandon
  <1>2. Goto(i, "record") \/ Return(i, verdict[i])
    BY DEF Abandon
  <1>3. pc \in [Invocation -> Label] /\ verdict[i] \in {"rejected", "outcome_unknown"}
    BY <1>0, Here DEF FlowTypeOK
  <1>4. FlowTypeOK'
    BY <1>0, <1>2, <1>3, Here DEF Goto, Return, FlowTypeOK, Label, Local!State, Local!Sent
  <1>5. Moved(i)
    BY <1>0, <1>1, <1>2, <1>3, Here, LocalStill DEF Goto, Return, local, Moved, NoneAccepted,
       FlowTypeOK, MaySend
  <1>6. pc'[i] \in {"record", "done"}
    BY <1>2, <1>3 DEF Goto, Return
  <1>7. delivers[i] \in claimToken'[i]
    BY <1>0, <1>1, Here DEF CustodyKept, OwnsRow, Working, Sending
  <1>8. FlowInv(i)' /\ LeaseInv(i)'
    BY <1>0, <1>6, <1>7, Here DEF local, FlowInv, OwnsRow, CopiesInv, TriesInv, VerdictInv, LeaseInv,
       Working, Unfenced, Sending, Unsent
  <1>9. ResultInv(i)'
    <2>1. result'[i] = result[i] \/ (result'[i] = verdict[i] /\ pc'[i] = "done")
      BY <1>2, Here DEF Goto, Return, FlowTypeOK
    <2>2. CASE result'[i] = verdict[i] /\ verdict[i] = "rejected"
      BY <1>0, <1>5, <1>6, <2>2, MovedGrows, UnsentIsTrue DEF MaySend
    <2>3. CASE result'[i] = verdict[i] /\ verdict[i] = "outcome_unknown"
      BY <2>3 DEF ResultInv
    <2> QED
      BY <1>3, <1>5, <2>1, <2>2, <2>3, MovedGrows, ResultKept
  <1> QED
    BY <1>4, <1>5, <1>8, <1>9, StepKeepsIInv

LEMMA CommitKeepsIInv ==
    ASSUME IInv, JournalInv', NEW i \in Invocation, Commit(i)
    PROVE  IInv'
  <1>0. /\ pc[i] = "commit" /\ Goto(i, "record") /\ UNCHANGED <<local, heartbeat, tries, copies, result>>
        /\ verdict[i] = "accepted" /\ copies[i] = 1
    BY Here DEF Commit, At, Goto, VerdictInv
  <1>1. /\ CustodyKept({delivers[i]} \cap claimToken[i])
        /\ \A q \in Reply \ {delivers[i]} :
              claimState'[q] = "reply_accepted" => claimState[q] = "reply_accepted"
    BY Here, CommitKeeps DEF Commit
  <1>2. \/ claimState'[delivers[i]] = "reply_accepted" /\ UNCHANGED verdict
        \/ verdict' = [verdict EXCEPT ![i] = "outcome_unknown"]
    BY DEF Commit
  <1>3. /\ pc \in [Invocation -> Label]
        /\ verdict \in [Invocation -> {"prepared", "accepted", "rejected", "outcome_unknown"}]
    BY Here DEF FlowTypeOK
  <1>4. FlowTypeOK'
    BY <1>0, <1>2, Here DEF Goto, FlowTypeOK, Label
  <1>5. Moved(i)
    BY <1>0, <1>1, <1>2, <1>3, Here, LocalStill DEF Goto, local, Moved, MaySend
  <1>6. /\ pc'[i] = "record"
        /\ \/ claimState'[delivers[i]] = "reply_accepted" /\ verdict'[i] = "accepted"
           \/ verdict'[i] = "outcome_unknown"
    BY <1>0, <1>2, <1>3 DEF Goto
  <1>7. delivers[i] \in claimToken'[i]
    BY <1>0, <1>1, Here DEF CustodyKept, OwnsRow, Working, Sending
  <1>8. FlowInv(i)' /\ LeaseInv(i)'
    BY <1>0, <1>6, <1>7, Here DEF local, FlowInv, OwnsRow, CopiesInv, TriesInv, VerdictInv, LeaseInv,
       Working, Unfenced, Sending, Unsent
  <1>9. ResultInv(i)'
    BY <1>0, <1>5, MovedGrows, ResultKept
  <1> QED
    BY <1>4, <1>5, <1>8, <1>9, StepKeepsIInv

LEMMA RecordKeepsIInv ==
    ASSUME IInv, JournalInv', NEW i \in Invocation, Record(i)
    PROVE  IInv'
  <1>0. /\ pc[i] = "record" /\ UNCHANGED <<custody, heartbeat, verdict, tries, copies>>
        /\ Return(i, verdict[i])
        /\ attemptOwner[uses[i]] = i /\ opState[uses[i]] = "dispatch_started"
    BY Here DEF Record, At, flow, OwnsRow, Working, Sending
  <1>1. /\ verdict[i] \in {"accepted", "rejected", "outcome_unknown"} /\ copies[i] \in {0, 1}
        /\ verdict[i] = "accepted" => copies[i] = 1 /\ claimState[delivers[i]] = "reply_accepted"
        /\ verdict[i] = "rejected" => copies[i] = 0
        /\ copies[i] = 1 => uses[i] \in fenced /\ delivers[i] \in claimToken[i]
    BY <1>0, Here DEF VerdictInv, FlowTypeOK, CopiesInv
  <1>2. /\ LocalKept(i) /\ attemptOwner'[uses[i]] = i
        /\ opState'[uses[i]] \in {"dispatch_started", verdict[i]}
        /\ \A p \in Op \ {uses[i]} : opState'[p] = opState[p]
    BY <1>0, Here, RecordKeeps, LocalStill DEF Record, local
  <1>3. pc'[i] = "done" /\ result'[i] = verdict[i]
    BY <1>0, Here DEF Return, FlowTypeOK
  <1>4. FlowTypeOK'
    BY <1>0, <1>1, Here DEF Return, FlowTypeOK, Label, Local!State, Local!Sent
  <1>5. Moved(i)
    BY <1>0, <1>1, <1>2, Here, CustodyStill DEF Return, custody, Moved, NoneAccepted, FlowTypeOK, MaySend
  <1>6. FlowInv(i)' /\ LeaseInv(i)'
    BY <1>0, <1>1, <1>2, <1>3 DEF custody, LocalKept, FlowInv, OwnsRow, CopiesInv, TriesInv,
       VerdictInv, LeaseInv, Working, Unfenced, Sending, Unsent
  <1>7. ResultInv(i)'
    <2>1. CASE verdict[i] = "accepted"
      BY <1>0, <1>1, <1>3, <2>1 DEF ResultInv
    <2>2. CASE verdict[i] = "rejected"
      BY <1>0, <1>1, <1>3, <1>5, <2>2, MovedGrows, UnsentIsTrue DEF MaySend
    <2>3. CASE verdict[i] = "outcome_unknown"
      BY <1>3, <2>3 DEF ResultInv
    <2> QED
      BY <1>1, <2>1, <2>2, <2>3
  <1> QED
    BY <1>4, <1>5, <1>6, <1>7, StepKeepsIInv

-----------------------------------------------------------------------------
(* What runs beside the invocations. *)

LEMMA CrashKeepsIInv ==
    ASSUME IInv, JournalInv', NEW i \in Invocation, Crash(i)
    PROVE  IInv'
  <1>0. /\ pc' = [pc EXCEPT ![i] = "crashed"] /\ pc \in [Invocation -> Label]
        /\ UNCHANGED <<local, custody, heartbeat, verdict, tries, copies, result>>
    BY Here DEF Crash, flow, FlowTypeOK
  <1>1. FlowTypeOK'
    BY <1>0, Here DEF FlowTypeOK, Label
  <1>2. Moved(i)
    BY <1>0, Here, CustodyStill, LocalStill DEF custody, local, Moved, NoneAccepted, MaySend
  <1>3. FlowInv(i)' /\ LeaseInv(i)'
    BY <1>0, Here DEF local, custody, FlowInv, OwnsRow, CopiesInv, TriesInv, VerdictInv, LeaseInv,
       Working, Unfenced, Sending, Unsent
  <1>4. ResultInv(i)'
    BY <1>0, <1>2, MovedGrows, ResultKept
  <1> QED
    BY <1>1, <1>2, <1>3, <1>4, StepKeepsIInv

\* A step that is no invocation's disturbs none.
LEMMA OutsideKeepsIInv ==
    ASSUME IInv, JournalInv', FlowTypeOK', UNCHANGED <<local, pc, verdict, tries, copies, result>>,
           CustodyKept({}), NoneAccepted
    PROVE  IInv'
  <1>1. Grows
    BY InvocationAssumption DEF Grows, local, NoneAccepted, CustodyKept
  <1>2. ASSUME NEW j \in Invocation PROVE FlowInv(j)' /\ LeaseInv(j)' /\ ResultInv(j)'
    <2>1. Undisturbed(j)
      <3>1. delivers[j] \in Reply
        BY InvocationAssumption
      <3> QED
        BY <3>1 DEF Undisturbed, local, CustodyKept
    <2> QED
      BY <1>1, <2>1, UndisturbedKept, ResultKept
  <1>3. EvidenceIsTrue'
    BY <1>1, <1>2, EvidenceKept DEF FlowInv
  <1> QED
    BY <1>2, <1>3 DEF IInv

LEMMA BesideKeepsIInv ==
    ASSUME IInv, JournalInv', (\E i \in Invocation : Heartbeat(i)) \/ Request \/ Poll
    PROVE  IInv'
  <1>1. UNCHANGED <<local, pc, verdict, tries, copies, result>>
    BY DEF Heartbeat, Request, Poll, flow
  <1>2. FlowTypeOK'
    BY <1>1 DEF IInv, FlowTypeOK, Heartbeat, Request, Poll, flow
  <1>3. CustodyKept({}) /\ NoneAccepted
    BY HeartbeatKeeps, WaiterKeeps, InvocationAssumption DEF IInv, Heartbeat
  <1> QED
    BY <1>1, <1>2, <1>3, OutsideKeepsIInv

\* Time runs for both leases at once, so that it does not change their order.
LEMMA TickKeepsIInv ==
    ASSUME IInv, JournalInv', Tick
    PROVE  IInv'
  <1>0. UNCHANGED <<pc, heartbeat, verdict, tries, copies, result>>
    BY DEF Tick, flow
  <1>1. UNCHANGED <<opState, fenced, attemptOwner>>
    BY DEF Tick, local, Local!Tick
  <1>2. UNCHANGED <<claimState, claimToken>>
    BY DEF Tick, custody, Custody!Tick, Custody!claim
  <1>3. FlowTypeOK'
    BY <1>0 DEF IInv, FlowTypeOK
  <1>4. ASSUME NEW i \in Invocation PROVE FlowInv(i)' /\ ResultInv(i)'
    <2>1. FlowInv(i) /\ ResultInv(i)
      BY DEF IInv
    <2> QED
      BY <1>0, <1>1, <1>2, <2>1 DEF FlowInv, OwnsRow, CopiesInv, TriesInv, VerdictInv, ResultInv
  <1>5. EvidenceIsTrue'
    BY <1>0, <1>1, <1>2 DEF IInv, EvidenceIsTrue, Copies
  <1>6. ASSUME NEW i \in Invocation PROVE LeaseInv(i)'
    <2> SUFFICES ASSUME pc'[i] \in {"resume", "fence"}, attemptLeft'[uses[i]] > 0
                 PROVE  /\ claimState'[delivers[i]] = "reply_claimed"
                        /\ attemptLeft'[uses[i]] <= claimLeft'[delivers[i]]
      BY DEF LeaseInv
    <2>1. /\ attemptLeft \in [Op -> (-MaxStale)..Lease] /\ claimLeft \in [Reply -> (-MaxStale)..Lease]
          /\ MaxStale \in Nat /\ Lease \in Nat
      BY JournalFacts, JournalAssumption DEF IInv, JournalSays, Local!TypeOK, Custody!TypeOK
    <2>2. opState[uses[i]] \in Local!Open
      BY <1>0, Here DEF OwnsRow, Unfenced, Local!Open
    <2>3. attemptLeft[uses[i]] > 0 /\ attemptLeft'[uses[i]] = attemptLeft[uses[i]] - 1
      <3>1. attemptLeft[uses[i]] >= attemptLeft'[uses[i]]
        BY <2>1, Here DEF Tick, local, Local!Tick
      <3>2. attemptLeft[uses[i]] > -MaxStale /\ attemptLeft[uses[i]] > 0
        BY <2>1, <3>1, Here, NextJournalFacts DEF JournalSays, Local!TypeOK
      <3>3. AttemptRuns
        BY <2>2, <3>2, Here DEF AttemptRuns
      <3> QED
        BY <2>1, <2>2, <3>2, <3>3, Here DEF Tick, Local!Tick
    <2>4. claimState[delivers[i]] = "reply_claimed" /\ attemptLeft[uses[i]] <= claimLeft[delivers[i]]
      BY <1>0, <2>3, Here DEF LeaseInv
    <2>5. claimLeft'[delivers[i]] >= claimLeft[delivers[i]] - 1
      BY <2>1, Here DEF Tick, custody, Custody!Tick
    <2> QED
      BY <1>2, <2>1, <2>3, <2>4, <2>5, Here, NextJournalFacts DEF JournalSays, Custody!TypeOK
  <1> QED
    BY <1>3, <1>4, <1>5, <1>6 DEF IInv

LEMMA NextIInv == IInv /\ [Next]_vars => IInv'
  <1> SUFFICES ASSUME IInv, [Next]_vars PROVE IInv'
    OBVIOUS
  <1>1. JournalInv'
    BY NextJournalInv DEF IInv
  <1>2. ASSUME NEW i \in Invocation, Step(i) PROVE IInv'
    BY <1>1, <1>2, PrepareKeepsIInv, ClaimKeepsIInv, FailedKeepsIInv, ResumeKeepsIInv,
       ReleaseKeepsIInv, FenceKeepsIInv, DispatchKeepsIInv, CheckKeepsIInv, AbortKeepsIInv,
       AbandonKeepsIInv, CommitKeepsIInv, RecordKeepsIInv DEF Step
  <1>3. ASSUME NEW i \in Invocation, Crash(i) PROVE IInv'
    BY <1>1, <1>3, CrashKeepsIInv
  <1>4. CASE (\E i \in Invocation : Heartbeat(i)) \/ Request \/ Poll
    BY <1>1, <1>4, BesideKeepsIInv
  <1>5. CASE Tick
    BY <1>1, <1>5, TickKeepsIInv
  <1>6. CASE UNCHANGED vars
    <2>1. UNCHANGED <<local, custody, pc, heartbeat, verdict, tries, copies, result>>
      BY <1>6 DEF vars
    <2>2. FlowTypeOK'
      BY <2>1 DEF IInv, FlowTypeOK
    <2>3. CustodyKept({}) /\ NoneAccepted
      BY <2>1, CustodyStill DEF IInv, custody
    <2> QED
      BY <1>1, <2>1, <2>2, <2>3, OutsideKeepsIInv
  <1> QED
    BY <1>2, <1>3, <1>4, <1>5, <1>6 DEF Next

LEMMA Invariance == Spec => []IInv
  BY InitIInv, NextIInv, PTL DEF Spec

-----------------------------------------------------------------------------
(* The theorems. *)

\* The journals' columns and reply's control state have their types.
THEOREM TypeCorrect == Spec => []TypeOK
  <1>1. IInv => TypeOK
    BY JournalFacts DEF IInv, JournalSays, FlowTypeOK, TypeOK
  <1> QED
    BY <1>1, Invariance, PTL

\* The destination admits the body of a reply ID at most once, whatever
\* invocations are given the ID, on any machines: a sent body keeps its
\* sender's token of the claim, and the claim has one owner.
THEOREM BodyAtMostOnce == Spec => []AtMostOnceBody
  <1>1. IInv => AtMostOnceBody
    <2> SUFFICES ASSUME IInv, NEW i \in Invocation, NEW j \in Invocation
                 PROVE  /\ copies[i] <= 1
                        /\ delivers[i] = delivers[j] /\ copies[i] > 0 /\ copies[j] > 0 => i = j
      BY DEF AtMostOnceBody
    <2>1. CopiesInv(i) /\ CopiesInv(j) /\ delivers[i] \in Reply
      BY Here
    <2>2. \A r \in Reply : /\ r \in claimToken[i] => claimOwner[r] = i
                           /\ r \in claimToken[j] => claimOwner[r] = j
      BY JournalFacts DEF IInv, JournalSays
    <2> QED
      BY <2>1, <2>2 DEF CopiesInv
  <1> QED
    BY <1>1, Invariance, PTL

\* The evidence in both journals is true of what the destination admitted.
THEOREM EvidenceTrue == Spec => []EvidenceIsTrue
  <1>1. IInv => EvidenceIsTrue
    BY DEF IInv
  <1> QED
    BY <1>1, Invariance, PTL

\* What reply's receipt says of the body is true when it is returned, and
\* stays true.
THEOREM ReceiptTrue == Spec => []ReceiptIsTrue
  <1>1. IInv => ReceiptIsTrue
    <2> SUFFICES ASSUME IInv, NEW i \in Invocation
                 PROVE  /\ result[i] \in {"not_sent", "rejected"} => Copies(uses[i]) = {}
                        /\ result[i] \in {"accepted", "reply_accepted"} =>
                              \E j \in Invocation : delivers[j] = delivers[i] /\ copies[j] = 1
      BY DEF ReceiptIsTrue
    <2> QED
      BY DEF IInv, ResultInv, Copies
  <1> QED
    BY <1>1, Invariance, PTL

\* MarkDispatchStarted commits only while the claim of the reply is open and
\* in its lease: the attempt's lease, which it checks, began first.
THEOREM FenceUnderClaim == Spec => FenceUnderLiveClaim
  <1>1. IInv /\ [Next]_vars => [\A i \in Invocation :
          uses[i] \in fenced' \ fenced /\ attemptOwner[uses[i]] = i =>
              claimState[delivers[i]] = "reply_claimed" /\ claimLeft[delivers[i]] > 0]_vars
    <2> SUFFICES ASSUME IInv, [Next]_vars, NEW i \in Invocation,
                        uses[i] \in fenced' \ fenced, attemptOwner[uses[i]] = i
                 PROVE  claimState[delivers[i]] = "reply_claimed" /\ claimLeft[delivers[i]] > 0
      OBVIOUS
    <2>1. PICK j \in Invocation : Fence(j) /\ Local!MarkDispatchStartedOwned(j, uses[j])
      <3>1. ~UNCHANGED fenced
        OBVIOUS
      <3>2. \A s : \A k \in Invocation, o \in Op :
               Local!RecordResult(o, s) \/ Local!PrepareNew(k, o, o, Same, TRUE)
               \/ Local!PrepareNew(k, o, o, Same, FALSE) => UNCHANGED fenced
        BY DEF Local!RecordResult, Local!PrepareNew
      <3>3. UNCHANGED local => UNCHANGED fenced
        BY DEF local
      <3>4. ASSUME NEW k \in Invocation, Step(k) PROVE Fence(k)
        BY <3>1, <3>2, <3>3, <3>4, Here DEF Step, Prepare, JoinPrepared, ClaimReply, FailedReplyClaim,
           Resume, ResumeFailed, Release, FenceFailed, Dispatch, Check, Abort, Abandon, Commit, Record
      <3>5. ASSUME NEW k \in Invocation, Heartbeat(k) \/ Crash(k) PROVE FALSE
        BY <3>1, <3>3, <3>5 DEF Heartbeat, Crash
      <3>6. ~(Request \/ Poll \/ Tick \/ UNCHANGED vars)
        BY <3>1, <3>3 DEF Request, Poll, Tick, Local!Tick, vars
      <3> QED
        BY <3>1, <3>3, <3>4, <3>5, <3>6 DEF Next, Fence
    <2>2. uses[j] = uses[i] /\ attemptOwner[uses[j]] = j /\ attemptLeft[uses[j]] > 0
      BY <2>1, Here, FenceKeeps
    <2>3. j = i /\ pc[i] = "fence"
      BY <2>1, <2>2 DEF Fence, At
    <2> QED
      BY <2>2, <2>3, Here, JournalFacts, JournalAssumption DEF LeaseInv, JournalSays, Custody!TypeOK
  <1> QED
    BY <1>1, Invariance, PTL DEF Spec, FenceUnderLiveClaim

=============================================================================
