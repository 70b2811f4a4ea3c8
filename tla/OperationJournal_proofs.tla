----------------------- MODULE OperationJournal_proofs -----------------------
(***************************************************************************)
(* Proofs about OperationJournal, for any sets of operations, messages and *)
(* invocations, any lease and any staleness of a recovery clock.           *)
(*                                                                         *)
(* The invariants lean on each other, so they are proved as one inductive  *)
(* invariant.  EventsExplainState needs FenceDividesEvidence and           *)
(* ImportGrantsNoAuthority (an unknown operation has an attempts row, so   *)
(* its unknown event was emitted); ResolversAgree needs UnresolvedIsBlank; *)
(* MessageNamesOneOperation and EvidenceOnlyStrengthens need               *)
(* AbsentIsBlank.                                                          *)
(***************************************************************************)
EXTENDS OperationJournal, TLAPS

\* A row that does not exist has no columns and no attempt.
AbsentIsBlank ==
    \A o \in Op : opState[o] = "absent" => message[o] = None /\ owner[o] = None

\* Nothing about a resolution is stored or told before the operation is
\* manually resolved.
UnresolvedIsBlank ==
    \A o \in Op : opState[o] # "manually_resolved" =>
                     resolution[o] = None /\ receipt[o] = None /\ told[o] = {}

RowInv   == AbsentIsBlank /\ MessageNamesOneOperation
FenceInv == AttemptMirrorsOperation /\ FenceDividesEvidence
AuthInv  == ImportGrantsNoAuthority /\ TokenOnlyToOwner
LogInv   == EventsExplainState
SayInv   == UnresolvedIsBlank /\ ResolversAgree
IInv     == TypeOK /\ RowInv /\ FenceInv /\ AuthInv /\ LogInv /\ SayInv

-----------------------------------------------------------------------------
(* What the shared helper does. *)

\* MoveTo puts o, and its attempt if it has one, in state s and records the
\* event; every other row keeps its state, its attempt and its events.
LEMMA MoveToEffect ==
    ASSUME TypeOK, NEW o \in Op, NEW s \in State, MoveTo(o, s)
    PROVE  /\ opState' \in [Op -> State \cup {"absent"}]
           /\ attemptState' \in [Op -> State \cup {"absent"}]
           /\ events' \in [Op -> SUBSET State]
           /\ opState'[o] = s
           /\ owner[o] # None => attemptState'[o] = s
           /\ events'[o] = events[o] \cup {s}
           /\ \A p \in Op \ {o} : /\ opState'[p] = opState[p]
                                  /\ attemptState'[p] = attemptState[p]
                                  /\ events'[p] = events[p]
  BY DEF MoveTo, TypeOK

\* The initial state satisfies the inductive invariant.
LEMMA InitIInv == Init => IInv
  <1> SUFFICES ASSUME Init PROVE IInv
    OBVIOUS
  <1>1. TypeOK
    BY LeaseAssumption DEF Init, TypeOK
  <1>2. RowInv /\ FenceInv /\ AuthInv
    BY NoneAssumption DEF Init, RowInv, AbsentIsBlank, MessageNamesOneOperation, FenceInv,
       AttemptMirrorsOperation, FenceDividesEvidence, AuthInv,
       ImportGrantsNoAuthority, TokenOnlyToOwner, Sent
  <1>3. LogInv /\ SayInv
    BY DEF Init, LogInv, EventsExplainState, SayInv, UnresolvedIsBlank, ResolversAgree
  <1> QED
    BY <1>1, <1>2, <1>3 DEF IInv

-----------------------------------------------------------------------------
(* One lemma per transaction. *)

LEMMA PrepareNewStep ==
    ASSUME IInv, NEW i \in Invocation, NEW o \in Op, NEW m \in Message, NEW d \in Meta,
           NEW answered \in BOOLEAN, PrepareNew(i, o, m, d, answered)
    PROVE  IInv'
  <1>1. TypeOK'
    BY LeaseAssumption DEF IInv, TypeOK, PrepareNew, manual, State, Open
  <1>2. RowInv'
    BY NoneAssumption DEF IInv, TypeOK, RowInv, AbsentIsBlank, MessageNamesOneOperation, PrepareNew, MessageIsFree
  <1>3. FenceInv'
    BY DEF IInv, TypeOK, RowInv, AbsentIsBlank, FenceInv, AttemptMirrorsOperation,
       FenceDividesEvidence, PrepareNew, Sent
  <1>4. AuthInv'
    BY NoneAssumption DEF IInv, TypeOK, RowInv, AbsentIsBlank, AuthInv,
       ImportGrantsNoAuthority, TokenOnlyToOwner, PrepareNew
  <1>5. LogInv'
    BY DEF IInv, TypeOK, RowInv, AbsentIsBlank, LogInv, FenceInv, FenceDividesEvidence,
       EventsExplainState, PrepareNew
  <1>6. SayInv'
    BY DEF IInv, TypeOK, SayInv, UnresolvedIsBlank, ResolversAgree, PrepareNew, manual
  <1> QED
    BY <1>1, <1>2, <1>3, <1>4, <1>5, <1>6 DEF IInv

LEMMA PrepareAgainStep ==
    ASSUME IInv, NEW i \in Invocation, NEW o \in Op, NEW m \in Message, NEW d \in Meta,
           PrepareAgain(i, o, m, d)
    PROVE  IInv'
  <1> USE DEF IInv, PrepareAgain, identity, lease, manual
  <1>1. TypeOK'
    BY DEF TypeOK
  <1>2. AuthInv'
    BY NoneAssumption DEF TypeOK, AuthInv, ImportGrantsNoAuthority, TokenOnlyToOwner, RecoversToken
  <1>3. RowInv' /\ FenceInv'
    BY DEF RowInv, AbsentIsBlank, MessageNamesOneOperation, FenceInv,
       AttemptMirrorsOperation, FenceDividesEvidence
  <1>4. LogInv' /\ SayInv'
    BY DEF LogInv, EventsExplainState, SayInv, UnresolvedIsBlank, ResolversAgree
  <1> QED
    BY <1>1, <1>2, <1>3, <1>4

LEMMA ImportPortableStep ==
    ASSUME IInv, NEW o \in Op, NEW m \in Message, NEW d \in Meta, ImportPortable(o, m, d)
    PROVE  IInv'
  <1>1. TypeOK'
    BY DEF IInv, TypeOK, ImportPortable, lease, manual, State, Open
  <1>2. RowInv'
    BY NoneAssumption DEF IInv, TypeOK, RowInv, AbsentIsBlank, MessageNamesOneOperation, ImportPortable,
       MessageIsFree, lease
  <1>3. FenceInv'
    BY DEF IInv, TypeOK, RowInv, AbsentIsBlank, FenceInv, AttemptMirrorsOperation,
       FenceDividesEvidence, ImportPortable, lease, Sent
  <1>4. AuthInv'
    BY DEF IInv, AuthInv, ImportGrantsNoAuthority, TokenOnlyToOwner, ImportPortable, lease
  <1>5. LogInv'
    BY DEF IInv, TypeOK, RowInv, AbsentIsBlank, LogInv, EventsExplainState,
       ImportPortable, lease
  <1>6. SayInv'
    BY DEF IInv, TypeOK, SayInv, UnresolvedIsBlank, ResolversAgree, ImportPortable, manual
  <1> QED
    BY <1>1, <1>2, <1>3, <1>4, <1>5, <1>6 DEF IInv

LEMMA MarkDispatchStartedStep ==
    ASSUME IInv, NEW i \in Invocation, NEW o \in Op, MarkDispatchStartedOwned(i, o)
    PROVE  IInv'
  <1>0. "dispatch_started" \in State
    BY DEF State, Open
  <1>1. TypeOK'
    BY <1>0, MoveToEffect DEF IInv, TypeOK, MarkDispatchStartedOwned, identity, lease, manual
  <1>2. RowInv'
    BY <1>0, MoveToEffect DEF IInv, RowInv, AbsentIsBlank, MessageNamesOneOperation,
       MarkDispatchStartedOwned, MayFence, identity, lease
  <1>3. FenceInv'
    BY <1>0, MoveToEffect DEF IInv, FenceInv, AttemptMirrorsOperation, FenceDividesEvidence,
       MarkDispatchStartedOwned, lease, Sent
  <1>4. AuthInv'
    BY NoneAssumption DEF IInv, TypeOK, AuthInv, ImportGrantsNoAuthority, TokenOnlyToOwner,
       MarkDispatchStartedOwned, MayFence, lease
  <1>5. LogInv'
    BY <1>0, MoveToEffect DEF IInv, LogInv, EventsExplainState, MarkDispatchStartedOwned, lease
  <1>6. SayInv'
    BY <1>0, MoveToEffect DEF IInv, SayInv, UnresolvedIsBlank, ResolversAgree,
       MarkDispatchStartedOwned, MayFence, manual
  <1> QED
    BY <1>1, <1>2, <1>3, <1>4, <1>5, <1>6 DEF IInv

LEMMA HeartbeatAttemptStep ==
    ASSUME IInv, NEW i \in Invocation, NEW o \in Op, HeartbeatAttempt(i, o)
    PROVE  IInv'
  <1> USE DEF IInv, HeartbeatAttempt, identity, manual
  <1>1. TypeOK'
    BY LeaseAssumption DEF TypeOK
  <1>2. RowInv' /\ FenceInv'
    BY DEF RowInv, AbsentIsBlank, MessageNamesOneOperation, FenceInv,
       AttemptMirrorsOperation, FenceDividesEvidence
  <1>3. AuthInv' /\ LogInv' /\ SayInv'
    BY DEF AuthInv, ImportGrantsNoAuthority, TokenOnlyToOwner, LogInv, EventsExplainState,
       SayInv, UnresolvedIsBlank, ResolversAgree
  <1> QED
    BY <1>1, <1>2, <1>3

\* RecordResult, RecordAccepted and both resolutions move an operation that
\* is already open or unknown, touch neither fence nor authority, and differ
\* in the state they give it.  An open operation that becomes not_sent was
\* prepared; any other became fenced before.
LEMMA DecideStep ==
    ASSUME IInv, NEW o \in Op, NEW s \in State, MoveTo(o, s),
           opState[o] # "absent",
           s \in {"not_sent"} => opState[o] = "prepared",
           s # "not_sent" => s \in Sent /\ opState[o] \in Sent,
           s = "manually_resolved" => opState[o] = "outcome_unknown",
           UNCHANGED <<identity, fenced, lease, granted>>
    PROVE  RowInv' /\ FenceInv' /\ AuthInv' /\ LogInv'
  <1> USE DEF IInv, identity, lease
  <1>1. RowInv'
    BY MoveToEffect DEF RowInv, AbsentIsBlank, MessageNamesOneOperation, Sent
  <1>2. FenceInv'
    BY MoveToEffect DEF FenceInv, AttemptMirrorsOperation, FenceDividesEvidence, Sent
  <1>3. AuthInv'
    BY DEF AuthInv, ImportGrantsNoAuthority, TokenOnlyToOwner
  <1>4. LogInv'
    <2>1. opState[o] = "outcome_unknown" => "outcome_unknown" \in events[o]
      BY DEF LogInv, EventsExplainState, FenceInv, FenceDividesEvidence, Sent, AuthInv,
         ImportGrantsNoAuthority
    <2> QED
      BY <2>1, MoveToEffect DEF LogInv, EventsExplainState
  <1> QED
    BY <1>1, <1>2, <1>3, <1>4

LEMMA RecordResultStep ==
    ASSUME IInv, NEW o \in Op, NEW s \in State, RecordResult(o, s)
    PROVE  IInv'
  <1>1. /\ opState[o] # "absent"
        /\ s \in {"not_sent"} => opState[o] = "prepared"
        /\ s # "not_sent" => s \in Sent /\ opState[o] \in Sent
        /\ s # "manually_resolved" /\ opState[o] # "manually_resolved"
    BY DEF RecordResult, ValidResult, Sent
  <1>2. RowInv' /\ FenceInv' /\ AuthInv' /\ LogInv'
    BY <1>1, DecideStep DEF RecordResult
  <1>3. TypeOK'
    BY MoveToEffect DEF IInv, TypeOK, RecordResult, identity, lease, manual
  <1>4. SayInv'
    BY <1>1, MoveToEffect DEF IInv, SayInv, UnresolvedIsBlank, ResolversAgree, RecordResult, manual
  <1> QED
    BY <1>2, <1>3, <1>4 DEF IInv

LEMMA RecordAcceptedStep ==
    ASSUME IInv, NEW o \in Op, RecordAccepted(o)
    PROVE  IInv'
  <1>0. "accepted" \in State
    BY DEF State, Sent
  <1>1. RowInv' /\ FenceInv' /\ AuthInv' /\ LogInv'
    BY <1>0, DecideStep DEF RecordAccepted, Sent
  <1>2. TypeOK'
    BY <1>0, MoveToEffect DEF IInv, TypeOK, RecordAccepted, identity, lease
  <1>3. SayInv'
    BY <1>0, MoveToEffect DEF IInv, SayInv, UnresolvedIsBlank, ResolversAgree, RecordAccepted
  <1> QED
    BY <1>1, <1>2, <1>3 DEF IInv

LEMMA ResolutionStep ==
    ASSUME IInv, NEW o \in Op, NEW a \in Assertion,
           RecordManualResolution(o, a) \/ ResolveFirst(o, a)
    PROVE  IInv'
  <1>0. "manually_resolved" \in State
    BY DEF State, Sent
  <1>1. /\ opState[o] = "outcome_unknown" /\ MoveTo(o, "manually_resolved")
        /\ UNCHANGED <<identity, fenced, lease, granted>>
    BY DEF RecordManualResolution, ResolveFirst, Resolvable
  <1>2. RowInv' /\ FenceInv' /\ AuthInv' /\ LogInv'
    BY <1>0, <1>1, DecideStep DEF Sent
  <1>3. TypeOK'
    BY <1>0, MoveToEffect DEF IInv, TypeOK, RecordManualResolution, ResolveFirst, identity, lease
  <1>4. resolution[o] = None /\ receipt[o] = None /\ told[o] = {}
    BY <1>1 DEF IInv, SayInv, UnresolvedIsBlank
  <1>5. SayInv'
    BY <1>0, <1>1, <1>4, MoveToEffect DEF IInv, TypeOK, SayInv, UnresolvedIsBlank, ResolversAgree,
       RecordManualResolution, ResolveFirst
  <1> QED
    BY <1>2, <1>3, <1>5 DEF IInv

LEMMA ResolveAgainStep ==
    ASSUME IInv, NEW o \in Op, NEW a \in Assertion, ResolveAgain(o, a)
    PROVE  IInv'
  <1> USE DEF IInv, ResolveAgain, identity, lease
  <1>1. TypeOK'
    BY DEF TypeOK
  <1>2. RowInv' /\ FenceInv' /\ AuthInv' /\ LogInv'
    BY DEF RowInv, AbsentIsBlank, MessageNamesOneOperation, FenceInv, AttemptMirrorsOperation,
       FenceDividesEvidence, AuthInv, ImportGrantsNoAuthority, TokenOnlyToOwner,
       LogInv, EventsExplainState
  <1>3. SayInv'
    BY DEF TypeOK, SayInv, UnresolvedIsBlank, ResolversAgree
  <1> QED
    BY <1>1, <1>2, <1>3

LEMMA RecoverOrphansStep ==
    ASSUME IInv, NEW stale \in 0..MaxStale, RecoverOrphans(stale)
    PROVE  IInv'
  <1>1. \A o \in Orphaned(stale) :
            /\ opState[o] \in {"prepared", "dispatch_started"} /\ owner[o] # None
            /\ Recovered(o) \in {"not_sent", "outcome_unknown"}
            /\ Recovered(o) = "not_sent" <=> opState[o] = "prepared"
    BY DEF Orphaned, Open, Recovered
  <1>2. TypeOK'
    <2>1. {"not_sent", "outcome_unknown"} \subseteq State
      BY DEF State, Sent
    <2> QED
      BY <1>1, <2>1 DEF IInv, TypeOK, RecoverOrphans, identity, lease, manual
  <1>3. RowInv'
    BY <1>1 DEF IInv, RowInv, AbsentIsBlank, MessageNamesOneOperation, RecoverOrphans,
       identity, lease
  <1>4. FenceInv'
    BY <1>1 DEF IInv, FenceInv, AttemptMirrorsOperation, FenceDividesEvidence, RecoverOrphans,
       lease, Sent
  <1>5. AuthInv'
    BY DEF IInv, AuthInv, ImportGrantsNoAuthority, TokenOnlyToOwner, RecoverOrphans, lease
  <1>6. LogInv'
    BY <1>1 DEF IInv, LogInv, EventsExplainState, RecoverOrphans, lease
  <1>7. SayInv'
    BY <1>1 DEF IInv, SayInv, UnresolvedIsBlank, ResolversAgree, RecoverOrphans, manual
  <1> QED
    BY <1>2, <1>3, <1>4, <1>5, <1>6, <1>7 DEF IInv

LEMMA TickStep ==
    ASSUME IInv, Tick
    PROVE  IInv'
  <1> USE DEF IInv, Tick, identity, manual
  <1>1. TypeOK'
    BY LeaseAssumption DEF TypeOK
  <1>2. RowInv' /\ FenceInv' /\ AuthInv' /\ LogInv' /\ SayInv'
    BY DEF RowInv, AbsentIsBlank, MessageNamesOneOperation, FenceInv, AttemptMirrorsOperation,
       FenceDividesEvidence, AuthInv, ImportGrantsNoAuthority, TokenOnlyToOwner,
       LogInv, EventsExplainState, SayInv, UnresolvedIsBlank, ResolversAgree
  <1> QED
    BY <1>1, <1>2

-----------------------------------------------------------------------------
(* The theorems. *)

\* Every transaction of the journal preserves the inductive invariant.
LEMMA NextIInv == IInv /\ [Next]_vars => IInv'
  <1> SUFFICES ASSUME IInv, [Next]_vars PROVE IInv'
    OBVIOUS
  <1>1. ASSUME NEW i \in Invocation, NEW o \in Op, NEW m \in Message, NEW d \in Meta,
               (\E answered \in BOOLEAN : PrepareNew(i, o, m, d, answered))
                   \/ PrepareAgain(i, o, m, d)
        PROVE  IInv'
    BY <1>1, PrepareNewStep, PrepareAgainStep
  <1>2. ASSUME NEW i \in Invocation, NEW o \in Op,
               MarkDispatchStartedOwned(i, o) \/ HeartbeatAttempt(i, o)
        PROVE  IInv'
    BY <1>2, MarkDispatchStartedStep, HeartbeatAttemptStep
  <1>3. ASSUME NEW o \in Op, NEW m \in Message, NEW d \in Meta, ImportPortable(o, m, d)
        PROVE  IInv'
    BY <1>3, ImportPortableStep
  <1>4. ASSUME NEW o \in Op, (\E s \in State : RecordResult(o, s)) \/ RecordAccepted(o)
        PROVE  IInv'
    BY <1>4, RecordResultStep, RecordAcceptedStep
  <1>5. ASSUME NEW o \in Op, NEW a \in Assertion,
               RecordManualResolution(o, a) \/ ResolveWithReceipt(o, a)
        PROVE  IInv'
    BY <1>5, ResolutionStep, ResolveAgainStep DEF ResolveWithReceipt
  <1>6. ASSUME (\E stale \in 0..MaxStale : RecoverOrphans(stale)) \/ Tick
        PROVE  IInv'
    BY <1>6, RecoverOrphansStep, TickStep
  <1>7. CASE UNCHANGED vars
    BY <1>7 DEF vars, IInv, TypeOK, RowInv, AbsentIsBlank, MessageNamesOneOperation, FenceInv,
       AttemptMirrorsOperation, FenceDividesEvidence, AuthInv, ImportGrantsNoAuthority,
       TokenOnlyToOwner, LogInv, EventsExplainState, SayInv, UnresolvedIsBlank, ResolversAgree
  <1> QED
    BY <1>1, <1>2, <1>3, <1>4, <1>5, <1>6, <1>7 DEF Next

\* The inductive invariant holds in every reachable state of the journal.
THEOREM Inductive == Spec => []IInv
  BY InitIInv, NextIInv, PTL DEF Spec

\* Every column keeps its type under every transaction.
THEOREM TypeCorrect == Spec => []TypeOK
  <1>1. IInv => TypeOK
    BY DEF IInv
  <1> QED
    BY <1>1, Inductive, PTL

\* The dispatch fence divides operations that may have been written from
\* those that were not, for any number of invocations and any interleaving of
\* fence, results and recovery.
THEOREM FenceDivides == Spec => [](FenceDividesEvidence /\ AttemptMirrorsOperation)
  <1>1. IInv => FenceDividesEvidence /\ AttemptMirrorsOperation
    BY DEF IInv, FenceInv
  <1> QED
    BY <1>1, Inductive, PTL

\* A message ID names one operation, one invocation at most holds its
\* dispatch token, and an imported operation has no token at all.
THEOREM AuthoritySingle == Spec => []AuthorityIsSingle
  <1>1. IInv => AuthorityIsSingle
    BY DEF IInv, RowInv, AuthInv, AuthorityIsSingle
  <1> QED
    BY <1>1, Inductive, PTL

\* The event log still shows how an operation came to its state.
THEOREM EventsExplain == Spec => []EventsExplainState
  <1>1. IInv => EventsExplainState
    BY DEF IInv, LogInv
  <1> QED
    BY <1>1, Inductive, PTL

\* Any number of concurrent resolvers are told the one stored assertion.
THEOREM ResolversAgreed == Spec => []ResolversAgree
  <1>1. IInv => ResolversAgree
    BY DEF IInv, SayInv
  <1> QED
    BY <1>1, Inductive, PTL

-----------------------------------------------------------------------------
(* The action property. *)

\* A single-row move along Strengthening that touches neither fence nor
\* identity is a strengthening step.
LEMMA MoveStrengthens ==
    ASSUME TypeOK, NEW o \in Op, NEW s \in State, MoveTo(o, s),
           <<opState[o], s>> \in Strengthening, UNCHANGED identity, fenced \subseteq fenced'
    PROVE  StepStrengthens
  BY MoveToEffect DEF StepStrengthens, identity

\* No transaction weakens evidence, withdraws a fence or rewrites an identity.
LEMMA NextStrengthens == IInv /\ [Next]_vars => [StepStrengthens]_vars
  <1> SUFFICES ASSUME IInv, Next PROVE StepStrengthens
    OBVIOUS
  <1>0. TypeOK
    BY DEF IInv
  <1>1. ASSUME NEW i \in Invocation, NEW o \in Op, NEW m \in Message, NEW d \in Meta,
               (\E answered \in BOOLEAN : PrepareNew(i, o, m, d, answered))
                   \/ PrepareAgain(i, o, m, d)
        PROVE  StepStrengthens
    BY <1>1, <1>0 DEF IInv, TypeOK, RowInv, AbsentIsBlank, StepStrengthens, Strengthening,
       PrepareNew, PrepareAgain, identity
  <1>1a. ASSUME NEW o \in Op, NEW m \in Message, NEW d \in Meta, ImportPortable(o, m, d)
         PROVE  StepStrengthens
    BY <1>1a, <1>0 DEF IInv, TypeOK, RowInv, AbsentIsBlank, StepStrengthens, Strengthening,
       ImportPortable
  <1>2. ASSUME NEW i \in Invocation, NEW o \in Op, MarkDispatchStartedOwned(i, o)
        PROVE  StepStrengthens
    <2>1. /\ <<opState[o], "dispatch_started">> \in Strengthening
          /\ "dispatch_started" \in State
      BY <1>2 DEF MarkDispatchStartedOwned, MayFence, Strengthening, State, Open
    <2> QED
      BY <1>0, <1>2, <2>1, MoveStrengthens DEF MarkDispatchStartedOwned
  <1>3. ASSUME NEW i \in Invocation, NEW o \in Op, HeartbeatAttempt(i, o)
        PROVE  StepStrengthens
    BY <1>3 DEF StepStrengthens, HeartbeatAttempt, identity
  <1>4. ASSUME NEW o \in Op, NEW s \in State, RecordResult(o, s)
        PROVE  StepStrengthens
    <2>1. <<opState[o], s>> \in Strengthening
      BY <1>4 DEF RecordResult, ValidResult, Strengthening
    <2> QED
      BY <1>0, <1>4, <2>1, MoveStrengthens DEF RecordResult
  <1>5. ASSUME NEW o \in Op, RecordAccepted(o)
        PROVE  StepStrengthens
    <2>1. <<opState[o], "accepted">> \in Strengthening /\ "accepted" \in State
      BY <1>5 DEF RecordAccepted, Strengthening, State, Sent
    <2> QED
      BY <1>0, <1>5, <2>1, MoveStrengthens DEF RecordAccepted
  <1>6. ASSUME NEW o \in Op, NEW a \in Assertion,
               RecordManualResolution(o, a) \/ ResolveFirst(o, a)
        PROVE  StepStrengthens
    <2>1. <<opState[o], "manually_resolved">> \in Strengthening /\ "manually_resolved" \in State
      BY <1>6 DEF RecordManualResolution, ResolveFirst, Resolvable, Strengthening, State, Sent
    <2> QED
      BY <1>0, <1>6, <2>1, MoveStrengthens DEF RecordManualResolution, ResolveFirst
  <1>7. ASSUME NEW o \in Op, NEW a \in Assertion, ResolveAgain(o, a)
        PROVE  StepStrengthens
    BY <1>7 DEF StepStrengthens, ResolveAgain, identity
  <1>7a. ASSUME NEW o \in Op, NEW a \in Assertion,
                RecordManualResolution(o, a) \/ ResolveWithReceipt(o, a)
         PROVE  StepStrengthens
    BY <1>7a, <1>6, <1>7 DEF ResolveWithReceipt
  <1>8. ASSUME NEW stale \in 0..MaxStale, RecoverOrphans(stale)
        PROVE  StepStrengthens
    <2>1. \A o \in Orphaned(stale) :
             opState[o] \in {"prepared", "dispatch_started"}
      BY DEF Orphaned, Open
    <2>2. \A o \in Orphaned(stale) : <<opState[o], Recovered(o)>> \in Strengthening
      BY <2>1 DEF Recovered, Strengthening
    <2>3. \A o \in Op : opState'[o] = IF o \in Orphaned(stale) THEN Recovered(o) ELSE opState[o]
      BY <1>8 DEF RecoverOrphans
    <2> QED
      BY <1>8, <2>2, <2>3 DEF StepStrengthens, RecoverOrphans, identity
  <1>9. CASE Tick
    BY <1>9 DEF StepStrengthens, Tick, identity
  <1> QED
    BY <1>1, <1>1a, <1>2, <1>3, <1>4, <1>5, <1>7a, <1>8, <1>9 DEF Next

\* Evidence about an operation is only ever strengthened.
THEOREM Strengthens == Spec => EvidenceOnlyStrengthens
  BY Inductive, NextStrengthens, PTL DEF Spec, EvidenceOnlyStrengthens
=============================================================================
