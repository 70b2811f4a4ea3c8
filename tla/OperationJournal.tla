-------------------------- MODULE OperationJournal --------------------------
(***************************************************************************)
(* The operations, attempts, manual_resolutions, operation_acceptances and *)
(* receipts tables of one SQLite journal, and the transactions of          *)
(* go/internal/journal/operations.go over them.                            *)
(*                                                                         *)
(* Every action is one committed transaction of withTx: SQLite serialises  *)
(* writers, so transactions interleave and never overlap.  A transaction   *)
(* that ends in an error is rolled back and is a stuttering step.          *)
(*                                                                         *)
(* Time is the time left of a lease.  A row holds lease_until = now +      *)
(* Lease; left[o] is lease_until - now, and Tick moves now.  RecoverOrphans*)
(* reads its clock before BEGIN, so it compares with a clock up to         *)
(* MaxStale ticks old, and left is kept down to -MaxStale.                 *)
(***************************************************************************)
EXTENDS Integers, FiniteSets

CONSTANTS
    Op,          \* operation IDs
    Message,     \* message IDs
    Meta,        \* the other compared columns: routes, digest, size, custody
    Invocation,  \* attempt owners: one fresh UUID per process
    None,        \* the value of a column of a row that does not exist
    Lease,       \* lease duration in ticks (30s in the code)
    MaxStale     \* bound: how old a clock read before BEGIN may be

ASSUME LeaseAssumption == Lease \in Nat \ {0} /\ MaxStale \in Nat
ASSUME NoneAssumption ==
    None \notin Message /\ None \notin Meta /\ None \notin Invocation

VARIABLES
    opState,       \* operations.state, "absent" when there is no row
    message,       \* operations.message_id
    meta,          \* the other identity columns of the row
    fenced,        \* operations whose dispatch_started_at is set
    owner,         \* attempts.owner, None when there is no attempts row
    attemptState,  \* attempts.state
    left,          \* attempts.lease_until - now
    granted,       \* granted[i]: operations whose token was returned to i
    events,        \* events[o]: the states the events table records for o
    acceptance,    \* operations with an operation_acceptances row
    resolution,    \* manual_resolutions.assertion
    receipt,       \* the assertion of the receipt stored for o
    told           \* told[o]: assertions some caller was told are committed

identity == <<message, meta>>
lease    == <<owner, left>>
manual   == <<acceptance, resolution, receipt, told>>
vars == <<opState, message, meta, fenced, owner, attemptState, left, granted,
          events, acceptance, resolution, receipt, told>>

Assertion == {"accepted", "not_delivered"}
Open      == {"prepared", "dispatch_started"}
Sent      == {"dispatch_started", "accepted", "rejected", "outcome_unknown",
              "manually_resolved"}
State     == Open \cup Sent \cup {"not_sent"}

Init ==
    /\ opState = [o \in Op |-> "absent"]
    /\ message = [o \in Op |-> None] /\ meta = [o \in Op |-> None]
    /\ fenced = {}
    /\ owner = [o \in Op |-> None]
    /\ attemptState = [o \in Op |-> "absent"]
    /\ left = [o \in Op |-> 0]
    /\ granted = [i \in Invocation |-> {}]
    /\ events = [o \in Op |-> {}]
    /\ acceptance = {}
    /\ resolution = [o \in Op |-> None]
    /\ receipt = [o \in Op |-> None]
    /\ told = [o \in Op |-> {}]

-----------------------------------------------------------------------------
(* Helpers: the clauses several transactions share. *)

\* No operation row holds m (message_id is UNIQUE and Prepare looks it up).
MessageIsFree(m) == \A p \in Op : message[p] # m

\* The UPDATE operations / UPDATE attempts / emit triple that moves o to s.
\* The attempts row is updated only where there is one.
MoveSilently(o, s) ==
    /\ opState' = [opState EXCEPT ![o] = s]
    /\ attemptState' = [attemptState EXCEPT ![o] = IF owner[o] = None THEN @ ELSE s]
    /\ UNCHANGED events

MoveTo(o, s) ==
    /\ opState' = [opState EXCEPT ![o] = s]
    /\ attemptState' = [attemptState EXCEPT ![o] = IF owner[o] = None THEN @ ELSE s]
    /\ events' = [events EXCEPT ![o] = @ \cup {s}]

\* The WHERE clause of the dispatch fence: prepared, and the caller presents
\* the owner and token of a lease that has not run out.
MayFence_ExpiredToo(i, o) == opState[o] = "prepared" /\ o \in granted[i]
MayFence(i, o) == opState[o] = "prepared" /\ o \in granted[i] /\ left[o] > 0

\* Prepare returns the token of an existing row only to its recorded owner.
RecoversToken_AnyOwner(i, o) == owner[o] # None
RecoversToken(i, o) == owner[o] = i

-----------------------------------------------------------------------------
(* Transactions. *)

\* Prepare of a new message.  An error after COMMIT (a busy COMMIT that did
\* commit, or a failed read of the row) leaves the row without its owner
\* learning the token: answered is FALSE.
PrepareNew(i, o, m, d, answered) ==
    /\ opState[o] = "absent"
    /\ MessageIsFree(m)
    /\ opState' = [opState EXCEPT ![o] = "prepared"]
    /\ message' = [message EXCEPT ![o] = m]
    /\ meta' = [meta EXCEPT ![o] = d]
    /\ owner' = [owner EXCEPT ![o] = i]
    /\ attemptState' = [attemptState EXCEPT ![o] = "prepared"]
    /\ left' = [left EXCEPT ![o] = Lease]
    /\ events' = [events EXCEPT ![o] = @ \cup {"prepared"}]
    /\ granted' = IF answered THEN [granted EXCEPT ![i] = @ \cup {o}] ELSE granted
    /\ UNCHANGED <<fenced, manual>>

\* Prepare of a message whose row has the same identity: no write, and the
\* token goes out again to the invocation that owns the attempt.
PrepareAgain(i, o, m, d) ==
    /\ message[o] = m /\ meta[o] = d
    /\ RecoversToken(i, o)
    /\ granted' = [granted EXCEPT ![i] = @ \cup {o}]
    /\ UNCHANGED <<opState, identity, fenced, lease, attemptState, events, manual>>

\* importOperationTxAt as ImportOriginalStatus calls it: a prepared row with
\* no attempts row and no event.  An existing row of the same identity is
\* left alone, any other is a conflict; both are stuttering steps.
ImportPortable(o, m, d) ==
    /\ opState[o] = "absent"
    /\ MessageIsFree(m)
    /\ opState' = [opState EXCEPT ![o] = "prepared"]
    /\ message' = [message EXCEPT ![o] = m]
    /\ meta' = [meta EXCEPT ![o] = d]
    /\ UNCHANGED <<fenced, lease, attemptState, granted, events, manual>>

\* The dispatch fence, committed before a transport may write.
MarkDispatchStartedOwned(i, o) ==
    /\ MayFence(i, o)
    /\ MoveTo(o, "dispatch_started")
    /\ fenced' = fenced \cup {o}
    /\ UNCHANGED <<identity, lease, granted, manual>>

HeartbeatAttempt(i, o) ==
    /\ o \in granted[i]
    /\ attemptState[o] \in Open
    /\ left[o] > 0
    /\ left' = [left EXCEPT ![o] = Lease]
    /\ UNCHANGED <<opState, identity, fenced, owner, attemptState, granted,
                   events, manual>>

\* The transitions RecordResult accepts.  It takes no token: any caller may
\* report, and the current state alone decides.
ValidResult_PreparedMayBeUnknown ==
    ({"prepared", "dispatch_started"} \X {"accepted", "rejected", "outcome_unknown"})
        \cup {<<"outcome_unknown", "accepted">>, <<"prepared", "not_sent">>}
ValidResult ==
    ({"dispatch_started"} \X {"accepted", "rejected", "outcome_unknown"})
        \cup {<<"outcome_unknown", "accepted">>, <<"prepared", "not_sent">>}

RecordResult(o, s) ==
    /\ <<opState[o], s>> \in ValidResult
    /\ MoveTo(o, s)
    /\ UNCHANGED <<identity, fenced, lease, granted, manual>>

\* Positive evidence: an app-server response or a reconciled native item.
RecordAccepted(o) ==
    /\ opState[o] \in {"dispatch_started", "outcome_unknown"}
    /\ MoveTo(o, "accepted")
    /\ acceptance' = acceptance \cup {o}
    /\ UNCHANGED <<identity, fenced, lease, granted, resolution, receipt, told>>

\* The caller's assertion closes an unknown operation, and only that.
Resolvable(o) == opState[o] = "outcome_unknown"

RecordManualResolution(o, a) ==
    /\ Resolvable(o)
    /\ MoveTo(o, "manually_resolved")
    /\ resolution' = [resolution EXCEPT ![o] = a]
    /\ told' = [told EXCEPT ![o] = @ \cup {a}]
    /\ UNCHANGED <<identity, fenced, lease, granted, acceptance, receipt>>

\* ResolveWithReceipt: assertion, transition and receipt in one transaction.
ResolveFirst(o, a) ==
    /\ Resolvable(o)
    /\ MoveTo(o, "manually_resolved")
    /\ resolution' = [resolution EXCEPT ![o] = a]
    /\ receipt' = [receipt EXCEPT ![o] = a]
    /\ told' = [told EXCEPT ![o] = @ \cup {a}]
    /\ UNCHANGED <<identity, fenced, lease, granted, acceptance>>

\* A resolver that comes second is told what the stored receipt says; with no
\* stored receipt it is told ErrNotFound.
ResolveAgain_KeepsOwnAssertion(o, a) ==
    /\ opState[o] = "manually_resolved"
    /\ receipt[o] # None
    /\ told' = [told EXCEPT ![o] = @ \cup {a}]
    /\ UNCHANGED <<opState, identity, fenced, lease, attemptState, granted,
                   events, acceptance, resolution, receipt>>
ResolveAgain_NoReceiptCheck(o, a) ==
    /\ opState[o] = "manually_resolved"
    /\ told' = [told EXCEPT ![o] = @ \cup {receipt[o]}]
    /\ UNCHANGED <<opState, identity, fenced, lease, attemptState, granted,
                   events, acceptance, resolution, receipt>>
ResolveAgain(o, a) ==
    /\ opState[o] = "manually_resolved"
    /\ receipt[o] # None
    /\ told' = [told EXCEPT ![o] = @ \cup {receipt[o]}]
    /\ UNCHANGED <<opState, identity, fenced, lease, attemptState, granted,
                   events, acceptance, resolution, receipt>>

ResolveWithReceipt(o, a) == ResolveFirst(o, a) \/ ResolveAgain(o, a)

\* The rows RecoverOrphans selects with a clock `stale` ticks old.
Orphaned(stale) ==
    { o \in Op : opState[o] \in Open /\ owner[o] # None /\ left[o] + stale <= 0 }

\* What an orphan becomes: a fence means bytes may have left the process.
Recovered_IgnoresFence(o) == "not_sent"
Recovered(o) == IF opState[o] = "dispatch_started" THEN "outcome_unknown" ELSE "not_sent"

RecoverOrphans(stale) ==
    /\ Orphaned(stale) # {}
    /\ opState' = [o \in Op |-> IF o \in Orphaned(stale) THEN Recovered(o) ELSE opState[o]]
    /\ attemptState' = [o \in Op |->
                          IF o \in Orphaned(stale) THEN Recovered(o) ELSE attemptState[o]]
    /\ events' = [o \in Op |->
                    IF o \in Orphaned(stale) THEN events[o] \cup {Recovered(o)} ELSE events[o]]
    /\ UNCHANGED <<identity, fenced, lease, granted, manual>>

\* A tick of the wall clock.  The lease of a decided attempt is never read
\* again and is left where it stands.
Tick ==
    /\ \E o \in Op : opState[o] \in Open /\ left[o] > -MaxStale
    /\ left' = [o \in Op |-> IF opState[o] \in Open /\ left[o] > -MaxStale
                             THEN left[o] - 1 ELSE left[o]]
    /\ UNCHANGED <<opState, identity, fenced, owner, attemptState, granted,
                   events, manual>>

Next ==
    \/ \E i \in Invocation, o \in Op :
          \/ \E m \in Message, d \in Meta :
                \/ \E answered \in BOOLEAN : PrepareNew(i, o, m, d, answered)
                \/ PrepareAgain(i, o, m, d)
          \/ MarkDispatchStartedOwned(i, o)
          \/ HeartbeatAttempt(i, o)
    \/ \E o \in Op :
          \/ \E m \in Message, d \in Meta : ImportPortable(o, m, d)
          \/ \E s \in State : RecordResult(o, s)
          \/ RecordAccepted(o)
          \/ \E a \in Assertion : RecordManualResolution(o, a) \/ ResolveWithReceipt(o, a)
    \/ \E stale \in 0..MaxStale : RecoverOrphans(stale)
    \/ Tick

Spec == Init /\ [][Next]_vars

-----------------------------------------------------------------------------
(* Properties. *)

\* The columns hold values of their types.
TypeOK ==
    /\ opState \in [Op -> State \cup {"absent"}]
    /\ message \in [Op -> Message \cup {None}]
    /\ meta \in [Op -> Meta \cup {None}]
    /\ fenced \in SUBSET Op
    /\ owner \in [Op -> Invocation \cup {None}]
    /\ attemptState \in [Op -> State \cup {"absent"}]
    /\ left \in [Op -> (-MaxStale)..Lease]
    /\ granted \in [Invocation -> SUBSET Op]
    /\ events \in [Op -> SUBSET State]
    /\ acceptance \in SUBSET Op
    /\ resolution \in [Op -> Assertion \cup {None}]
    /\ receipt \in [Op -> Assertion \cup {None}]
    /\ told \in [Op -> SUBSET Assertion]

\* operations and attempts never disagree, whichever transaction moved the
\* row: RecordResult, RecordAccepted, resolution, recovery.
AttemptMirrorsOperation ==
    \A o \in Op : owner[o] # None => attemptState[o] = opState[o]

\* The dispatch fence separates what may have been written from what was
\* not: a not_sent operation never had its fence committed and every other
\* decided operation did, however recovery and results interleave.
FenceDividesEvidence ==
    \A o \in Op : /\ opState[o] \in {"absent", "prepared", "not_sent"} => o \notin fenced
                  /\ opState[o] \in Sent => o \in fenced

\* An operation imported from another journal has no attempt, and so never
\* passes the fence of this one (ImportOperation, ImportOriginalStatus).
ImportGrantsNoAuthority ==
    \A o \in Op : owner[o] = None => o \notin fenced /\ \A i \in Invocation : o \notin granted[i]

\* The dispatch token of an operation is known to one invocation at most,
\* and to the one its attempts row names.
TokenOnlyToOwner ==
    \A i \in Invocation, o \in Op : o \in granted[i] => owner[o] = i

\* message_id identifies one operation, also when two invocations prepare the
\* same message under different operation IDs.
MessageNamesOneOperation ==
    \A o, p \in Op : message[o] # None /\ message[o] = message[p] => o = p

\* The authority to dispatch a message is single: whichever invocations
\* prepare it, on whichever machines, one operation and one owner have it.
AuthorityIsSingle == MessageNamesOneOperation /\ TokenOnlyToOwner /\ ImportGrantsNoAuthority

\* "The original unknown event remains in the event log": a resolved or
\* accepted-after-unknown operation still shows every state it went through.
EventsExplainState ==
    \A o \in Op :
        /\ owner[o] # None => opState[o] \in events[o]
        /\ opState[o] = "manually_resolved" => "outcome_unknown" \in events[o]
        /\ o \in fenced => "dispatch_started" \in events[o]

\* Concurrent resolvers with opposite assertions: everyone who was told the
\* operation is resolved was told the assertion that is stored, and a stored
\* receipt carries it too (ResolveWithReceipt, RecordManualResolution).
ResolversAgree ==
    \A o \in Op : /\ told[o] \subseteq {resolution[o]}
                  /\ receipt[o] \in {None, resolution[o]}

\* Evidence is only strengthened: rejected, not_sent and accepted are final,
\* unknown becomes accepted or resolved, and a committed fence stays.
Strengthening ==
    {<<"absent", "prepared">>, <<"prepared", "not_sent">>,
     <<"prepared", "dispatch_started">>}
        \cup ({"dispatch_started"} \X {"accepted", "rejected", "outcome_unknown"})
        \cup ({"outcome_unknown"} \X {"accepted", "manually_resolved"})

StepStrengthens ==
    /\ \A o \in Op : opState'[o] # opState[o] => <<opState[o], opState'[o]>> \in Strengthening
    /\ fenced \subseteq fenced'
    /\ \A o \in Op : message[o] # None => message'[o] = message[o] /\ meta'[o] = meta[o]

EvidenceOnlyStrengthens == [][StepStrengthens]_vars
=============================================================================
