---------------------------- MODULE ReplyCustody ----------------------------
(***************************************************************************)
(* The reply_claims, reply_winners, observations and reply_acceptances     *)
(* tables of the journal that has custody of a set of originals, and the   *)
(* transactions of go/internal/journal/replies.go over them: what the      *)
(* control receiver applies for remote deliverers, and what the waiter and *)
(* the reconciler of the same machine do.                                  *)
(*                                                                         *)
(* Every action is one committed transaction; one that ends in an error is *)
(* rolled back and is a stuttering step.  left[r] is lease_until - now, as *)
(* in OperationJournal.  Of the events table only the order of the         *)
(* reply_outcome_unknown events is kept, in unknownAt.                     *)
(***************************************************************************)
EXTENDS Integers, FiniteSets

CONSTANTS
    Reply,     \* reply message IDs
    Original,  \* original message IDs
    Holder,    \* delivery processes: the owners of claims
    Body,      \* declared digest, size, status, error code and routes
    Item,      \* native item IDs of the destination's history
    None,      \* the value of a column of a row that does not exist
    Lease,     \* claim lease in ticks (30s in the code)
    MaxStale   \* bound: how old a clock read before BEGIN may be

ASSUME LeaseAssumption == Lease \in Nat \ {0} /\ MaxStale \in Nat
ASSUME ReplyAssumption == IsFiniteSet(Reply)
ASSUME NoneAssumption ==
    None \notin Reply \cup Original \cup Holder \cup Body \cup Item

VARIABLES
    known,        \* originals whose operations row has a reply relationship
    state,        \* reply_claims.state, "absent" when there is no row
    original,     \* reply_claims.original_id
    body,         \* the other identity columns of the claim
    owner,        \* reply_claims.owner
    left,         \* reply_claims.lease_until - now
    seq,          \* reply_claims.commit_seq, 0 when NULL
    winner,       \* reply_winners.reply_id
    winnerSeq,    \* reply_winners.commit_seq
    item,         \* observations.native_item_id
    acceptances,  \* replies with a reply_acceptances row
    receipt,      \* receipt[o]: the item the receipt of o refers to
    granted,      \* granted[h]: claims whose token was returned to h
    unknownAt,    \* events.seq of the reply's unknown event, 0 when none
    lastUnknown   \* the latest of those

claim   == <<state, original, body, owner>>
winners == <<winner, winnerSeq>>
unknown == <<unknownAt, lastUnknown>>
vars == <<known, state, original, body, owner, left, seq, winner, winnerSeq, item,
          acceptances, receipt, granted, unknownAt, lastUnknown>>

Decided == {"reply_accepted", "reply_observed"}
State   == {"reply_claimed", "reply_outcome_unknown"} \cup Decided

Init ==
    /\ known = {}
    /\ state = [r \in Reply |-> "absent"]
    /\ original = [r \in Reply |-> None]
    /\ body = [r \in Reply |-> None]
    /\ owner = [r \in Reply |-> None]
    /\ left = [r \in Reply |-> 0]
    /\ seq = [r \in Reply |-> 0]
    /\ winner = [o \in Original |-> None]
    /\ winnerSeq = [o \in Original |-> 0]
    /\ item = [r \in Reply |-> None]
    /\ acceptances = {}
    /\ receipt = [o \in Original |-> None]
    /\ granted = [h \in Holder |-> {}]
    /\ unknownAt = [r \in Reply |-> 0]
    /\ lastUnknown = 0

-----------------------------------------------------------------------------
(* Helpers: what several transactions do. *)

\* assignReplyCommitTx: MAX(commit_seq)+1 over every claim of the journal,
\* kept if the reply has one already; and INSERT OR IGNORE of the winner.
IsNextCommit(n, r) ==
    /\ \A q \in Reply : seq[q] < n
    /\ n = 1 \/ \E q \in Reply : seq[q] = n - 1

CommitAs_Replace(n, r) ==
    LET o == original[r]
    IN /\ IF seq[r] = 0 THEN IsNextCommit(n, r) ELSE n = seq[r]
       /\ seq' = [seq EXCEPT ![r] = n]
       /\ winner' = [winner EXCEPT ![o] = r]
       /\ winnerSeq' = [winnerSeq EXCEPT ![o] = n]
CommitAs(n, r) ==
    LET o == original[r]
    IN /\ IF seq[r] = 0 THEN IsNextCommit(n, r) ELSE n = seq[r]
       /\ seq' = [seq EXCEPT ![r] = n]
       /\ winner' = [winner EXCEPT ![o] = IF @ = None THEN r ELSE @]
       /\ winnerSeq' = [winnerSeq EXCEPT ![o] = IF winner[o] = None THEN n ELSE @]

AssignReplyCommit(r) == \E n \in 1..Cardinality(Reply) : CommitAs(n, r)

\* expireClaimTx on every reply of S in one transaction.  The rows are visited
\* in an order SQLite chooses, and each gets the next event number.
Orders(S) == { f \in [S -> 1..Cardinality(S)] : \A q, r \in S : f[q] = f[r] => q = r }
ExpireAll_WrongState(S) ==
    /\ state' = [r \in Reply |-> IF r \in S THEN "outcome_unknown" ELSE state[r]]
    /\ UNCHANGED unknown
ExpireAll_NoEvent(S) ==
    /\ state' = [r \in Reply |-> IF r \in S THEN "reply_outcome_unknown" ELSE state[r]]
    /\ UNCHANGED unknown
ExpireAll(S) ==
    \E order \in Orders(S) :
       /\ state' = [r \in Reply |-> IF r \in S THEN "reply_outcome_unknown" ELSE state[r]]
       /\ unknownAt' = [r \in Reply |-> IF r \in S THEN lastUnknown + order[r] ELSE unknownAt[r]]
       /\ lastUnknown' = lastUnknown + Cardinality(S)

\* The claims a clock `stale` ticks old finds past their lease.
Due(stale) == { r \in Reply : state[r] = "reply_claimed" /\ left[r] + stale <= 0 }

\* The WHERE clause of heartbeat, commit and abandon: owner and token match
\* and the claim is still open.
Holds(h, r) == r \in granted[h] /\ state[r] = "reply_claimed"

\* The states an observation may strengthen, and the check that an earlier
\* observation of the reply named the same item.
Observable_EvenIfClaimed(r, i) ==
    state[r] \in {"reply_claimed", "reply_outcome_unknown"} \cup Decided /\ item[r] \in {None, i}
Observable(r, i) ==
    state[r] \in {"reply_outcome_unknown"} \cup Decided /\ item[r] \in {None, i}

RecordObservation(r, i) ==
    /\ item' = [item EXCEPT ![r] = i]
    /\ state' = [state EXCEPT ![r] = "reply_observed"]
    /\ AssignReplyCommit(r)

-----------------------------------------------------------------------------
(* Transactions. *)

\* Journal.Prepare or ImportOriginalStatus of the original (OperationJournal):
\* a claim needs the operations row.
PrepareOriginal(o) ==
    /\ o \notin known
    /\ known' = known \cup {o}
    /\ UNCHANGED <<claim, left, seq, winners, item, acceptances, receipt, granted, unknown>>

\* ClaimReply of a reply ID without a row.  Only this caller is returned the
\* token; if the answer is lost (answered is FALSE) nobody has it.
ClaimNew(h, r, o, b, answered) ==
    /\ state[r] = "absent"
    /\ o \in known
    /\ state' = [state EXCEPT ![r] = "reply_claimed"]
    /\ original' = [original EXCEPT ![r] = o]
    /\ body' = [body EXCEPT ![r] = b]
    /\ owner' = [owner EXCEPT ![r] = h]
    /\ left' = [left EXCEPT ![r] = Lease]
    /\ granted' = IF answered THEN [granted EXCEPT ![h] = @ \cup {r}] ELSE granted
    /\ UNCHANGED <<known, seq, winners, item, acceptances, receipt, unknown>>

\* ClaimReply of a reply ID with a row of the same identity: the caller joins
\* it without a token.  If the lease has run out, this call expires it.
ClaimExisting(h, r, o, b) ==
    /\ state[r] \in Decided \cup {"reply_claimed"}
    /\ original[r] = o /\ body[r] = b
    /\ IF r \in Due(0) THEN ExpireAll({r}) ELSE UNCHANGED <<state, unknown>>
    /\ UNCHANGED <<known, original, body, owner, left, seq, winners, item, acceptances,
                   receipt, granted>>

ClaimReply(h, r, o, b) ==
    (\E answered \in BOOLEAN : ClaimNew(h, r, o, b, answered)) \/ ClaimExisting(h, r, o, b)

Heartbeat(h, r) ==
    /\ Holds(h, r)
    /\ left[r] > 0
    /\ left' = [left EXCEPT ![r] = Lease]
    /\ UNCHANGED <<known, claim, seq, winners, item, acceptances, receipt, granted, unknown>>

\* Destination acceptance: closes the claim and takes its place in the commit
\* order; a holder whose lease ran out expires its own claim instead.
CommitReply_LateToo(h, r) ==
    /\ r \in granted[h]
    /\ state[r] \in {"reply_claimed", "reply_outcome_unknown"}
    /\ state' = [state EXCEPT ![r] = "reply_accepted"]
    /\ AssignReplyCommit(r)
    /\ UNCHANGED <<known, original, body, owner, left, item, acceptances, receipt, granted, unknown>>
CommitReply(h, r) ==
    /\ Holds(h, r)
    /\ \/ /\ left[r] > 0
          /\ state' = [state EXCEPT ![r] = "reply_accepted"]
          /\ AssignReplyCommit(r)
          /\ UNCHANGED unknown
       \/ /\ left[r] <= 0
          /\ ExpireAll({r})
          /\ UNCHANGED <<seq, winners>>
    /\ UNCHANGED <<known, original, body, owner, left, item, acceptances, receipt, granted>>

\* A holder gives its claim up, expired or not.
AbandonReply(h, r) ==
    /\ Holds(h, r)
    /\ ExpireAll({r})
    /\ UNCHANGED <<known, original, body, owner, left, seq, winners, item, acceptances,
                   receipt, granted>>

\* Any waiter, status or maintenance process; the clock is read before BEGIN.
ExpireClaims(stale) ==
    /\ Due(stale) # {}
    /\ ExpireAll(Due(stale))
    /\ UNCHANGED <<known, original, body, owner, left, seq, winners, item, acceptances,
                   receipt, granted>>

\* OriginalStatus expires what is due of one original before it selects.
OriginalStatus(o) ==
    LET due == { r \in Due(0) : original[r] = o }
    IN /\ o \in known
       /\ due # {}
       /\ ExpireAll(due)
       /\ UNCHANGED <<known, original, body, owner, left, seq, winners, item, acceptances,
                      receipt, granted>>

\* ObserveReplyWithProvenance: verified native evidence.
ObserveReply(r, i) ==
    /\ Observable(r, i)
    /\ RecordObservation(r, i)
    /\ UNCHANGED <<known, original, body, owner, left, acceptances, receipt, granted, unknown>>

\* Native history found by a reconciler; a reply already observed only has
\* its time refreshed, which is a stuttering step.
ReconcileReplyObservation(r, i) ==
    /\ Observable(r, i)
    /\ state[r] # "reply_observed"
    /\ RecordObservation(r, i)
    /\ UNCHANGED <<known, original, body, owner, left, acceptances, receipt, granted, unknown>>

\* The same together with the receipt of the original, in one transaction; a
\* reply that lost is refused, and so is a receipt that names another item.
ReconcileReplyObservationWithReceipt(r, i) ==
    /\ Observable(r, i)
    /\ winner[original[r]] \in {None, r}
    /\ receipt[original[r]] \in {None, i}
    /\ IF state[r] = "reply_observed" THEN UNCHANGED <<state, item, seq, winners>>
                                      ELSE RecordObservation(r, i)
    /\ receipt' = [receipt EXCEPT ![original[r]] = i]
    /\ UNCHANGED <<known, original, body, owner, left, acceptances, granted, unknown>>

\* Recovered acceptance evidence for a claim that had expired.
ReconcileReplyAccepted(r) ==
    /\ state[r] = "reply_outcome_unknown"
    /\ state' = [state EXCEPT ![r] = "reply_accepted"]
    /\ acceptances' = acceptances \cup {r}
    /\ AssignReplyCommit(r)
    /\ UNCHANGED <<known, original, body, owner, left, item, receipt, granted, unknown>>

\* A tick of the custodian's clock.  The lease of a closed claim is never
\* read again and is left where it stands.
Tick ==
    /\ \E r \in Reply : state[r] = "reply_claimed" /\ left[r] > -MaxStale
    /\ left' = [r \in Reply |-> IF state[r] = "reply_claimed" /\ left[r] > -MaxStale
                                THEN left[r] - 1 ELSE left[r]]
    /\ UNCHANGED <<known, claim, seq, winners, item, acceptances, receipt, granted, unknown>>

Next ==
    \/ \E o \in Original : PrepareOriginal(o) \/ OriginalStatus(o)
    \/ \E h \in Holder, r \in Reply :
          \/ \E o \in Original, b \in Body : ClaimReply(h, r, o, b)
          \/ Heartbeat(h, r)
          \/ CommitReply(h, r)
          \/ AbandonReply(h, r)
    \/ \E stale \in 0..MaxStale : ExpireClaims(stale)
    \/ \E r \in Reply, i \in Item :
          \/ ObserveReply(r, i)
          \/ ReconcileReplyObservation(r, i)
          \/ ReconcileReplyObservationWithReceipt(r, i)
    \/ \E r \in Reply : ReconcileReplyAccepted(r)
    \/ Tick

Spec == Init /\ [][Next]_vars

-----------------------------------------------------------------------------
(* What a read of an original selects (OriginalStatus after it expired). *)

Unknowns(o) == { r \in Reply : original[r] = o /\ state[r] = "reply_outcome_unknown" }

EarliestUnknown(o) ==
    CHOOSE r \in Unknowns(o) : \A q \in Unknowns(o) : unknownAt[r] <= unknownAt[q]

Selection_AnyUnknownFirst(o) ==
    IF Unknowns(o) # {} THEN [selection |-> "terminal_unknown", reply |-> EarliestUnknown(o)]
    ELSE IF winner[o] # None THEN [selection |-> "winner", reply |-> winner[o]]
    ELSE [selection |-> "pending"]
Selection(o) ==
    IF winner[o] # None THEN [selection |-> "winner", reply |-> winner[o]]
    ELSE IF Unknowns(o) # {} THEN [selection |-> "terminal_unknown", reply |-> EarliestUnknown(o)]
    ELSE [selection |-> "pending"]

\* validateOriginalSelectedClaim: the checks whose failure makes OriginalStatus
\* answer ErrCorrupt, for the winner row and for the unknown rows.
WinnerIsValid(o) ==
    /\ state[winner[o]] \in Decided
    /\ seq[winner[o]] = winnerSeq[o] /\ winnerSeq[o] > 0
    /\ state[winner[o]] = "reply_observed" => item[winner[o]] # None
UnknownIsValid(r) == unknownAt[r] > 0

-----------------------------------------------------------------------------
(* Properties. *)

\* The columns hold values of their types.
TypeOK ==
    /\ known \in SUBSET Original
    /\ state \in [Reply -> State \cup {"absent"}]
    /\ original \in [Reply -> Original \cup {None}]
    /\ body \in [Reply -> Body \cup {None}]
    /\ owner \in [Reply -> Holder \cup {None}]
    /\ left \in [Reply -> (-MaxStale)..Lease]
    /\ seq \in [Reply -> Nat]
    /\ winner \in [Original -> Reply \cup {None}]
    /\ winnerSeq \in [Original -> Nat]
    /\ item \in [Reply -> Item \cup {None}]
    /\ acceptances \in SUBSET Reply
    /\ receipt \in [Original -> Item \cup {None}]
    /\ granted \in [Holder -> SUBSET Reply]
    /\ unknownAt \in [Reply -> Nat]
    /\ lastUnknown \in Nat

\* "Winner selection is by this transaction's custody commit order": whichever
\* of several replies is accepted, observed or reconciled, in whatever order,
\* the original's winner is the one that committed first.
WinnerIsFirstCommit ==
    /\ \A r \in Reply : seq[r] > 0 =>
          /\ winner[original[r]] # None
          /\ winnerSeq[original[r]] <= seq[r]
    /\ \A o \in Original : winner[o] # None =>
          /\ original[winner[o]] = o
          /\ seq[winner[o]] = winnerSeq[o]

\* Exactly the accepted and observed claims have a place in the commit order,
\* and no two share one.
CommitOrderIsTotal ==
    /\ \A r \in Reply : seq[r] > 0 <=> state[r] \in Decided
    /\ \A q, r \in Reply : seq[q] > 0 /\ seq[q] = seq[r] => q = r

\* No sequence of custody transactions leaves rows that OriginalStatus must
\* refuse as corrupt.
StatusIsNeverCorrupt ==
    /\ \A o \in Original : winner[o] # None => WinnerIsValid(o)
    /\ \A r \in Reply : state[r] = "reply_outcome_unknown" => UnknownIsValid(r)

\* Expiry fences a late token: a claim whose unknown outcome was recorded is
\* positive again only by native evidence or recovered acceptance, never by
\* its holder's commit.
UnknownNeedsEvidence ==
    \A r \in Reply : unknownAt[r] > 0 /\ state[r] \in Decided =>
                        item[r] # None \/ r \in acceptances

\* The fencing token of a claim is known to its recorded owner only, however
\* many processes claim the same reply ID.
TokenOnlyToOwner ==
    \A h \in Holder, r \in Reply : r \in granted[h] => owner[r] = h

\* The receipt of an original that shows an observed reply shows the item of
\* its winner (ReconcileReplyObservationWithReceipt).
ReceiptShowsWinner ==
    \A o \in Original : receipt[o] # None => winner[o] # None /\ receipt[o] = item[winner[o]]

\* The first commit decides: positions are unique, the winner has the first
\* one, and the receipt shows no other reply's item.
CommitOrderDecides == CommitOrderIsTotal /\ WinnerIsFirstCommit /\ ReceiptShowsWinner

\* A token is known to one holder, and expiry fences it for ever.
ClaimsAreFenced == TokenOnlyToOwner /\ UnknownNeedsEvidence

\* A claim never reopens, evidence is never weakened, and neither identity,
\* commit position, winner nor observed item is ever rewritten, in the claim
\* or in the receipt that shows it (mergeContentRef, receipts.go).
Strengthening ==
    {<<"absent", "reply_claimed">>, <<"reply_outcome_unknown", "reply_accepted">>,
     <<"reply_outcome_unknown", "reply_observed">>, <<"reply_accepted", "reply_observed">>,
     <<"reply_claimed", "reply_outcome_unknown">>, <<"reply_claimed", "reply_accepted">>}
StepStrengthens ==
    /\ \A r \in Reply :
          /\ state'[r] # state[r] => <<state[r], state'[r]>> \in Strengthening
          /\ state[r] # "absent" => original'[r] = original[r] /\ body'[r] = body[r]
          /\ seq[r] # 0 => seq'[r] = seq[r]
          /\ item[r] # None => item'[r] = item[r]
          /\ unknownAt[r] # 0 => unknownAt'[r] = unknownAt[r]
    /\ \A o \in Original : /\ winner[o] # None => winner'[o] = winner[o]
                           /\ receipt[o] # None => receipt'[o] = receipt[o]
EvidenceOnlyStrengthens == [][StepStrengthens]_vars

\* Custody implements the register a waiter relies on: what OriginalStatus
\* selects goes from pending to one unknown reply to the winner and no other
\* way, although claims expire in batches and several replies compete.
Outcome == INSTANCE OriginalOutcome WITH outcome <- [o \in Original |-> Selection(o)]
OutcomeSpec == Outcome!Spec
=============================================================================
