------------------------ MODULE ReplyCustody_proofs ------------------------
(***************************************************************************)
(* Proofs about ReplyCustody, for any finite set of replies and any        *)
(* originals, holders, items, lease and clock staleness.                   *)
(*                                                                         *)
(* All safety properties come from one inductive invariant.  Its core is   *)
(* OrderInv, that commit positions are unique and belong exactly to the    *)
(* decided claims, so that the next position is later than every winner;   *)
(* and EventInv, the same for the unknown events, so that an unknown reply *)
(* once selected stays the earliest.                                       *)
(***************************************************************************)
EXTENDS ReplyCustody, FiniteSetTheorems, WellFoundedInduction, TLAPS

\* A claim row exists with all its columns, or not at all.
RowInv ==
    \A r \in Reply :
        /\ state[r] = "absent" => /\ original[r] = None /\ owner[r] = None
                                  /\ unknownAt[r] = 0
        /\ state[r] # "absent" => original[r] \in Original

\* A winner row was written with the position of a commit.
WinnerHasPosition == \A o \in Original : winner[o] # None => winnerSeq[o] > 0

OrderInv == CommitOrderIsTotal /\ WinnerIsFirstCommit /\ WinnerHasPosition

\* Unknown events are numbered in order, once per reply, and an open claim
\* has none.
EventInv ==
    /\ \A r \in Reply : /\ unknownAt[r] <= lastUnknown
                        /\ state[r] = "reply_outcome_unknown" => unknownAt[r] > 0
                        /\ state[r] = "reply_claimed" => unknownAt[r] = 0
    /\ \A q, r \in Reply : unknownAt[q] > 0 /\ unknownAt[q] = unknownAt[r] => q = r

\* An observation row and the state reply_observed go together.
ItemInv == \A r \in Reply : item[r] # None <=> state[r] = "reply_observed"

EvidenceInv == ItemInv /\ UnknownNeedsEvidence /\ ReceiptShowsWinner

IInv == TypeOK /\ RowInv /\ OrderInv /\ EventInv /\ EvidenceInv /\ TokenOnlyToOwner

-----------------------------------------------------------------------------
(* What the shared helpers do. *)

\* Any set of replies has a natural number of elements.
LEMMA FiniteReplies ==
    ASSUME NEW S \in SUBSET Reply
    PROVE  IsFiniteSet(S) /\ Cardinality(S) \in Nat
  BY ReplyAssumption, FS_Subset, FS_CardinalityType

\* assignReplyCommitTx gives r a position no other reply has, keeps an earlier
\* one, and makes r the winner only where there was none.
LEMMA AssignEffect ==
    ASSUME TypeOK, OrderInv, NEW r \in Reply, original[r] \in Original, AssignReplyCommit(r)
    PROVE  /\ seq' \in [Reply -> Nat] /\ winner' \in [Original -> Reply \cup {None}]
           /\ winnerSeq' \in [Original -> Nat]
           /\ seq'[r] > 0
           /\ seq[r] # 0 => seq'[r] = seq[r]
           /\ seq[r] = 0 => \A q \in Reply : seq[q] < seq'[r]
           /\ \A q \in Reply \ {r} : seq'[q] = seq[q]
           /\ winner'[original[r]] = IF winner[original[r]] = None THEN r ELSE winner[original[r]]
           /\ winnerSeq'[original[r]] =
                 IF winner[original[r]] = None THEN seq'[r] ELSE winnerSeq[original[r]]
           /\ \A o \in Original \ {original[r]} :
                 winner'[o] = winner[o] /\ winnerSeq'[o] = winnerSeq[o]
  <1>1. PICK n \in 1..Cardinality(Reply) : CommitAs(n, r)
    BY DEF AssignReplyCommit
  <1>2. n \in Nat /\ n > 0
    BY <1>1, FiniteReplies
  <1>3. seq[r] # 0 => n = seq[r]
    BY <1>1 DEF CommitAs
  <1>4. seq[r] = 0 => \A q \in Reply : seq[q] < n
    BY <1>1 DEF CommitAs, IsNextCommit
  <1>5. /\ seq' = [seq EXCEPT ![r] = n]
        /\ winner' = [winner EXCEPT ![original[r]] = IF @ = None THEN r ELSE @]
        /\ winnerSeq' = [winnerSeq EXCEPT ![original[r]] = IF winner[original[r]] = None THEN n ELSE @]
    BY <1>1 DEF CommitAs
  <1> QED
    BY <1>2, <1>3, <1>4, <1>5 DEF TypeOK

\* ExpireAll closes exactly the claims of S and numbers their events after
\* every earlier one.
LEMMA ExpireEffect ==
    ASSUME TypeOK, NEW S \in SUBSET Reply, ExpireAll(S)
    PROVE  /\ state' \in [Reply -> State \cup {"absent"}]
           /\ unknownAt' \in [Reply -> Nat] /\ lastUnknown' \in Nat
           /\ lastUnknown <= lastUnknown'
           /\ \A r \in S : /\ state'[r] = "reply_outcome_unknown"
                           /\ lastUnknown < unknownAt'[r] /\ unknownAt'[r] <= lastUnknown'
           /\ \A q, r \in S : unknownAt'[q] = unknownAt'[r] => q = r
           /\ \A r \in Reply \ S : state'[r] = state[r] /\ unknownAt'[r] = unknownAt[r]
  <1>1. PICK order \in Orders(S) :
           /\ state' = [r \in Reply |-> IF r \in S THEN "reply_outcome_unknown" ELSE state[r]]
           /\ unknownAt' = [r \in Reply |->
                               IF r \in S THEN lastUnknown + order[r] ELSE unknownAt[r]]
           /\ lastUnknown' = lastUnknown + Cardinality(S)
    BY DEF ExpireAll
  <1>2. Cardinality(S) \in Nat
    BY FiniteReplies
  <1>3. /\ \A r \in S : order[r] \in 1..Cardinality(S)
        /\ \A q, r \in S : order[q] = order[r] => q = r
    BY <1>1 DEF Orders
  <1>4. state' \in [Reply -> State \cup {"absent"}]
    BY <1>1 DEF TypeOK, State
  <1>5. unknownAt' \in [Reply -> Nat] /\ lastUnknown' \in Nat /\ lastUnknown <= lastUnknown'
    BY <1>1, <1>2, <1>3 DEF TypeOK
  <1>6. \A r \in S : /\ state'[r] = "reply_outcome_unknown"
                     /\ lastUnknown < unknownAt'[r] /\ unknownAt'[r] <= lastUnknown'
    BY <1>1, <1>2, <1>3 DEF TypeOK
  <1>7. \A q, r \in S : unknownAt'[q] = unknownAt'[r] => q = r
    <2> SUFFICES ASSUME NEW q \in S, NEW r \in S, unknownAt'[q] = unknownAt'[r] PROVE q = r
      OBVIOUS
    <2>1. lastUnknown + order[q] = lastUnknown + order[r]
      BY <1>1
    <2>2. order[q] = order[r]
      BY <2>1, <1>2, <1>3 DEF TypeOK
    <2> QED
      BY <2>2, <1>3
  <1>8. \A r \in Reply \ S : state'[r] = state[r] /\ unknownAt'[r] = unknownAt[r]
    BY <1>1
  <1> QED
    BY <1>4, <1>5, <1>6, <1>7, <1>8

\* Deciding a reply that has a row keeps the commit order: its position is
\* its old one, or later than every other.
LEMMA DecideKeepsOrder ==
    ASSUME IInv, NEW r \in Reply, NEW s \in Decided, state[r] # "absent",
           state' = [state EXCEPT ![r] = s], AssignReplyCommit(r), UNCHANGED original
    PROVE  OrderInv'
  <1>0. TypeOK /\ OrderInv /\ original[r] \in Original
    BY DEF IInv, RowInv
  <1>1. \A q \in Reply : seq'[q] > 0 <=> state'[q] \in Decided
    BY <1>0, AssignEffect DEF TypeOK, OrderInv, CommitOrderIsTotal
  <1>2. \A p, q \in Reply : seq'[p] > 0 /\ seq'[p] = seq'[q] => p = q
    <2>1. CASE seq[r] # 0
      BY <2>1, <1>0, AssignEffect DEF TypeOK, OrderInv, CommitOrderIsTotal
    <2>2. CASE seq[r] = 0
      <3>1. \A q \in Reply \ {r} : seq'[q] < seq'[r]
        BY <2>2, <1>0, AssignEffect DEF TypeOK
      <3> QED
        BY <3>1, <1>0, AssignEffect DEF TypeOK, OrderInv, CommitOrderIsTotal
    <2> QED
      BY <2>1, <2>2
  <1>3. \A q \in Reply : seq'[q] > 0 =>
           winner'[original'[q]] # None /\ winnerSeq'[original'[q]] <= seq'[q]
    <2> SUFFICES ASSUME NEW q \in Reply, seq'[q] > 0
                 PROVE  winner'[original[q]] # None /\ winnerSeq'[original[q]] <= seq'[q]
      OBVIOUS
    <2>1. original[q] \in Original
      <3>1. state[q] # "absent"
        BY <1>0, AssignEffect DEF TypeOK, OrderInv, CommitOrderIsTotal, Decided
      <3> QED
        BY <3>1 DEF IInv, RowInv
    <2>2. CASE original[q] # original[r]
      BY <2>1, <2>2, <1>0, AssignEffect DEF TypeOK, OrderInv, WinnerIsFirstCommit
    <2>3. CASE original[q] = original[r] /\ winner[original[r]] = None
      <3>1. \A p \in Reply : seq[p] > 0 => original[p] # original[r]
        BY <2>3, <1>0 DEF OrderInv, WinnerIsFirstCommit
      <3>2. q = r
        BY <3>1, <2>3, <1>0, AssignEffect DEF TypeOK
      <3> QED
        BY <3>2, <2>3, <1>0, AssignEffect, NoneAssumption DEF TypeOK
    <2>4. CASE original[q] = original[r] /\ winner[original[r]] # None
      <3> DEFINE w == winner[original[r]]
      <3>1. w \in Reply /\ original[w] = original[r] /\ seq[w] = winnerSeq[original[r]]
        BY <2>4, <1>0 DEF TypeOK, OrderInv, WinnerIsFirstCommit
      <3>2. winner'[original[q]] = w /\ winnerSeq'[original[q]] = seq[w]
        BY <2>4, <3>1, <1>0, AssignEffect
      <3>3. seq[w] <= seq'[q]
        <4>1. CASE q # r
          BY <4>1, <2>4, <3>1, <1>0, AssignEffect DEF TypeOK, OrderInv, WinnerIsFirstCommit
        <4>2. CASE q = r /\ seq[r] # 0
          BY <4>2, <2>4, <3>1, <1>0, AssignEffect DEF TypeOK, OrderInv, WinnerIsFirstCommit
        <4>3. CASE q = r /\ seq[r] = 0
          BY <4>3, <3>1, <1>0, AssignEffect DEF TypeOK
        <4> QED
          BY <4>1, <4>2, <4>3
      <3> QED
        BY <3>2, <3>3, <2>4
    <2> QED
      BY <2>2, <2>3, <2>4
  <1>4. \A o \in Original : winner'[o] # None =>
           original'[winner'[o]] = o /\ seq'[winner'[o]] = winnerSeq'[o]
    <2> SUFFICES ASSUME NEW o \in Original, winner'[o] # None
                 PROVE  original[winner'[o]] = o /\ seq'[winner'[o]] = winnerSeq'[o]
      OBVIOUS
    <2>1. CASE winner[o] # None
      <3>1. /\ winner[o] \in Reply /\ original[winner[o]] = o /\ seq[winner[o]] = winnerSeq[o]
            /\ winner'[o] = winner[o] /\ winnerSeq'[o] = winnerSeq[o]
        BY <2>1, <1>0, AssignEffect DEF TypeOK, OrderInv, WinnerIsFirstCommit
      <3>2. seq[winner[o]] # 0
        BY <2>1, <3>1, <1>0 DEF OrderInv, WinnerHasPosition
      <3> QED
        BY <3>1, <3>2, <1>0, AssignEffect
    <2>2. CASE winner[o] = None
      BY <2>2, <1>0, AssignEffect DEF TypeOK
    <2> QED
      BY <2>1, <2>2
  <1>5. WinnerHasPosition'
    BY <1>0, AssignEffect DEF TypeOK, OrderInv, WinnerHasPosition
  <1> QED
    BY <1>1, <1>2, <1>3, <1>4, <1>5 DEF OrderInv, CommitOrderIsTotal, WinnerIsFirstCommit

\* The initial state satisfies the inductive invariant.
LEMMA InitIInv == Init => IInv
  <1> SUFFICES ASSUME Init PROVE IInv
    OBVIOUS
  <1>1. TypeOK
    BY LeaseAssumption DEF Init, TypeOK
  <1>2. RowInv /\ OrderInv /\ EventInv
    BY NoneAssumption DEF Init, RowInv, OrderInv, CommitOrderIsTotal, WinnerIsFirstCommit,
       WinnerHasPosition, EventInv, Decided
  <1>3. EvidenceInv /\ TokenOnlyToOwner
    BY DEF Init, EvidenceInv, ItemInv, UnknownNeedsEvidence, ReceiptShowsWinner, TokenOnlyToOwner
  <1> QED
    BY <1>1, <1>2, <1>3 DEF IInv

-----------------------------------------------------------------------------
(* One lemma per kind of transaction. *)

\* Closing open claims as unknown, one or many, whoever does it.
LEMMA ExpireKeepsIInv ==
    ASSUME IInv, NEW S \in SUBSET Reply, \A r \in S : state[r] = "reply_claimed", ExpireAll(S),
           UNCHANGED <<known, original, body, owner, left, seq, winners, item, acceptances,
                       receipt, granted>>
    PROVE  IInv'
  <1> USE DEF winners
  <1>0. TypeOK
    BY DEF IInv
  <1>1. TypeOK'
    BY <1>0, ExpireEffect DEF TypeOK
  <1>2. RowInv'
    BY <1>0, ExpireEffect DEF IInv, RowInv
  <1>3. OrderInv'
    BY <1>0, ExpireEffect DEF IInv, OrderInv, CommitOrderIsTotal, WinnerIsFirstCommit,
       WinnerHasPosition, Decided
  <1>4. EventInv'
    <2>1. \A r \in Reply : /\ unknownAt'[r] <= lastUnknown'
                           /\ state'[r] = "reply_outcome_unknown" => unknownAt'[r] > 0
                           /\ state'[r] = "reply_claimed" => unknownAt'[r] = 0
      <3> TAKE r \in Reply
      <3>1. CASE r \in S
        BY <3>1, <1>0, ExpireEffect DEF TypeOK
      <3>2. CASE r \notin S
        BY <3>2, <1>0, ExpireEffect DEF TypeOK, IInv, EventInv
      <3> QED
        BY <3>1, <3>2
    <2>2. \A q, r \in Reply : unknownAt'[q] > 0 /\ unknownAt'[q] = unknownAt'[r] => q = r
      <3> SUFFICES ASSUME NEW q \in Reply, NEW r \in Reply,
                          unknownAt'[q] > 0, unknownAt'[q] = unknownAt'[r]
                   PROVE  q = r
        OBVIOUS
      <3>1. CASE q \in S /\ r \in S
        BY <3>1, <1>0, ExpireEffect
      <3>2. CASE q \notin S /\ r \notin S
        BY <3>2, <1>0, ExpireEffect DEF IInv, EventInv
      <3>3. CASE (q \in S) # (r \in S)
        BY <3>3, <1>0, ExpireEffect DEF TypeOK, IInv, EventInv
      <3> QED
        BY <3>1, <3>2, <3>3
    <2> QED
      BY <2>1, <2>2 DEF EventInv
  <1>5. EvidenceInv'
    BY <1>0, ExpireEffect DEF IInv, EvidenceInv, ItemInv, UnknownNeedsEvidence,
       ReceiptShowsWinner, Decided
  <1>6. TokenOnlyToOwner'
    BY DEF IInv, TokenOnlyToOwner
  <1> QED
    BY <1>1, <1>2, <1>3, <1>4, <1>5, <1>6 DEF IInv

LEMMA PrepareOriginalStep ==
    ASSUME IInv, NEW o \in Original, PrepareOriginal(o)
    PROVE  IInv'
  <1> USE DEF IInv, PrepareOriginal, claim, winners, unknown
  <1>1. TypeOK'
    BY DEF TypeOK
  <1>2. RowInv' /\ OrderInv' /\ EventInv'
    BY DEF RowInv, OrderInv, CommitOrderIsTotal, WinnerIsFirstCommit, WinnerHasPosition, EventInv
  <1>3. EvidenceInv' /\ TokenOnlyToOwner'
    BY DEF EvidenceInv, ItemInv, UnknownNeedsEvidence, ReceiptShowsWinner, TokenOnlyToOwner
  <1> QED
    BY <1>1, <1>2, <1>3

LEMMA ClaimNewStep ==
    ASSUME IInv, NEW h \in Holder, NEW r \in Reply, NEW o \in Original, NEW b \in Body,
           NEW answered \in BOOLEAN, ClaimNew(h, r, o, b, answered)
    PROVE  IInv'
  <1> USE DEF winners, unknown
  <1>0. /\ state[r] = "absent" /\ original[r] = None /\ owner[r] = None /\ unknownAt[r] = 0
        /\ seq[r] = 0 /\ item[r] = None
    BY DEF IInv, TypeOK, RowInv, OrderInv, CommitOrderIsTotal, EvidenceInv, ItemInv, ClaimNew, Decided
  <1>1. TypeOK'
    BY LeaseAssumption DEF IInv, TypeOK, ClaimNew, State
  <1>2. RowInv'
    BY <1>0 DEF IInv, TypeOK, RowInv, ClaimNew
  <1>3. OrderInv'
    <2>1. \A q \in Reply : seq[q] > 0 => q # r
      BY <1>0
    <2>2. \A p \in Original : winner[p] # None => winner[p] # r
      BY <1>0 DEF IInv, TypeOK, OrderInv, WinnerIsFirstCommit, WinnerHasPosition
    <2> QED
      BY <1>0, <2>1, <2>2 DEF IInv, TypeOK, OrderInv, CommitOrderIsTotal, WinnerIsFirstCommit,
         WinnerHasPosition, ClaimNew, Decided
  <1>4. EventInv'
    BY <1>0 DEF IInv, TypeOK, EventInv, ClaimNew
  <1>5. EvidenceInv'
    BY <1>0 DEF IInv, TypeOK, EvidenceInv, ItemInv, UnknownNeedsEvidence, ReceiptShowsWinner,
       ClaimNew, Decided
  <1>6. TokenOnlyToOwner'
    BY <1>0, NoneAssumption DEF IInv, TypeOK, TokenOnlyToOwner, ClaimNew
  <1> QED
    BY <1>1, <1>2, <1>3, <1>4, <1>5, <1>6 DEF IInv

LEMMA ClaimExistingStep ==
    ASSUME IInv, NEW h \in Holder, NEW r \in Reply, NEW o \in Original, NEW b \in Body,
           ClaimExisting(h, r, o, b)
    PROVE  IInv'
  <1>1. CASE r \in Due(0)
    <2>1. \A q \in {r} : state[q] = "reply_claimed"
      BY <1>1 DEF Due
    <2> QED
      BY <1>1, <2>1, ExpireKeepsIInv DEF ClaimExisting
  <1>2. CASE r \notin Due(0)
    BY <1>2 DEF ClaimExisting, unknown, winners, IInv, TypeOK, RowInv, OrderInv,
       CommitOrderIsTotal, WinnerIsFirstCommit, WinnerHasPosition, EventInv, EvidenceInv, ItemInv,
       UnknownNeedsEvidence, ReceiptShowsWinner, TokenOnlyToOwner
  <1> QED
    BY <1>1, <1>2

\* A heartbeat or a tick: only the time left changes.
LEMMA LeaseOnlyStep ==
    ASSUME IInv, left' \in [Reply -> (-MaxStale)..Lease],
           UNCHANGED <<known, claim, seq, winners, item, acceptances, receipt, granted, unknown>>
    PROVE  IInv'
  <1> USE DEF IInv, claim, winners, unknown
  <1>1. TypeOK'
    BY DEF TypeOK
  <1>2. RowInv' /\ OrderInv' /\ EventInv'
    BY DEF RowInv, OrderInv, CommitOrderIsTotal, WinnerIsFirstCommit, WinnerHasPosition, EventInv
  <1>3. EvidenceInv' /\ TokenOnlyToOwner'
    BY DEF EvidenceInv, ItemInv, UnknownNeedsEvidence, ReceiptShowsWinner, TokenOnlyToOwner
  <1> QED
    BY <1>1, <1>2, <1>3

LEMMA HeartbeatStep ==
    ASSUME IInv, NEW h \in Holder, NEW r \in Reply, Heartbeat(h, r)
    PROVE  IInv'
  <1>1. left' \in [Reply -> (-MaxStale)..Lease]
    BY LeaseAssumption DEF IInv, TypeOK, Heartbeat
  <1> QED
    BY <1>1, LeaseOnlyStep DEF Heartbeat

LEMMA TickStep ==
    ASSUME IInv, Tick
    PROVE  IInv'
  <1>1. left' \in [Reply -> (-MaxStale)..Lease]
    BY LeaseAssumption DEF IInv, TypeOK, Tick
  <1> QED
    BY <1>1, LeaseOnlyStep DEF Tick

\* What every decision keeps, whether it comes from the holder, an observer
\* or a reconciler; only the evidence differs.
LEMMA DecideKeepsRows ==
    ASSUME IInv, NEW r \in Reply, NEW s \in Decided, state[r] # "absent",
           state' = [state EXCEPT ![r] = s], AssignReplyCommit(r),
           UNCHANGED <<original, owner, granted, unknown>>
    PROVE  /\ RowInv' /\ OrderInv' /\ EventInv' /\ TokenOnlyToOwner'
           /\ state' \in [Reply -> State \cup {"absent"}]
           /\ seq' \in [Reply -> Nat]
           /\ winner' \in [Original -> Reply \cup {None}] /\ winnerSeq' \in [Original -> Nat]
           /\ \A o \in Original : winner[o] # None => winner'[o] = winner[o]
           /\ winner'[original[r]] # None
           /\ winner[original[r]] = None => winner'[original[r]] = r
           /\ \A o \in Original \ {original[r]} : winner'[o] = winner[o]
  <1>0. TypeOK /\ OrderInv /\ original[r] \in Original
    BY DEF IInv, RowInv
  <1>1. RowInv'
    BY DEF IInv, TypeOK, RowInv, Decided, unknown
  <1>2. OrderInv'
    BY DecideKeepsOrder
  <1>3. EventInv'
    BY DEF IInv, TypeOK, EventInv, Decided, unknown
  <1>4. TokenOnlyToOwner'
    BY DEF IInv, TokenOnlyToOwner
  <1>5. state' \in [Reply -> State \cup {"absent"}]
    BY DEF IInv, TypeOK, State
  <1>6. /\ \A o \in Original : winner[o] # None => winner'[o] = winner[o]
        /\ winner'[original[r]] # None
        /\ winner[original[r]] = None => winner'[original[r]] = r
        /\ \A o \in Original \ {original[r]} : winner'[o] = winner[o]
    BY <1>0, AssignEffect, NoneAssumption
  <1> QED
    BY <1>0, <1>1, <1>2, <1>3, <1>4, <1>5, <1>6, AssignEffect

LEMMA CommitReplyStep ==
    ASSUME IInv, NEW h \in Holder, NEW r \in Reply, CommitReply(h, r)
    PROVE  IInv'
  <1>0. state[r] = "reply_claimed"
    BY DEF CommitReply, Holds
  <1>1. CASE left[r] > 0
    <2>1. /\ state' = [state EXCEPT ![r] = "reply_accepted"] /\ AssignReplyCommit(r)
          /\ UNCHANGED <<known, original, body, owner, left, item, acceptances, receipt,
                         granted, unknown>>
      BY <1>1 DEF CommitReply, IInv, TypeOK
    <2>2. "reply_accepted" \in Decided
      BY DEF Decided
    <2>3. TypeOK'
      BY <1>0, <2>1, <2>2, DecideKeepsRows DEF IInv, TypeOK, unknown
    <2>4. EvidenceInv'
      <3>1. unknownAt[r] = 0 /\ item[r] = None
        BY <1>0 DEF IInv, EventInv, EvidenceInv, ItemInv
      <3>2. ItemInv' /\ UnknownNeedsEvidence'
        BY <1>0, <2>1, <3>1 DEF IInv, TypeOK, EvidenceInv, ItemInv, UnknownNeedsEvidence, unknown,
           Decided
      <3>3. ReceiptShowsWinner'
        BY <1>0, <2>1, <2>2, DecideKeepsRows DEF IInv, EvidenceInv, ReceiptShowsWinner
      <3> QED
        BY <3>2, <3>3 DEF EvidenceInv
    <2> QED
      BY <1>0, <2>1, <2>2, <2>3, <2>4, DecideKeepsRows DEF IInv
  <1>2. CASE left[r] <= 0
    <2>1. ExpireAll({r}) /\ UNCHANGED <<known, original, body, owner, left, seq, winners, item,
                                        acceptances, receipt, granted>>
      BY <1>2, LeaseAssumption DEF CommitReply, IInv, TypeOK
    <2> QED
      BY <1>0, <2>1, ExpireKeepsIInv
  <1> QED
    BY <1>1, <1>2 DEF CommitReply

LEMMA ReconcileReplyAcceptedStep ==
    ASSUME IInv, NEW r \in Reply, ReconcileReplyAccepted(r)
    PROVE  IInv'
  <1>1. /\ state[r] = "reply_outcome_unknown"
        /\ state' = [state EXCEPT ![r] = "reply_accepted"] /\ AssignReplyCommit(r)
        /\ acceptances' = acceptances \cup {r}
        /\ UNCHANGED <<known, original, body, owner, left, item, receipt, granted, unknown>>
    BY DEF ReconcileReplyAccepted
  <1>2. "reply_accepted" \in Decided
    BY DEF Decided
  <1>3. TypeOK'
    BY <1>1, <1>2, DecideKeepsRows DEF IInv, TypeOK, unknown
  <1>4. ItemInv' /\ UnknownNeedsEvidence'
    BY <1>1 DEF IInv, TypeOK, EvidenceInv, ItemInv, UnknownNeedsEvidence, unknown, Decided
  <1>5. ReceiptShowsWinner'
    BY <1>1, <1>2, DecideKeepsRows DEF IInv, EvidenceInv, ReceiptShowsWinner
  <1> QED
    BY <1>1, <1>2, <1>3, <1>4, <1>5, DecideKeepsRows DEF IInv, EvidenceInv

\* Verified native evidence, however it was found.
LEMMA ObservationStep ==
    ASSUME IInv, NEW r \in Reply, NEW i \in Item, Observable(r, i), RecordObservation(r, i),
           UNCHANGED <<known, original, body, owner, left, acceptances, granted, unknown>>,
           \/ UNCHANGED receipt
           \/ /\ winner[original[r]] \in {None, r}
              /\ receipt' = [receipt EXCEPT ![original[r]] = i]
    PROVE  IInv'
  <1>0. /\ state[r] # "absent" /\ "reply_observed" \in Decided /\ i # None
        /\ original[r] \in Original
    BY NoneAssumption DEF Observable, Decided, IInv, RowInv
  <1>1. /\ state' = [state EXCEPT ![r] = "reply_observed"] /\ item' = [item EXCEPT ![r] = i]
        /\ AssignReplyCommit(r)
    BY DEF RecordObservation
  <1>2. TypeOK'
    <2>1. /\ state' \in [Reply -> State \cup {"absent"}] /\ seq' \in [Reply -> Nat]
          /\ winner' \in [Original -> Reply \cup {None}] /\ winnerSeq' \in [Original -> Nat]
      BY <1>0, <1>1, DecideKeepsRows DEF unknown
    <2>2. item' \in [Reply -> Item \cup {None}] /\ receipt' \in [Original -> Item \cup {None}]
      BY <1>0, <1>1 DEF IInv, TypeOK
    <2> QED
      BY <2>1, <2>2 DEF IInv, TypeOK, unknown
  <1>3. ItemInv' /\ UnknownNeedsEvidence'
    <2>1. state \in [Reply -> State \cup {"absent"}] /\ item \in [Reply -> Item \cup {None}]
          /\ ItemInv /\ UnknownNeedsEvidence /\ unknownAt' = unknownAt
      BY DEF IInv, TypeOK, EvidenceInv, unknown
    <2>2. ItemInv'
      BY <1>0, <1>1, <2>1 DEF ItemInv
    <2>3. UnknownNeedsEvidence'
      BY <1>0, <1>1, <2>1 DEF UnknownNeedsEvidence, Decided
    <2> QED
      BY <2>2, <2>3
  <1>4. ReceiptShowsWinner'
    <2> SUFFICES ASSUME NEW o \in Original, receipt'[o] # None
                 PROVE  winner'[o] # None /\ receipt'[o] = item'[winner'[o]]
      BY DEF ReceiptShowsWinner
    <2>1. CASE receipt'[o] = receipt[o]
      <3>1. winner[o] \in Reply /\ receipt[o] = item[winner[o]]
        BY <2>1 DEF IInv, TypeOK, EvidenceInv, ReceiptShowsWinner
      <3>1a. winner'[o] = winner[o]
        BY <3>1, <1>0, <1>1, NoneAssumption, DecideKeepsRows
      <3>2. item'[winner[o]] = item[winner[o]]
        BY <2>1, <3>1, <1>1 DEF Observable, IInv, TypeOK
      <3> QED
        BY <2>1, <3>1, <3>1a, <3>2, NoneAssumption
    <2>2. CASE receipt'[o] # receipt[o]
      <3>1. o = original[r] /\ receipt'[o] = i /\ winner[o] \in {None, r}
        BY <2>2, <1>0 DEF IInv, TypeOK
      <3>2. winner'[o] = r
        BY <3>1, <1>0, <1>1, NoneAssumption, DecideKeepsRows
      <3> QED
        BY <3>1, <3>2, <1>1, NoneAssumption DEF IInv, TypeOK
    <2> QED
      BY <2>1, <2>2
  <1> QED
    BY <1>0, <1>1, <1>2, <1>3, <1>4, DecideKeepsRows DEF IInv, EvidenceInv

LEMMA ReconcileWithReceiptStep ==
    ASSUME IInv, NEW r \in Reply, NEW i \in Item, ReconcileReplyObservationWithReceipt(r, i)
    PROVE  IInv'
  <1>1. CASE state[r] # "reply_observed"
    BY <1>1, ObservationStep DEF ReconcileReplyObservationWithReceipt
  <1>2. CASE state[r] = "reply_observed"
    <2>1. /\ UNCHANGED <<state, item, seq, winners, known, original, body, owner, left,
                         acceptances, granted, unknown>>
          /\ receipt' = [receipt EXCEPT ![original[r]] = i]
          /\ winner[original[r]] \in {None, r} /\ item[r] \in {None, i}
      BY <1>2 DEF ReconcileReplyObservationWithReceipt, Observable
    <2>2. item[r] = i /\ winner[original[r]] = r /\ original[r] \in Original
      BY <1>2, <2>1 DEF IInv, RowInv, EvidenceInv, ItemInv, OrderInv, CommitOrderIsTotal,
         WinnerIsFirstCommit, Decided
    <2>3. TypeOK' /\ RowInv' /\ OrderInv' /\ EventInv' /\ TokenOnlyToOwner'
      BY <2>1 DEF IInv, TypeOK, RowInv, OrderInv, CommitOrderIsTotal, WinnerIsFirstCommit,
         WinnerHasPosition, EventInv, TokenOnlyToOwner, winners, unknown
    <2>4. EvidenceInv'
      BY <2>1, <2>2, NoneAssumption DEF IInv, TypeOK, EvidenceInv, ItemInv, UnknownNeedsEvidence,
         ReceiptShowsWinner, winners, unknown
    <2> QED
      BY <2>3, <2>4 DEF IInv
  <1> QED
    BY <1>1, <1>2

-----------------------------------------------------------------------------
(* Every step, as one of five kinds. *)

\* The transactions that only close open claims, and the claims they close.
Closes(S) ==
    /\ S \in SUBSET Reply /\ \A r \in S : state[r] = "reply_claimed"
    /\ ExpireAll(S)
    /\ UNCHANGED <<known, original, body, owner, left, seq, winners, item, acceptances,
                   receipt, granted>>

LEMMA CloseKinds ==
    /\ \A h \in Holder, r \in Reply : AbandonReply(h, r) => Closes({r})
    /\ \A stale \in 0..MaxStale : ExpireClaims(stale) => Closes(Due(stale))
    /\ \A o \in Original : OriginalStatus(o) => Closes({ r \in Due(0) : original[r] = o })
  BY DEF Closes, AbandonReply, Holds, ExpireClaims, OriginalStatus, Due

\* Every transaction of the journal preserves the inductive invariant.
LEMMA NextIInv == IInv /\ [Next]_vars => IInv'
  <1> SUFFICES ASSUME IInv, [Next]_vars PROVE IInv'
    OBVIOUS
  <1>0. ASSUME NEW S, Closes(S) PROVE IInv'
    BY <1>0, ExpireKeepsIInv DEF Closes
  <1>1. ASSUME NEW o \in Original, PrepareOriginal(o) \/ OriginalStatus(o)
        PROVE  IInv'
    BY <1>1, <1>0, CloseKinds, PrepareOriginalStep
  <1>2. ASSUME NEW h \in Holder, NEW r \in Reply, NEW o \in Original, NEW b \in Body,
               ClaimReply(h, r, o, b)
        PROVE  IInv'
    BY <1>2, ClaimNewStep, ClaimExistingStep DEF ClaimReply
  <1>3. ASSUME NEW h \in Holder, NEW r \in Reply,
               Heartbeat(h, r) \/ CommitReply(h, r) \/ AbandonReply(h, r)
        PROVE  IInv'
    BY <1>3, <1>0, CloseKinds, HeartbeatStep, CommitReplyStep
  <1>4. ASSUME NEW stale \in 0..MaxStale, ExpireClaims(stale)
        PROVE  IInv'
    BY <1>4, <1>0, CloseKinds
  <1>5. ASSUME NEW r \in Reply, NEW i \in Item,
               ObserveReply(r, i) \/ ReconcileReplyObservation(r, i)
        PROVE  IInv'
    BY <1>5, ObservationStep DEF ObserveReply, ReconcileReplyObservation
  <1>6. ASSUME NEW r \in Reply, NEW i \in Item, ReconcileReplyObservationWithReceipt(r, i)
        PROVE  IInv'
    BY <1>6, ReconcileWithReceiptStep
  <1>7. ASSUME NEW r \in Reply, ReconcileReplyAccepted(r)
        PROVE  IInv'
    BY <1>7, ReconcileReplyAcceptedStep
  <1>8. CASE Tick
    BY <1>8, TickStep
  <1>9. CASE UNCHANGED vars
    BY <1>9 DEF vars, IInv, TypeOK, RowInv, OrderInv, CommitOrderIsTotal, WinnerIsFirstCommit,
       WinnerHasPosition, EventInv, EvidenceInv, ItemInv, UnknownNeedsEvidence,
       ReceiptShowsWinner, TokenOnlyToOwner
  <1> QED
    BY <1>1, <1>2, <1>3, <1>4, <1>5, <1>6, <1>7, <1>8, <1>9 DEF Next

\* The inductive invariant holds in every reachable state of custody.
THEOREM Inductive == Spec => []IInv
  BY InitIInv, NextIInv, PTL DEF Spec

\* Every column keeps its type under every transaction.
THEOREM TypeCorrect == Spec => []TypeOK
  <1>1. IInv => TypeOK
    BY DEF IInv
  <1> QED
    BY <1>1, Inductive, PTL

\* For any number of competing replies the winner of an original is the one
\* that committed first, commit positions are unique, and the receipt of the
\* original shows the item of its winner.
THEOREM FirstCommitWins == Spec => []CommitOrderDecides
  <1>1. IInv => CommitOrderDecides
    BY DEF IInv, OrderInv, EvidenceInv, CommitOrderDecides
  <1> QED
    BY <1>1, Inductive, PTL

\* OriginalStatus never finds rows it must refuse as corrupt.
THEOREM NeverCorrupt == Spec => []StatusIsNeverCorrupt
  <1>1. IInv => StatusIsNeverCorrupt
    <2> SUFFICES ASSUME IInv PROVE StatusIsNeverCorrupt
      OBVIOUS
    <2>1. ASSUME NEW o \in Original, winner[o] # None PROVE WinnerIsValid(o)
      <3>1. /\ winner[o] \in Reply /\ seq[winner[o]] = winnerSeq[o] /\ winnerSeq[o] > 0
        BY <2>1 DEF IInv, TypeOK, OrderInv, WinnerIsFirstCommit, WinnerHasPosition
      <3> QED
        BY <3>1 DEF IInv, OrderInv, CommitOrderIsTotal, EvidenceInv, ItemInv, WinnerIsValid
    <2>2. ASSUME NEW r \in Reply, state[r] = "reply_outcome_unknown" PROVE UnknownIsValid(r)
      BY <2>2 DEF IInv, EventInv, UnknownIsValid
    <2> QED
      BY <2>1, <2>2 DEF StatusIsNeverCorrupt
  <1> QED
    BY <1>1, Inductive, PTL

\* A recorded unknown outcome is overturned by evidence only, and a claim's
\* token is known to its owner only.
THEOREM ExpiryFences == Spec => []ClaimsAreFenced
  <1>1. IInv => ClaimsAreFenced
    BY DEF IInv, EvidenceInv, ClaimsAreFenced
  <1> QED
    BY <1>1, Inductive, PTL
-----------------------------------------------------------------------------
(* The action property. *)

\* What StepStrengthens says of claims and winners, without the receipts.
RowsStrengthen ==
    /\ \A r \in Reply :
          /\ state'[r] # state[r] => <<state[r], state'[r]>> \in Strengthening
          /\ state[r] # "absent" => original'[r] = original[r] /\ body'[r] = body[r]
          /\ seq[r] # 0 => seq'[r] = seq[r]
          /\ item[r] # None => item'[r] = item[r]
          /\ unknownAt[r] # 0 => unknownAt'[r] = unknownAt[r]
    /\ \A o \in Original : winner[o] # None => winner'[o] = winner[o]

\* Closing open claims strengthens: none of them had an unknown event yet.
LEMMA CloseStrengthens ==
    ASSUME IInv, NEW S, Closes(S)
    PROVE  RowsStrengthen
  <1>1. TypeOK /\ \A r \in S : unknownAt[r] = 0
    BY DEF Closes, IInv, EventInv
  <1> QED
    BY <1>1, ExpireEffect DEF Closes, RowsStrengthen, Strengthening, winners

\* So does deciding a claim that is not absent; the item an observation names
\* is the one observed before, if there was one.
LEMMA DecideStrengthens ==
    ASSUME IInv, NEW r \in Reply, NEW s \in Decided,
           state[r] # s => <<state[r], s>> \in Strengthening,
           state[r] # "absent", state' = [state EXCEPT ![r] = s], AssignReplyCommit(r),
           \/ UNCHANGED item
           \/ \E i \in Item : item[r] \in {None, i} /\ item' = [item EXCEPT ![r] = i],
           UNCHANGED <<original, body, owner, granted, unknown>>
    PROVE  RowsStrengthen
  <1>1. TypeOK /\ OrderInv /\ original[r] \in Original
    BY DEF IInv, RowInv
  <1>2. \A q \in Reply : /\ state'[q] # state[q] => <<state[q], state'[q]>> \in Strengthening
                         /\ unknownAt'[q] = unknownAt[q]
                         /\ original'[q] = original[q] /\ body'[q] = body[q]
    BY <1>1 DEF TypeOK, unknown
  <1>3. \A q \in Reply : seq[q] # 0 => seq'[q] = seq[q]
    BY <1>1, AssignEffect
  <1>4. \A q \in Reply : item[q] # None => item'[q] = item[q]
    BY <1>1 DEF TypeOK
  <1>5. \A o \in Original : winner[o] # None => winner'[o] = winner[o]
    BY DecideKeepsRows
  <1> QED
    BY <1>2, <1>3, <1>4, <1>5 DEF RowsStrengthen

\* Every transaction of the journal strengthens the rows of the claims.
LEMMA NextStrengthensRows == IInv /\ [Next]_vars => [RowsStrengthen]_vars
  <1> SUFFICES ASSUME IInv, Next PROVE RowsStrengthen
    OBVIOUS
  <1>0. "reply_accepted" \in Decided /\ "reply_observed" \in Decided
    BY DEF Decided
  <1>1. ASSUME NEW o \in Original, PrepareOriginal(o) \/ OriginalStatus(o)
        PROVE  RowsStrengthen
    <2>1. CASE PrepareOriginal(o)
      BY <2>1 DEF PrepareOriginal, RowsStrengthen, claim, winners, unknown
    <2> QED
      BY <1>1, <2>1, CloseKinds, CloseStrengthens
  <1>2. ASSUME NEW h \in Holder, NEW r \in Reply, NEW o \in Original, NEW b \in Body,
               ClaimReply(h, r, o, b)
        PROVE  RowsStrengthen
    <2>1. ASSUME NEW answered \in BOOLEAN, ClaimNew(h, r, o, b, answered)
          PROVE  RowsStrengthen
      BY <2>1 DEF ClaimNew, RowsStrengthen, Strengthening, IInv, TypeOK, winners, unknown
    <2>2. CASE ClaimExisting(h, r, o, b) /\ r \in Due(0)
      <3>1. Closes({r})
        BY <2>2 DEF ClaimExisting, Closes, Due
      <3> QED
        BY <3>1, CloseStrengthens
    <2>3. CASE ClaimExisting(h, r, o, b) /\ r \notin Due(0)
      BY <2>3 DEF ClaimExisting, RowsStrengthen, winners, unknown
    <2> QED
      BY <1>2, <2>1, <2>2, <2>3 DEF ClaimReply
  <1>3. ASSUME NEW h \in Holder, NEW r \in Reply, Heartbeat(h, r)
        PROVE  RowsStrengthen
    BY <1>3 DEF Heartbeat, RowsStrengthen, claim, winners, unknown
  <1>4. ASSUME NEW h \in Holder, NEW r \in Reply, CommitReply(h, r)
        PROVE  RowsStrengthen
    <2>0. state[r] = "reply_claimed"
      BY <1>4 DEF CommitReply, Holds
    <2>1. CASE left[r] > 0
      <3>1. /\ state' = [state EXCEPT ![r] = "reply_accepted"] /\ AssignReplyCommit(r)
            /\ UNCHANGED <<item, original, body, owner, granted, unknown>>
        BY <1>4, <2>1 DEF CommitReply, IInv, TypeOK
      <3>2. <<state[r], "reply_accepted">> \in Strengthening
        BY <2>0 DEF Strengthening
      <3> QED
        BY <1>0, <2>0, <3>1, <3>2, DecideStrengthens
    <2>2. CASE left[r] <= 0
      <3>1. Closes({r})
        BY <1>4, <2>0, <2>2, LeaseAssumption DEF CommitReply, Closes, IInv, TypeOK
      <3> QED
        BY <3>1, CloseStrengthens
    <2> QED
      BY <1>4, <2>1, <2>2 DEF CommitReply
  <1>5. ASSUME NEW h \in Holder, NEW r \in Reply, AbandonReply(h, r)
        PROVE  RowsStrengthen
    BY <1>5, CloseKinds, CloseStrengthens
  <1>6. ASSUME NEW stale \in 0..MaxStale, ExpireClaims(stale)
        PROVE  RowsStrengthen
    BY <1>6, CloseKinds, CloseStrengthens
  <1>7. ASSUME NEW r \in Reply, NEW i \in Item, Observable(r, i), RecordObservation(r, i),
               UNCHANGED <<original, body, owner, granted, unknown>>
        PROVE  RowsStrengthen
    <2>1. /\ state[r] # "absent" /\ item[r] \in {None, i}
          /\ state[r] # "reply_observed" => <<state[r], "reply_observed">> \in Strengthening
      BY <1>7 DEF Observable, Decided, Strengthening
    <2> QED
      BY <1>0, <1>7, <2>1, DecideStrengthens DEF RecordObservation
  <1>8. ASSUME NEW r \in Reply, NEW i \in Item,
               \/ ObserveReply(r, i) \/ ReconcileReplyObservation(r, i)
               \/ ReconcileReplyObservationWithReceipt(r, i)
        PROVE  RowsStrengthen
    <2>1. CASE UNCHANGED <<state, item, seq, winners, original, body, unknown>>
      BY <2>1 DEF RowsStrengthen, winners, unknown
    <2>2. CASE RecordObservation(r, i)
      BY <1>7, <1>8, <2>2 DEF ObserveReply, ReconcileReplyObservation,
         ReconcileReplyObservationWithReceipt
    <2> QED
      BY <1>8, <2>1, <2>2 DEF ObserveReply, ReconcileReplyObservation,
         ReconcileReplyObservationWithReceipt
  <1>9. ASSUME NEW r \in Reply, ReconcileReplyAccepted(r)
        PROVE  RowsStrengthen
    <2>1. /\ <<state[r], "reply_accepted">> \in Strengthening /\ state[r] # "absent"
      BY <1>9 DEF ReconcileReplyAccepted, Strengthening
    <2> QED
      BY <1>0, <1>9, <2>1, DecideStrengthens DEF ReconcileReplyAccepted
  <1>10. CASE Tick
    BY <1>10 DEF Tick, RowsStrengthen, claim, winners, unknown
  <1> QED
    BY <1>1, <1>2, <1>3, <1>4, <1>5, <1>6, <1>8, <1>9, <1>10 DEF Next

\* Only one transaction writes a receipt, and it refuses another item's.
LEMMA NextKeepsReceipts ==
    ASSUME IInv, [Next]_vars, NEW o \in Original, receipt[o] # None
    PROVE  receipt'[o] = receipt[o]
  <1>1. ASSUME NEW r \in Reply, NEW i \in Item, ReconcileReplyObservationWithReceipt(r, i)
        PROVE  receipt'[o] = receipt[o]
    <2>1. receipt \in [Original -> Item \cup {None}]
      BY DEF IInv, TypeOK
    <2>2. receipt' = [receipt EXCEPT ![original[r]] = i] /\ receipt[original[r]] \in {None, i}
      BY <1>1 DEF ReconcileReplyObservationWithReceipt
    <2> QED
      BY <2>1, <2>2
  <1>2. CASE UNCHANGED receipt
    BY <1>2
  <1>3. \/ UNCHANGED receipt
        \/ \E r \in Reply, i \in Item : ReconcileReplyObservationWithReceipt(r, i)
    BY DEF Next, vars, PrepareOriginal, OriginalStatus, ClaimReply, ClaimNew, ClaimExisting, Heartbeat,
       CommitReply, AbandonReply, ExpireClaims, ObserveReply, ReconcileReplyObservation,
       ReconcileReplyAccepted, Tick
  <1> QED
    BY <1>1, <1>2, <1>3

\* Every transaction of the journal is a strengthening step.
LEMMA NextStrengthens == IInv /\ [Next]_vars => [StepStrengthens]_vars
  BY NextStrengthensRows, NextKeepsReceipts DEF RowsStrengthen, StepStrengthens

\* A claim never reopens, evidence is never weakened, and no identity, commit
\* position, winner, item, unknown event or item in a receipt is ever
\* rewritten (replies.go, receipts.go).
THEOREM Strengthens == Spec => EvidenceOnlyStrengthens
  BY Inductive, NextStrengthens, PTL DEF Spec, EvidenceOnlyStrengthens
-----------------------------------------------------------------------------
(***************************************************************************)
(* ReplyCustody implements OriginalOutcome: every custody transaction      *)
(* either leaves what a read of an original selects, or moves it from      *)
(* pending to an unknown reply or a winner, or from an unknown reply to a  *)
(* winner.                                                                 *)
(*                                                                         *)
(* The steps of custody are of three kinds for a reader: those that leave  *)
(* winners and unknown claims alone, those that close claims as unknown    *)
(* (EventInv makes the selected one stay the earliest), and those that     *)
(* decide one reply.                                                       *)
(***************************************************************************)

\* r is the unknown claim of o whose event came first.
IsEarliest(r, o) ==
    r \in Unknowns(o) /\ \A q \in Unknowns(o) : unknownAt[r] <= unknownAt[q]

LEMMA EarliestExists ==
    ASSUME IInv, NEW o \in Original, Unknowns(o) # {}
    PROVE  \E r \in Unknowns(o) : IsEarliest(r, o)
  <1> DEFINE T == { unknownAt[r] : r \in Unknowns(o) }
  <1>1. T \subseteq Nat /\ T # {}
    <2>1. \A r \in Unknowns(o) : unknownAt[r] \in Nat
      BY DEF IInv, TypeOK, Unknowns
    <2> QED
      BY <2>1
  <1>2. \E x \in T : \A y \in T : ~ (<<y, x>> \in OpToRel(<, Nat))
    <2>1. IsWellFoundedOn(OpToRel(<, Nat), Nat)
      BY NatLessThanWellFounded
    <2> QED
      BY <1>1, <2>1, WFMin
  <1>3. PICK x \in T : \A y \in T : ~ (y < x)
    BY <1>1, <1>2 DEF OpToRel
  <1>4. PICK r \in Unknowns(o) : unknownAt[r] = x
    BY <1>3
  <1>5. \A q \in Unknowns(o) : unknownAt[r] <= unknownAt[q]
    BY <1>1, <1>3, <1>4
  <1> QED
    BY <1>5 DEF IsEarliest

LEMMA EarliestChosen ==
    ASSUME NEW o \in Original, \E r \in Unknowns(o) : IsEarliest(r, o)
    PROVE  IsEarliest(EarliestUnknown(o), o)
  BY DEF EarliestUnknown, IsEarliest

\* There is one earliest claim, the one EarliestUnknown chooses.
EarliestIsUnique ==
    \A o \in Original : \A r : IsEarliest(r, o) => EarliestUnknown(o) = r

LEMMA EarliestUnique == IInv => EarliestIsUnique
  <1> SUFFICES ASSUME IInv, NEW o \in Original, NEW r, IsEarliest(r, o)
               PROVE  EarliestUnknown(o) = r
    BY DEF EarliestIsUnique
  <1>1. IsEarliest(EarliestUnknown(o), o)
    BY EarliestChosen DEF IsEarliest
  <1>2. /\ EarliestUnknown(o) \in Reply /\ r \in Reply
        /\ unknownAt[r] \in Nat /\ unknownAt[EarliestUnknown(o)] \in Nat
    BY <1>1 DEF IsEarliest, Unknowns, IInv, TypeOK
  <1>3. unknownAt[r] > 0 /\ unknownAt[r] = unknownAt[EarliestUnknown(o)]
    BY <1>1, <1>2 DEF IsEarliest, Unknowns, IInv, EventInv
  <1> QED
    BY <1>2, <1>3 DEF IInv, EventInv

\* What a read selects, spelled out without CHOOSE.
SelectionFacts ==
    \A o \in Original :
        /\ winner[o] # None => Selection(o) = Outcome!Won(winner[o]) /\ winner[o] \in Reply
        /\ \A r : winner[o] = None /\ IsEarliest(r, o) =>
                     Selection(o) = Outcome!Unknown(r) /\ r \in Reply
        /\ winner[o] = None /\ Unknowns(o) = {} => Selection(o) = Outcome!Pending
        /\ \/ Selection(o) = Outcome!Pending
           \/ Outcome!IsUnknown(Selection(o))
           \/ Outcome!IsWon(Selection(o))

LEMMA SelectionIs == IInv => SelectionFacts
  <1> SUFFICES ASSUME IInv PROVE SelectionFacts
    OBVIOUS
  <1>1. \A o \in Original : \A r : winner[o] = None /\ IsEarliest(r, o) =>
                        Selection(o) = Outcome!Unknown(r) /\ r \in Reply
    BY EarliestUnique DEF EarliestIsUnique, Selection, Outcome!Unknown, IsEarliest, Unknowns
  <1>2. \A o \in Original :
           /\ winner[o] # None => Selection(o) = Outcome!Won(winner[o]) /\ winner[o] \in Reply
           /\ winner[o] = None /\ Unknowns(o) = {} => Selection(o) = Outcome!Pending
    BY DEF Selection, Outcome!Won, Outcome!Pending, IInv, TypeOK
  <1>3. \A o \in Original : \/ Selection(o) = Outcome!Pending
                            \/ Outcome!IsUnknown(Selection(o))
                            \/ Outcome!IsWon(Selection(o))
    BY <1>1, <1>2, EarliestExists DEF Outcome!IsUnknown, Outcome!IsWon
  <1> QED
    BY <1>1, <1>2, <1>3 DEF SelectionFacts

-----------------------------------------------------------------------------
(* The three kinds of step. *)

\* o keeps its selection or moves it the way the register allows.
Keeps(o) == Selection(o)' = Selection(o) \/ Outcome!Moves(Selection(o), Selection(o)')

\* Winners and unknown claims of o are left alone.
LEMMA QuietStep ==
    ASSUME IInv, IInv', NEW o \in Original, winner'[o] = winner[o], Unknowns(o)' = Unknowns(o),
           \A r \in Unknowns(o) : unknownAt'[r] = unknownAt[r]
    PROVE  Selection(o)' = Selection(o)
  <1>1. CASE winner[o] # None
    BY <1>1 DEF Selection
  <1>2. CASE winner[o] = None /\ Unknowns(o) = {}
    BY <1>2 DEF Selection
  <1>3. CASE winner[o] = None /\ Unknowns(o) # {}
    <2>1. PICK r \in Unknowns(o) : IsEarliest(r, o)
      BY <1>3, EarliestExists
    <2>2. IsEarliest(r, o)'
      BY <2>1 DEF IsEarliest
    <2>3. EarliestUnknown(o) = r
      BY <2>1, EarliestUnique DEF EarliestIsUnique
    <2>4. EarliestIsUnique'
      BY EarliestUnique, PTL
    <2>5. EarliestUnknown(o)' = r
      BY <2>2, <2>4 DEF EarliestIsUnique
    <2> QED
      BY <1>3, <2>3, <2>5 DEF Selection
  <1> QED
    BY <1>1, <1>2, <1>3

\* Claims are closed as unknown: the selected one stays the earliest.
LEMMA CloseStep ==
    ASSUME IInv, IInv', NEW S, Closes(S), NEW o \in Original
    PROVE  Keeps(o)
  <1>0. /\ TypeOK /\ S \in SUBSET Reply /\ \A r \in S : state[r] = "reply_claimed"
        /\ ExpireAll(S) /\ UNCHANGED <<original, winner>>
    BY DEF IInv, Closes, winners
  <1>1. SelectionFacts /\ SelectionFacts'
    BY SelectionIs, PTL
  <1>2. CASE winner[o] # None
    BY <1>0, <1>1, <1>2 DEF SelectionFacts, Keeps, Outcome!Won
  <1>3. CASE winner[o] = None /\ Unknowns(o) = {}
    BY <1>1, <1>3 DEF SelectionFacts, Keeps, Outcome!Moves
  <1>4. CASE winner[o] = None /\ Unknowns(o) # {}
    <2>1. PICK r \in Unknowns(o) : IsEarliest(r, o)
      BY <1>4, EarliestExists
    <2>2. r \in Reply /\ r \notin S /\ unknownAt[r] <= lastUnknown /\ r \in Unknowns(o)'
      BY <2>1, <1>0, ExpireEffect DEF IInv, EventInv, Unknowns
    <2>3. \A q \in Unknowns(o)' : unknownAt'[r] <= unknownAt'[q]
      <3> TAKE q \in Unknowns(o)'
      <3>1. q \in Reply /\ original[q] = o /\ state'[q] = "reply_outcome_unknown"
        BY <1>0 DEF Unknowns
      <3>2. CASE q \in S
        BY <3>2, <2>2, <1>0, ExpireEffect DEF TypeOK
      <3>3. CASE q \notin S
        <4>1. q \in Unknowns(o)
          BY <3>1, <3>3, <1>0, ExpireEffect DEF Unknowns
        <4> QED
          BY <4>1, <3>1, <3>3, <2>1, <2>2, <1>0, ExpireEffect DEF IsEarliest
      <3> QED
        BY <3>2, <3>3
    <2>4. IsEarliest(r, o)'
      BY <2>2, <2>3 DEF IsEarliest
    <2>5. Selection(o) = Outcome!Unknown(r)
      BY <1>1, <1>4, <2>1 DEF SelectionFacts
    <2>6. Selection(o)' = Outcome!Unknown(r)
      BY <1>0, <1>1, <1>4, <2>4 DEF SelectionFacts, Outcome!Unknown
    <2> QED
      BY <2>5, <2>6 DEF Keeps
  <1> QED
    BY <1>2, <1>3, <1>4

\* One reply is decided: its original has a winner from then on, and the
\* other originals see nothing.
LEMMA DecisionStep ==
    ASSUME IInv, IInv', NEW r \in Reply, NEW s \in Decided, state[r] # "absent",
           state' = [state EXCEPT ![r] = s], AssignReplyCommit(r),
           UNCHANGED <<original, owner, granted, unknown>>, NEW o \in Original
    PROVE  Keeps(o)
  <1>0. /\ \A p \in Original : winner[p] # None => winner'[p] = winner[p]
        /\ winner'[original[r]] # None
        /\ \A p \in Original \ {original[r]} : winner'[p] = winner[p]
    BY DecideKeepsRows
  <1>1. SelectionFacts /\ SelectionFacts'
    BY SelectionIs, PTL
  <1>2. CASE o = original[r] /\ winner[o] = None
    <2>1. ~ Outcome!IsWon(Selection(o))
      BY <1>2 DEF Selection, Outcome!IsWon, Outcome!Won
    <2>2. Outcome!IsWon(Selection(o)')
      <3>1. winner'[o] \in Reply /\ Selection(o)' = Outcome!Won(winner'[o])
        BY <1>0, <1>1, <1>2 DEF SelectionFacts, Outcome!Won
      <3> QED
        BY <3>1 DEF Outcome!IsWon
    <2> QED
      BY <1>1, <2>1, <2>2 DEF SelectionFacts, Keeps, Outcome!Moves
  <1>3. CASE winner[o] # None
    BY <1>0, <1>1, <1>3 DEF SelectionFacts, Keeps, Outcome!Won
  <1>4. CASE o # original[r]
    <2>1. Unknowns(o)' = Unknowns(o)
      BY <1>4 DEF Unknowns, IInv, TypeOK
    <2> QED
      BY <1>0, <1>4, <2>1, QuietStep DEF unknown, Keeps
  <1> QED
    BY <1>2, <1>3, <1>4

\* Claims, leases and known originals change, but neither winners nor
\* unknown claims.
LEMMA QuietKinds ==
    ASSUME IInv, IInv', NEW o \in Original,
           \/ \E p \in Original : PrepareOriginal(p)
           \/ \E h \in Holder, r \in Reply, p \in Original, b \in Body, answered \in BOOLEAN :
                 ClaimNew(h, r, p, b, answered)
           \/ \E h \in Holder, r \in Reply : Heartbeat(h, r)
           \/ Tick
           \/ UNCHANGED vars
    PROVE  Keeps(o)
  <1>1. winner'[o] = winner[o] /\ unknownAt' = unknownAt
    BY DEF PrepareOriginal, ClaimNew, Heartbeat, Tick, vars, winners, unknown
  <1>2. Unknowns(o)' = Unknowns(o)
    <2>1. CASE \E h \in Holder, r \in Reply, p \in Original, b \in Body, answered \in BOOLEAN :
                  ClaimNew(h, r, p, b, answered)
      <3>1. PICK r \in Reply, p \in Original :
               /\ state[r] = "absent" /\ state' = [state EXCEPT ![r] = "reply_claimed"]
               /\ original' = [original EXCEPT ![r] = p]
        BY <2>1 DEF ClaimNew
      <3> QED
        BY <3>1 DEF Unknowns, IInv, TypeOK
    <2>2. CASE UNCHANGED <<state, original>>
      BY <2>2 DEF Unknowns
    <2> QED
      BY <2>1, <2>2 DEF PrepareOriginal, Heartbeat, Tick, vars, claim
  <1> QED
    BY <1>1, <1>2, QuietStep DEF Keeps

\* Every transaction keeps the selection of every original or moves it
\* forward.
LEMMA NextKeeps ==
    ASSUME IInv, IInv', [Next]_vars, NEW o \in Original
    PROVE  Keeps(o)
  <1>0. ASSUME NEW S, Closes(S) PROVE Keeps(o)
    BY <1>0, CloseStep
  <1>1. ASSUME NEW p \in Original, PrepareOriginal(p) \/ OriginalStatus(p)
        PROVE  Keeps(o)
    BY <1>1, <1>0, CloseKinds, QuietKinds
  <1>2. ASSUME NEW h \in Holder, NEW r \in Reply, NEW p \in Original, NEW b \in Body,
               ClaimReply(h, r, p, b)
        PROVE  Keeps(o)
    <2>1. CASE \E answered \in BOOLEAN : ClaimNew(h, r, p, b, answered)
      BY <2>1, QuietKinds
    <2>2. CASE ClaimExisting(h, r, p, b) /\ r \in Due(0)
      <3>1. Closes({r})
        BY <2>2 DEF ClaimExisting, Closes, Due
      <3> QED
        BY <3>1, <1>0
    <2>3. CASE ClaimExisting(h, r, p, b) /\ r \notin Due(0)
      <3>1. UNCHANGED vars
        BY <2>3 DEF ClaimExisting, vars, winners, unknown
      <3> QED
        BY <3>1, QuietKinds
    <2> QED
      BY <1>2, <2>1, <2>2, <2>3 DEF ClaimReply
  <1>3. ASSUME NEW h \in Holder, NEW r \in Reply, Heartbeat(h, r) \/ AbandonReply(h, r)
        PROVE  Keeps(o)
    BY <1>3, <1>0, CloseKinds, QuietKinds
  <1>4. ASSUME NEW h \in Holder, NEW r \in Reply, CommitReply(h, r)
        PROVE  Keeps(o)
    <2>0. state[r] = "reply_claimed" /\ "reply_accepted" \in Decided
      BY <1>4 DEF CommitReply, Holds, Decided
    <2>1. CASE left[r] > 0
      <3>1. /\ state' = [state EXCEPT ![r] = "reply_accepted"] /\ AssignReplyCommit(r)
            /\ UNCHANGED <<original, owner, granted, unknown>>
        BY <1>4, <2>1 DEF CommitReply, IInv, TypeOK
      <3> QED
        BY <2>0, <3>1, DecisionStep
    <2>2. CASE left[r] <= 0
      <3>1. Closes({r})
        BY <1>4, <2>0, <2>2, LeaseAssumption DEF CommitReply, Closes, IInv, TypeOK
      <3> QED
        BY <3>1, <1>0
    <2> QED
      BY <1>4, <2>1, <2>2 DEF CommitReply
  <1>5. ASSUME NEW stale \in 0..MaxStale, ExpireClaims(stale)
        PROVE  Keeps(o)
    BY <1>5, <1>0, CloseKinds
  <1>6. ASSUME NEW r \in Reply, NEW i \in Item, Observable(r, i), RecordObservation(r, i),
               UNCHANGED <<original, owner, granted, unknown>>
        PROVE  Keeps(o)
    <2>1. state[r] # "absent" /\ "reply_observed" \in Decided
      BY <1>6 DEF Observable, Decided
    <2> QED
      BY <1>6, <2>1, DecisionStep DEF RecordObservation
  <1>7. ASSUME NEW r \in Reply, NEW i \in Item,
               \/ ObserveReply(r, i) \/ ReconcileReplyObservation(r, i)
               \/ ReconcileReplyObservationWithReceipt(r, i)
        PROVE  Keeps(o)
    <2>1. CASE ObserveReply(r, i) \/ ReconcileReplyObservation(r, i)
      BY <2>1, <1>6 DEF ObserveReply, ReconcileReplyObservation
    <2>2. CASE ReconcileReplyObservationWithReceipt(r, i) /\ state[r] # "reply_observed"
      BY <2>2, <1>6 DEF ReconcileReplyObservationWithReceipt
    <2>3. CASE ReconcileReplyObservationWithReceipt(r, i) /\ state[r] = "reply_observed"
      <3>1. UNCHANGED <<state, original, winners, unknown>>
        BY <2>3 DEF ReconcileReplyObservationWithReceipt
      <3>2. Unknowns(o)' = Unknowns(o)
        BY <3>1 DEF Unknowns
      <3> QED
        BY <3>1, <3>2, QuietStep DEF Keeps, winners, unknown
    <2> QED
      BY <1>7, <2>1, <2>2, <2>3
  <1>8. ASSUME NEW r \in Reply, ReconcileReplyAccepted(r)
        PROVE  Keeps(o)
    <2>1. /\ state[r] # "absent" /\ "reply_accepted" \in Decided
          /\ state' = [state EXCEPT ![r] = "reply_accepted"] /\ AssignReplyCommit(r)
          /\ UNCHANGED <<original, owner, granted, unknown>>
      BY <1>8 DEF ReconcileReplyAccepted, Decided
    <2> QED
      BY <2>1, DecisionStep
  <1>9. CASE Tick \/ UNCHANGED vars
    BY <1>9, QuietKinds
  <1> QED
    BY <1>1, <1>2, <1>3, <1>4, <1>5, <1>7, <1>8, <1>9 DEF Next

-----------------------------------------------------------------------------
(* Refinement. *)

LEMMA InitRefines == Init => Outcome!Init
  <1> SUFFICES ASSUME Init, NEW o \in Original PROVE Selection(o) = Outcome!Pending
    BY DEF Outcome!Init
  <1> QED
    BY DEF Init, Selection, Unknowns, Outcome!Pending

LEMMA StepRefines ==
    IInv /\ IInv' /\ [Next]_vars => [Outcome!Decide]_[o \in Original |-> Selection(o)]
  <1> SUFFICES ASSUME IInv, IInv', [Next]_vars PROVE Outcome!Decide
    OBVIOUS
  <1>1. SelectionFacts'
    BY SelectionIs, PTL
  <1>2. \A o \in Original :
           Selection(o)' \in {Outcome!Pending} \cup { Outcome!Unknown(r) : r \in Reply }
                                               \cup { Outcome!Won(r) : r \in Reply }
    BY <1>1 DEF SelectionFacts, Outcome!IsUnknown, Outcome!IsWon
  <1>3. \A o \in Original : Keeps(o)
    BY NextKeeps
  <1> QED
    BY <1>2, <1>3 DEF Outcome!Decide, Keeps

\* Reply custody implements the register OriginalOutcome: whoever reads an
\* original sees pending, then at most one unknown reply, then at most one
\* winner.
THEOREM CustodyImplementsOutcome == Spec => OutcomeSpec
  BY InitRefines, StepRefines, Inductive, PTL DEF Spec, OutcomeSpec, Outcome!Spec
=============================================================================
