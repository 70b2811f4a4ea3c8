------------------------------ MODULE Retention ------------------------------
(***************************************************************************)
(* Journal.StorageMaintain and StorageCheck: expired claims are closed,    *)
(* then everything completed more than RetentionAge ago is deleted, in two *)
(* transactions, while other processes go on preparing, claiming,          *)
(* committing, observing and storing receipts.  Replies compete: all that  *)
(* come through are positive rows, and the first is the winner.  A journal *)
(* has custody of some originals and a projection of others, whose rows    *)
(* are imported from their custodian.  Rows refer to each other by IDs;    *)
(* only some of the references are foreign keys, so that what is deleted   *)
(* together rests on the predicates.  Blocker records, which are written   *)
(* by whoever reads an event stream, are pruned with the rest.             *)
(***************************************************************************)
EXTENDS Integers, FiniteSets

CONSTANTS
    OpRow, ClaimRow, ReceiptRow, BlockerRow,    \* rows that may be written
    Age,                            \* RetentionAge
    LastTick                        \* bound: the clock

ASSUME RetentionAssumption == Age \in Nat /\ LastTick \in Nat

VARIABLES
    clock,
    ops,        \* operations: [state, route, at], at the terminal time; attempts live and die with them
    claims,     \* reply_claims: [of, state, at, lease], at the time of the last update
    winners,    \* reply_winners: operation -> claim
    observed,   \* observations: claims
    receipts,   \* receipts: [of, state, at]
    blockers,   \* blockers: [seen, resolved], resolved -1 while open
    job         \* one StorageMaintain
retentionVars == <<clock, ops, claims, winners, observed, receipts, blockers, job>>

Closed == {"accepted", "rejected", "not_sent", "manually_resolved"}
Undecided == {"prepared", "dispatch_started", "outcome_unknown"}
Positive == {"reply_accepted", "reply_observed"}
(* reply_route and custody_route: no reply is asked for, or its custodian is here or away. *)
Route == {"none", "here", "away"}
Time == 0..LastTick

RetentionTypeOK ==
    /\ clock \in Time
    /\ DOMAIN ops \subseteq OpRow /\ DOMAIN claims \subseteq ClaimRow
    /\ \A o \in DOMAIN ops : ops[o] \in [state : Closed \cup Undecided, route : Route, at : Time]
    /\ \A c \in DOMAIN claims :
        claims[c] \in [of : OpRow, state : Positive \cup {"reply_dispatch_claimed", "reply_outcome_unknown"}, at : Time, lease : Nat]
    /\ DOMAIN winners \subseteq OpRow /\ \A o \in DOMAIN winners : winners[o] \in ClaimRow
    /\ observed \subseteq ClaimRow
    /\ DOMAIN receipts \subseteq ReceiptRow /\ \A r \in DOMAIN receipts : receipts[r].of \in OpRow
    /\ DOMAIN blockers \subseteq BlockerRow
    /\ \A b \in DOMAIN blockers : blockers[b] \in [seen : Time, resolved : Time \cup {-1}]
    /\ job.step \in {"idle", "expire", "prune"} /\ job.now \in Time

Nothing == <<>>
RetentionInit ==
    /\ clock = 0 /\ ops = Nothing /\ claims = Nothing /\ winners = Nothing /\ observed = {}
    /\ receipts = Nothing /\ blockers = Nothing
    /\ job = [step |-> "idle", now |-> 0, cutoff |-> 0]

Put(f, x, v) == [y \in DOMAIN f \cup {x} |-> IF y = x THEN v ELSE f[y]]
Drop(f, S) == [y \in DOMAIN f \ S |-> f[y]]
replies == <<claims, winners, observed>>
-----------------------------------------------------------------------------
(* The rest of the journal, in the transitions that retention tells apart. *)
Passes == clock < LastTick /\ clock' = clock + 1 /\ UNCHANGED <<ops, replies, receipts, blockers, job>>

Prepare(o) ==
    /\ o \notin DOMAIN ops
    /\ \E route \in Route : ops' = Put(ops, o, [state |-> "prepared", route |-> route, at |-> 0])
    /\ UNCHANGED <<clock, replies, receipts, blockers, job>>

Moves == {<<"prepared", "not_sent">>, <<"prepared", "dispatch_started">>, <<"dispatch_started", "accepted">>,
          <<"dispatch_started", "rejected">>, <<"dispatch_started", "outcome_unknown">>,
          <<"outcome_unknown", "accepted">>, <<"outcome_unknown", "manually_resolved">>}

Advance(o) ==
    /\ o \in DOMAIN ops
    /\ \E m \in Moves : m[1] = ops[o].state /\ ops' = [ops EXCEPT ![o].state = m[2], ![o].at = clock]
    /\ UNCHANGED <<clock, replies, receipts, blockers, job>>

(* Expired is what expireClaimsAt does at a given time; AbandonReply closes one claim like it. *)
Expired(S, time) == [c \in DOMAIN claims |-> IF c \in S THEN [claims[c] EXCEPT !.state = "reply_outcome_unknown", !.at = time]
                                             ELSE claims[c]]

(* Custody.  A claim needs the original and its route; another claim of the ID joins it, or finds it expired. *)
ClaimReply(c, o) ==
    /\ \/ /\ c \notin DOMAIN claims /\ o \in DOMAIN ops /\ ops[o].route = "here"
          /\ claims' = Put(claims, c, [of |-> o, state |-> "reply_dispatch_claimed", at |-> clock, lease |-> clock + 1])
       \/ /\ c \in DOMAIN claims /\ claims[c].of = o
          /\ claims[c].state = "reply_dispatch_claimed" /\ claims[c].lease <= clock /\ claims' = Expired({c}, clock)
    /\ UNCHANGED <<clock, ops, winners, observed, receipts, blockers, job>>

Heartbeat(c) ==
    /\ c \in DOMAIN claims /\ claims[c].state = "reply_dispatch_claimed" /\ claims[c].lease > clock
    /\ claims' = [claims EXCEPT ![c].lease = clock + 1, ![c].at = clock]
    /\ UNCHANGED <<clock, ops, winners, observed, receipts, blockers, job>>

(* INSERT OR IGNORE: the first positive reply wins, those after it are positive and have lost. *)
Elect(c, o) == winners' = IF o \in DOMAIN winners THEN winners ELSE Put(winners, o, c)

CommitReply(c) ==
    /\ c \in DOMAIN claims /\ claims[c].state = "reply_dispatch_claimed"
    /\ \/ /\ claims[c].lease > clock /\ Elect(c, claims[c].of)
          /\ claims' = [claims EXCEPT ![c].state = "reply_accepted", ![c].at = clock]
       \/ claims[c].lease <= clock /\ claims' = Expired({c}, clock) /\ UNCHANGED winners
    /\ UNCHANGED <<clock, ops, observed, receipts, blockers, job>>

(* Native evidence for a reply that is no longer claimed; its row keeps the time of the first. *)
ObserveReply(c) ==
    /\ c \in DOMAIN claims /\ claims[c].state # "reply_dispatch_claimed"
    /\ Elect(c, claims[c].of) /\ observed' = observed \cup {c}
    /\ claims' = IF claims[c].state = "reply_observed" THEN claims
                 ELSE [claims EXCEPT ![c].state = "reply_observed", ![c].at = clock]
    /\ UNCHANGED <<clock, ops, receipts, blockers, job>>

(* Evidence of acceptance for a claim that had expired. *)
ReconcileReplyAccepted(c) ==
    /\ c \in DOMAIN claims /\ claims[c].state = "reply_outcome_unknown" /\ Elect(c, claims[c].of)
    /\ claims' = [claims EXCEPT ![c].state = "reply_accepted", ![c].at = clock]
    /\ UNCHANGED <<clock, ops, observed, receipts, blockers, job>>

AbandonReply(c) ==
    /\ c \in DOMAIN claims /\ claims[c].state = "reply_dispatch_claimed" /\ claims' = Expired({c}, clock)
    /\ UNCHANGED <<clock, ops, winners, observed, receipts, blockers, job>>

(* A projection.  No row of it is claimed; Projects says whether c may be, or is, a row of the original o. *)
Projects(c, o) ==
    /\ o \in DOMAIN ops /\ ops[o].route = "away"
    /\ c \in DOMAIN claims => claims[c].of = o
Row(o, state) == [of |-> o, state |-> state, at |-> clock, lease |-> 0]

ImportUnknown(c, o) ==
    /\ Projects(c, o) /\ c \notin DOMAIN claims
    /\ claims' = Put(claims, c, Row(o, "reply_outcome_unknown"))
    /\ UNCHANGED <<clock, ops, winners, observed, receipts, blockers, job>>

(* The custodian's winner, whose item may be known, contradicts no other; its row is as new as the import. *)
WithWinner(w, o, seen) ==
    LET known == w \in DOMAIN claims /\ claims[w].state = "reply_observed"
    IN  Put(claims, w, Row(o, IF seen \/ known THEN "reply_observed" ELSE "reply_accepted"))
ImportWinner(w, o, seen) ==
    /\ Projects(w, o) /\ (o \in DOMAIN winners => winners[o] = w)
    /\ claims' = WithWinner(w, o, seen) /\ Elect(w, o)
    /\ observed' = IF seen THEN observed \cup {w} ELSE observed
    /\ UNCHANGED <<clock, ops, receipts, blockers, job>>

(* A reply that was seen in its thread, alone or, once custody was told, with the winner custody named. *)
RecordObservedReply(c, o) ==
    /\ Projects(c, o)
    /\ \/ ObserveReply(c)
       \/ /\ c \notin DOMAIN claims /\ claims' = Put(claims, c, Row(o, "reply_observed"))
          /\ Elect(c, o) /\ observed' = observed \cup {c}
          /\ UNCHANGED <<clock, ops, receipts, blockers, job>>
RecordObservedReplyAndWinner(c, w, o, seen) ==
    /\ Projects(c, o) /\ Projects(w, o) /\ (o \in DOMAIN winners => winners[o] = w) /\ (c = w => seen)
    /\ claims' = [d \in DOMAIN claims \cup {c, w} |-> IF d = c THEN Row(o, "reply_observed") ELSE WithWinner(w, o, seen)[d]]
    /\ Elect(w, o) /\ observed' = observed \cup {c} \cup (IF seen THEN {w} ELSE {})
    /\ UNCHANGED <<clock, ops, receipts, blockers, job>>

PutReceipt(r, o) ==
    /\ o \in DOMAIN ops
    /\ r \in DOMAIN receipts => receipts[r].of = o
    /\ receipts' = Put(receipts, r, [of |-> o, state |-> ops[o].state, at |-> clock])
    /\ UNCHANGED <<clock, ops, replies, blockers, job>>

(* A server request is seen, again perhaps after it was resolved; and it is resolved. *)
UpsertBlocker(b) ==
    /\ blockers' = Put(blockers, b, [seen |-> clock, resolved |-> IF b \in DOMAIN blockers THEN blockers[b].resolved ELSE -1])
    /\ UNCHANGED <<clock, ops, replies, receipts, job>>
ResolveBlocker(b) ==
    /\ b \in DOMAIN blockers /\ blockers' = [blockers EXCEPT ![b].resolved = IF @ = -1 THEN clock ELSE @]
    /\ UNCHANGED <<clock, ops, replies, receipts, job>>
-----------------------------------------------------------------------------
(* The caller's bound can only lower the cutoff. *)
Cutoff(before) == IF before < clock - Age THEN before ELSE clock - Age

BeginMaintenance ==
    /\ job.step = "idle"
    /\ \E before \in Time : job' = [step |-> "expire", now |-> clock, cutoff |-> Cutoff(before)]
    /\ UNCHANGED <<clock, ops, replies, receipts, blockers>>

Expire ==
    /\ job.step = "expire" /\ job' = [job EXCEPT !.step = "prune"]
    /\ claims' = Expired({c \in DOMAIN claims : claims[c].state = "reply_dispatch_claimed" /\ claims[c].lease <= job.now}, job.now)
    /\ UNCHANGED <<clock, ops, winners, observed, receipts, blockers>>

(* A transaction fails, or the process ends: nothing of it is done. *)
MaintenanceFails == job.step # "idle" /\ job' = [job EXCEPT !.step = "idle"] /\ UNCHANGED <<clock, ops, replies, receipts, blockers>>

(* retentionOperationPredicate. *)
Related(o) == {c \in DOMAIN claims : claims[c].of = o}
Settled(o) ==
    /\ ops[o].state = "accepted" => /\ o \in DOMAIN winners /\ claims[winners[o]].state \in Positive
                                    /\ claims[winners[o]].at <= job.cutoff
    /\ \A c \in Related(o) : claims[c].state \in Positive /\ claims[c].at <= job.cutoff
OldOps == {o \in DOMAIN ops : /\ ops[o].state \in Closed /\ ops[o].at <= job.cutoff
                              /\ ops[o].route # "none" => Settled(o)}

(* retentionReplyPredicate and retentionReceiptPredicate: positive or closed, old, and of such an operation. *)
OldReplies_Alone == {c \in DOMAIN claims : claims[c].state \in Positive /\ claims[c].at <= job.cutoff}
OldReplies == {c \in DOMAIN claims : claims[c].state \in Positive /\ claims[c].at <= job.cutoff /\ claims[c].of \in OldOps}
OldReceipts == {r \in DOMAIN receipts : receipts[r].state \in Closed /\ receipts[r].at <= job.cutoff /\ receipts[r].of \in OldOps}
OldBlockers == {b \in DOMAIN blockers : blockers[b].resolved # -1 /\ blockers[b].resolved <= job.cutoff}

(* What goes with a claim: its observation by the foreign key, its winner row by a statement. *)
WinnersOf(gone) == {o \in DOMAIN winners : winners[o] \in gone}

Prune ==
    /\ job.step = "prune" /\ job' = [job EXCEPT !.step = "idle"]
    /\ ops' = Drop(ops, OldOps)
    /\ winners' = Drop(winners, WinnersOf(OldReplies))
    /\ claims' = Drop(claims, OldReplies) /\ observed' = observed \ OldReplies
    /\ receipts' = Drop(receipts, OldReceipts) /\ blockers' = Drop(blockers, OldBlockers)
    /\ UNCHANGED clock

RetentionNext ==
    \/ Passes \/ BeginMaintenance \/ Expire \/ Prune \/ MaintenanceFails
    \/ \E o \in OpRow : Prepare(o) \/ Advance(o) \/ (\E r \in ReceiptRow : PutReceipt(r, o))
    \/ \E o \in OpRow, c \in ClaimRow : ClaimReply(c, o) \/ ImportUnknown(c, o) \/ RecordObservedReply(c, o)
    \/ \E o \in OpRow, w \in ClaimRow, seen \in BOOLEAN :
           ImportWinner(w, o, seen) \/ (\E c \in ClaimRow : RecordObservedReplyAndWinner(c, w, o, seen))
    \/ \E c \in ClaimRow :
           Heartbeat(c) \/ CommitReply(c) \/ ObserveReply(c) \/ ReconcileReplyAccepted(c) \/ AbandonReply(c)
    \/ \E b \in BlockerRow : UpsertBlocker(b) \/ ResolveBlocker(b)
RetentionSpec == RetentionInit /\ [][RetentionNext]_retentionVars
-----------------------------------------------------------------------------
(* PROPERTIES *)

(* StorageCheck's own questions never find an orphan: no claim without its original, no winner    *)
(* and no observation without its claim, whoever writes between the two transactions.            *)
RelationsHold ==
    /\ \A c \in DOMAIN claims : claims[c].of \in DOMAIN ops
    /\ \A o \in DOMAIN winners : o \in DOMAIN ops /\ winners[o] \in DOMAIN claims
    /\ observed \subseteq DOMAIN claims

(* Nothing goes before its time: an operation that is deleted was conclusive for Age or longer;   *)
(* if it was accepted and asked for a reply, it had a winner; every reply to it, the ones that     *)
(* lost to the winner too, was positive and old enough; and a reply goes with its operation only.  *)
OnlyOldGoes == [][
    /\ \A o \in DOMAIN ops \ DOMAIN ops' :
        /\ ops[o].state \in Closed /\ clock - ops[o].at >= Age
        /\ (ops[o].route # "none" /\ ops[o].state = "accepted") => o \in DOMAIN winners
        /\ \A c \in Related(o) : claims[c].state \in Positive /\ clock - claims[c].at >= Age
    /\ \A c \in DOMAIN claims \ DOMAIN claims' : claims[c].of \notin DOMAIN ops']_retentionVars

(* A request that was resolved does not come back as a blocker because someone saw it late, and    *)
(* one that is open is not forgotten.                                                             *)
BlockersAreHonest == [][\A b \in DOMAIN blockers :
    /\ (blockers[b].resolved # -1 /\ b \in DOMAIN blockers') => blockers'[b].resolved = blockers[b].resolved
    /\ blockers[b].resolved = -1 => b \in DOMAIN blockers']_retentionVars

(* Maintenance leaves no dangling row, deletes nothing before its time and reopens no blocker.     *)
PruningIsSafe == []RelationsHold /\ OnlyOldGoes /\ BlockersAreHonest
=============================================================================
