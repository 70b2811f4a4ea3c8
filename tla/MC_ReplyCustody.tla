-------------------------- MODULE MC_ReplyCustody --------------------------
(***************************************************************************)
(* Reply custody on its own, in two cuts of one instance.  "which" names   *)
(* the cut a behaviour belongs to:                                         *)
(*   pair        two replies under two originals, two deliverers: joins,   *)
(*               lost answers, late tokens, conflicting observations;      *)
(*   contention  three replies to one original, without receipts: a winner, *)
(*               a loser and an unknown at once, expiries that close       *)
(*               several claims.                                           *)
(***************************************************************************)
EXTENDS ReplyCustody

CONSTANTS r1, r2, r3, m1, m2, h1, h2, i1, i2

VARIABLE which

MCInit == which \in {"pair", "contention"} /\ Init

(* Bounds: what the cuts leave out. *)
Pair == original'[r3] = None
Contention == m2 \notin known' /\ receipt'[m1] = None /\ \A r \in Reply : owner'[r] # h2 /\ item'[r] # i2

MCNext ==
    \/ which = "pair" /\ Next /\ Pair /\ UNCHANGED which
    \/ which = "contention" /\ Next /\ Contention /\ UNCHANGED which
MCSpec == MCInit /\ [][MCNext]_<<which, vars>>
=============================================================================
