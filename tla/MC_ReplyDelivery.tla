-------------------------- MODULE MC_ReplyDelivery --------------------------
(***************************************************************************)
(* Three invocations of one reply ID: two on one machine with the same     *)
(* operation ID (a second call of the same command), one on another        *)
(* machine with its own journal.  All meet at one claim.  The pair of one  *)
(* invocation on each machine is the instance of the orphan run.           *)
(***************************************************************************)
EXTENDS ReplyDelivery, TLC

CONSTANTS i1, i2, i3, here, there, r1, m1

MCInvocation == {i1, i2, i3}
MCUses     == i1 :> here @@ i2 :> here @@ i3 :> there
MCDelivers == [i \in MCInvocation |-> r1]
MCAnswers  == [r \in {r1} |-> m1]

MCPairInvocation == {i1, i3}
MCPairUses       == i1 :> here @@ i3 :> there
MCPairDelivers   == [i \in MCPairInvocation |-> r1]

(* The two invocations on one machine are alike: let the first to begin be i1. *)
MCNext == Next /\ (pc'[i2] # "prepare" => pc'[i1] # "prepare")
MCFairSpec == Init /\ [][MCNext]_vars /\ Fairness
=============================================================================
