------------------------------ MODULE MC_Remote ------------------------------
(***************************************************************************)
(* What one machine does at another over ssh.  "which" names the part      *)
(* whose steps a behaviour takes; they share nothing:                      *)
(*   child    SSHProxy with a connection that writes, one that reads (the  *)
(*            two sides meet only in abort), and a control call; a         *)
(*            preflight call takes the steps of a control call and reports *)
(*            no evidence;                                                 *)
(*   custody  RemoteCustody: a deliverer and two calls of a waiting        *)
(*            machine reach custody through the control protocol.          *)
(***************************************************************************)
EXTENDS SSHProxy, RemoteCustody

CONSTANTS h1, t1, w1, w2, r1, r2

VARIABLE which

MCUses == {[for |-> "dial", messages |-> 1, chunks |-> 0],
           [for |-> "dial", messages |-> 0, chunks |-> 2],
           [for |-> "control", messages |-> 0, chunks |-> 2]}

MCInit == which \in {"child", "custody"} /\ Init /\ RemoteInit

(* Bounds: the second waiter only asks what is selected; a deliverer gives a claim up, or asks for   *)
(* its state, only while no waiter waits; an answer to the deliverer reaches it, or is lost, at once,  *)
(* for what others do meanwhile does not depend on it.                                                 *)
Remotely ==
    LET deliverer == call'[<<h1, t1>>]
    IN /\ call'[w2].step # "idle" => call'[w2].op = "originalStatus"
       /\ deliverer.step # "idle" =>
            /\ call[<<h1, t1>>].step = "idle"
            /\ deliverer.op \in {"status", "abandon"} => call'[w1].step = "idle" /\ call'[w2].step = "idle"

MCNext ==
    \/ which = "child" /\ Next /\ UNCHANGED <<which, remoteVars>>
    \/ which = "custody" /\ RemoteNext /\ Remotely /\ UNCHANGED <<which, vars>>
MCSpec == MCInit /\ [][MCNext]_<<which, vars, remoteVars>> /\ Fairness
=============================================================================
