----------------------------- MODULE CommandSpace -----------------------------
(***************************************************************************)
(* How callers of the app-server client wait for room in its command queue: *)
(* enqueue tries under admitMu and otherwise sleeps on commandSpace, a     *)
(* channel that holds one token however many commands the pump has taken.  *)
(* AppServerClient takes the waiting for granted; this module is about it.  *)
(***************************************************************************)
EXTENDS Naturals, FiniteSets

CONSTANTS
    Sender,         \* callers, each with one command
    Impatient,      \* those whose context may end
    Capacity        \* length of the command queue

VARIABLES
    pc,         \* Sender -> "idle", "try", "wait", "admitted", "refused"
    ended,      \* senders whose context has ended
    queued,     \* commands in the queue
    token,      \* commandSpace holds its token
    accepting,  \* the admission flag
    pump        \* "select", "popped" (taken, not yet signalled), "writing", "finish", "closed"
vars == <<pc, ended, queued, token, accepting, pump>>

Init ==
    /\ pc = [s \in Sender |-> "idle"] /\ ended = {} /\ queued = 0 /\ token = FALSE
    /\ accepting = TRUE /\ pump = "select"

To(s, l) == pc' = [pc EXCEPT ![s] = l]

Begin(s) == pc[s] = "idle" /\ To(s, "try") /\ UNCHANGED <<ended, queued, token, accepting, pump>>

(* The attempt, under admitMu, comes first even when the context has ended. *)
Enqueue(s) ==
    /\ pc[s] = "try"
    /\ IF ~accepting THEN To(s, "refused") /\ UNCHANGED queued
       ELSE IF queued < Capacity THEN To(s, "admitted") /\ queued' = queued + 1
       ELSE To(s, "wait") /\ UNCHANGED queued
    /\ UNCHANGED <<ended, token, accepting, pump>>

(* The select of a sleeper: a token sends it round the loop again.         *)
Wake(s) ==
    /\ pc[s] = "wait"
    /\ \/ token /\ token' = FALSE /\ To(s, "try")
       \/ (s \in ended \/ pump = "closed") /\ To(s, "refused") /\ UNCHANGED token
    /\ UNCHANGED <<ended, queued, accepting, pump>>

EndContext(s) ==
    /\ s \in Impatient \ ended /\ pc[s] \in {"try", "wait"}
    /\ ended' = ended \cup {s} /\ UNCHANGED <<pc, queued, token, accepting, pump>>

PumpTakes ==
    /\ pump \in {"select", "finish"} /\ queued > 0
    /\ queued' = queued - 1 /\ pump' = IF pump = "select" THEN "popped" ELSE "draining"
    /\ UNCHANGED <<pc, ended, token, accepting>>
(* signalCommandSpace after every command taken, also while draining.      *)
Signal ==
    /\ pump \in {"popped", "draining"}
    /\ token' = TRUE /\ pump' = IF pump = "popped" THEN "writing" ELSE "finish"
    /\ UNCHANGED <<pc, ended, queued, accepting>>
Written == pump = "writing" /\ pump' = "select" /\ UNCHANGED <<pc, ended, queued, token, accepting>>

(* The generation ends: admission stops, the queue is drained, closed.      *)
StopAdmission ==
    /\ pump \in {"select", "writing"} /\ accepting
    /\ accepting' = FALSE /\ pump' = "finish" /\ UNCHANGED <<pc, ended, queued, token>>
Closed == pump = "finish" /\ queued = 0 /\ pump' = "closed" /\ UNCHANGED <<pc, ended, queued, token, accepting>>

Pump == PumpTakes \/ Signal \/ Written \/ Closed
Next == (\E s \in Sender : Begin(s) \/ Enqueue(s) \/ Wake(s) \/ EndContext(s)) \/ Pump \/ StopAdmission
Spec == Init /\ [][Next]_vars
(* Runnable goroutines run; that a write returns is as in AppServerClient.  *)
FairSpec == Spec /\ WF_vars(Pump) /\ \A s \in Sender : WF_vars(Enqueue(s)) /\ WF_vars(Wake(s))
-----------------------------------------------------------------------------
TypeOK == queued \in 0..Capacity /\ ended \subseteq Impatient /\ {token, accepting} \subseteq BOOLEAN

(* No wakeup is lost: a caller that sleeps while the queue is full is admitted *)
(* or refused in the end, although one token stands for several free places *)
(* and whoever takes it may find the place gone.                           *)
SleepersAreWoken == \A s \in Sender : pc[s] = "wait" ~> pc[s] \in {"admitted", "refused"}
=============================================================================
