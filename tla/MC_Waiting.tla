----------------------------- MODULE MC_Waiting -----------------------------
(***************************************************************************)
(* Whoever calls mektup gets an answer: the parts with a liveness property *)
(* of their own.  They share nothing; "which" names the part whose steps a *)
(* behaviour takes, and the fairness of a part is asked for only there.    *)
(*   wait     Service.Wait for one reply, over its event and history scans *)
(*   pool     two goroutines at the pooled session, while it is closed     *)
(*   reader   an isolated history read or event stream                     *)
(*   send     one Send, cut, refused, retried and recovered                *)
(*   files    two processes at the shared files, which may die             *)
(*   space    four callers at a command queue of one                       *)
(***************************************************************************)
EXTENDS SendDelivery, ConnectionPool, WaitService, TLC

VARIABLES
    which,
    files, default, lock, place, holds, used, proc, acked, resolved,                               \* Registries
    cpc, ended, queued, token, accepting, pump                                                     \* CommandSpace

fileVars == <<files, default, lock, place, holds, used, proc, acked, resolved>>
spaceVars == <<cpc, ended, queued, token, accepting, pump>>

Procs == {"p1", "p2"}
Callers == {"s1", "s2", "s3", "s4"}

Files == INSTANCE Registries WITH
    Proc <- Procs, Alias <- {"a1"}, EndpointID <- {"i1"}, CodexHome <- {}, Store <- {"s1"}, Dir <- {"d1"},
    Places <- {"real", "linked"}, First <- {[alias |-> "a1", id |-> "i1"]}, found <- resolved
Space == INSTANCE CommandSpace WITH Sender <- Callers, Impatient <- {"s4"}, Capacity <- 1, pc <- cpc

MCInit ==
    /\ which \in {"wait", "pool", "reader", "send", "files", "space"}
    /\ WaitInit /\ (which = "wait" \/ (~remote /\ ~bounded))
    /\ PoolInit /\ (which = "pool" \/ thread = [u \in User |-> CHOOSE t \in Thread : TRUE])
                /\ (which = "reader" \/ (fits = 0 /\ \A r \in Reader : pass[r] = "turns"))
    /\ Init /\ Space!Init
    /\ Files!RegistryInit /\ (which = "files" \/ default = "none")

others(part) ==
    /\ UNCHANGED which
    /\ part # "wait" => UNCHANGED waitVars
    /\ part # "pool" => UNCHANGED poolVars
    /\ part # "send" => UNCHANGED vars
    /\ part # "files" => UNCHANGED fileVars
    /\ part # "space" => UNCHANGED spaceVars

(* Bounds: users and reader of the pool are looked at one at a time. *)
MCNext ==
    \/ which = "wait" /\ WaitNext /\ others("wait")
    \/ which = "pool" /\ PoolNext /\ (\A r \in Reader : stage'[r] = "idle") /\ others("pool")
    \/ which = "reader" /\ PoolNext /\ (\A u \in User : stage'[u] = "idle") /\ others("pool")
    \/ which = "send" /\ Next /\ others("send")
    \/ which = "files" /\ Files!RegistryNext /\ others("files")
    \/ which = "space" /\ Space!Next /\ others("space")

(* The weak fairness of every part, as its module has it ... *)
WeakWaitFairness ==
    /\ WF_waitVars(which = "wait" /\ Waiter)
    /\ WF_waitVars(which = "wait" /\ (ReaderTakes \/ ReaderSends))
    /\ WF_waitVars(which = "wait" /\ HistorySends)
    /\ WF_waitVars(which = "wait" /\ stopped /\ HistoryReads)
    /\ WF_waitVars(which = "wait" /\ PollCustody)
    /\ WF_waitVars(which = "wait" /\ bounded /\ CallerEnds)
PoolFairness ==
    /\ \A u \in User : WF_poolVars(which = "pool" /\ UserStep(u))
    /\ \A r \in Reader : WF_poolVars(which = "reader" /\ ReaderStep(r))
    /\ WF_poolVars(which \in {"pool", "reader"} /\ CloseDetaches)
SendFairness ==
    WF_vars(which = "send" /\ Works("s1")) /\ WF_vars(which = "send" /\ DeadlinePasses("s1"))
FilesFairness == \A p \in Procs : WF_fileVars(which = "files" /\ Files!Step(p))
SpaceFairness ==
    /\ WF_spaceVars(which = "space" /\ Space!Pump)
    /\ \A s \in Callers : WF_spaceVars(which = "space" /\ Space!Enqueue(s)) /\ WF_spaceVars(which = "space" /\ Space!Wake(s))

(* ... and its strong fairness.  A behaviour runs one part, so that one formula asks it of two. *)
Strong ==
    /\ SF_<<waitVars, fileVars>>(\/ which = "wait" /\ TickerReads /\ UNCHANGED fileVars
                                 \/ which = "files" /\ Files!Lock("p1") /\ UNCHANGED waitVars)
    /\ SF_<<waitVars, fileVars>>(\/ which = "wait" /\ PollCustody /\ ReadCustody /\ UNCHANGED fileVars
                                 \/ which = "files" /\ Files!Lock("p2") /\ UNCHANGED waitVars)

MCSpec ==
    /\ MCInit /\ [][MCNext]_<<which, waitVars, poolVars, vars, fileVars, spaceVars>>
    /\ WeakWaitFairness /\ PoolFairness /\ SendFairness /\ FilesFairness /\ SpaceFairness /\ Strong
-----------------------------------------------------------------------------
(* Every part keeps its variables in the values the code can produce. *)
TypesOK ==
    /\ which = "wait" => WaitTypeOK
    /\ which \in {"pool", "reader"} => PoolTypeOK
    /\ which = "send" => TypeOK
    /\ which = "files" => Files!RegistryTypeOK
    /\ which = "space" => Space!TypeOK

(* Every other call returns: nobody stays at the gate of a pooled session or at a file's lock whose  *)
(* holder has gone, asleep at a queue that has space again, or at a server that does not answer; and *)
(* after Close no connection stays open.                                                            *)
CallersReturn ==
    /\ UsersReturn /\ CloseDetachesAll
    /\ SendReturns /\ Files!EveryoneReturns /\ Space!SleepersAreWoken
=============================================================================
