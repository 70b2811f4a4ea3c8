---------------------------- MODULE MC_ClientRuns ----------------------------
(***************************************************************************)
(* AppServerClient in its four uses.                                       *)
(***************************************************************************)
EXTENDS MC_AppServerClient

(* Bounds: of two calls one may be cancelled, without Close and half-open transports,  *)
(* which the other uses have; of two with one ID, which are alike, c1 is the first to  *)
(* start; streams have one call, which nobody cancels.                                 *)
Cut ==
    /\ use = Calls => c2 \notin canceled' /\ ~closing' /\ (reader' # "reading" => ~up')
    /\ use = Returns => (pc'[c2] # "idle" => pc'[c1] # "idle")
    /\ use = Streams => pc'[c2] = "idle" /\ canceled' = {}

MCNext == Next /\ Cut
MCFairSpec == Init /\ [][MCNext]_vars /\ Fairness
=============================================================================
