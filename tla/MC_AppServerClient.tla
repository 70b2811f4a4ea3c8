-------------------------- MODULE MC_AppServerClient --------------------------
(***************************************************************************)
(* The uses of AppServerClient that the runs look at.                      *)
(***************************************************************************)
EXTENDS AppServerClient, TLC

CONSTANTS c1, c2, k1, k2

(* Two calls with their own request IDs, and a queue of one.               *)
Calls == [id |-> c1 :> k1 @@ c2 :> k2, notify |-> {}, writer |-> 1, events |-> 0, reads |-> 1,
          notices |-> 0, consuming |-> FALSE]
(* Two calls that use one request ID.                                      *)
Returns == [Calls EXCEPT !.id = c1 :> k1 @@ c2 :> k1, !.writer = 2, !.reads = 2]
(* A call and a notification.                                              *)
Notifies == [Calls EXCEPT !.notify = {c2}, !.writer = 2]
(* A consumer that races the eviction of a finishing pump.                 *)
Streams == [Calls EXCEPT !.events = 1, !.reads = 2, !.notices = 3, !.consuming = TRUE]

MCUses == {Calls, Returns, Notifies, Streams}

(* The uses of the two findings, for one call.                             *)
OneId == c1 :> k1
MCSlowWrite == {[Calls EXCEPT !.id = OneId, !.events = 1, !.notices = 2]}
MCConsumer == {[Calls EXCEPT !.id = OneId, !.events = 1, !.reads = 2, !.notices = 2, !.consuming = TRUE]}
=============================================================================
