--------------------------- MODULE MC_RemoteCustody ---------------------------
(* Bounds of the runs on RemoteCustody. *)
EXTENDS RemoteCustody, TLC

Symmetric == Permutations(Thread) \cup Permutations(Deliverer) \cup Permutations(Waiter)
=============================================================================
