--------------------------- MODULE OriginalOutcome ---------------------------
(***************************************************************************)
(* What reply custody promises whoever waits on an original message: a     *)
(* register per original that starts pending, may name one reply whose     *)
(* outcome is unknown, and is final once it names a winner.  A waiter that *)
(* was told "unknown" may later be told "won"; it is never told another    *)
(* unknown reply, another winner, or that nothing happened.                *)
(***************************************************************************)
CONSTANTS Original, Reply

VARIABLE outcome  \* outcome[o]: what a read of original o selects

Pending    == [selection |-> "pending"]
Unknown(r) == [selection |-> "terminal_unknown", reply |-> r]
Won(r)     == [selection |-> "winner", reply |-> r]

IsUnknown(x) == \E r \in Reply : x = Unknown(r)
IsWon(x)     == \E r \in Reply : x = Won(r)

Init == outcome = [o \in Original |-> Pending]

\* The two ways one register moves; a custody transaction may move several.
Moves(x, y) ==
    \/ x = Pending /\ (IsUnknown(y) \/ IsWon(y))
    \/ IsUnknown(x) /\ IsWon(y)

Decide ==
    /\ outcome' \in [Original -> {Pending} \cup { Unknown(r) : r \in Reply }
                                           \cup { Won(r) : r \in Reply }]
    /\ \A o \in Original : outcome'[o] = outcome[o] \/ Moves(outcome[o], outcome'[o])

Spec == Init /\ [][Decide]_outcome
=============================================================================
