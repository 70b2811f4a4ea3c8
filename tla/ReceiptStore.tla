---------------------------- MODULE ReceiptStore ----------------------------
(***************************************************************************)
(* The receipts of one message and the commands that read, reconcile and   *)
(* resolve them (internal/receipts over internal/journal/receipts.go).     *)
(* Each command is a process of its own: it loads a receipt, works outside *)
(* any transaction (history, a human gate), writes through transactions    *)
(* and, when it ends with a receipt, stores that receipt once more         *)
(* (resources.CloseWithResult).  Other commands write in between, and a    *)
(* command can die at any step.  The store keeps one row per receipt ID:   *)
(* the receipt of the send, and one for each wait.                         *)
(***************************************************************************)
EXTENDS Naturals, FiniteSets

CONSTANT Command    \* commands that run against the store

VARIABLES
    op,         \* operations.state of the message
    row,        \* the assertion in manual_resolutions, "none" without one
    reply,      \* state of the reply claim that answers the message, "none" without one
    history,    \* what the target's history holds under the message's ID
    replied,    \* the reply's item is in the history of the reply destination
    store,      \* receipt -> its document, for the receipts there are
    run,        \* what each command is doing
    delivered   \* the body is in the target thread
receiptVars == <<op, row, reply, history, replied, store, run, delivered>>

SentReceipt == "sent"   \* the receipt ID of the send; a wait's receipt has the command's name
OpStates == {"dispatch_started", "outcome_unknown", "accepted", "manually_resolved"}
ReplyStates == {"reply_outcome_unknown", "reply_accepted", "reply_observed"}
Assertions == {"accepted", "not_delivered"}
Item == {"genuine", "again", "bodiless", "altered"}

Document == [state : OpStates \cup ReplyStates, evidence : SUBSET (OpStates \cup ReplyStates),
             resolution : Assertions \cup {"none"}, content : BOOLEAN]
Doc(state) == [state |-> state, evidence |-> {state}, resolution |-> "none", content |-> FALSE]
NoCommand == [kind |-> "none", step |-> "idle", ref |-> SentReceipt, held |-> Doc("accepted"),
              prev |-> Doc("accepted"), owes |-> FALSE]
Steps == {"idle", "history", "custody", "strengthen", "put", "transition", "rollback", "observe",
          "gate", "decide", "repair", "resolve", "close", "done", "failed", "crashed"}

ReceiptTypeOK ==
    /\ op \in OpStates /\ row \in Assertions \cup {"none"} /\ reply \in ReplyStates \cup {"none"}
    /\ history \subseteq Item /\ replied \in BOOLEAN /\ delivered \in BOOLEAN
    /\ DOMAIN store \subseteq {SentReceipt} \cup Command
    /\ \A r \in DOMAIN store : store[r] \in Document
    /\ \A c \in Command : /\ run[c].step \in Steps /\ run[c].ref \in {SentReceipt} \cup Command
                          /\ run[c].held \in Document /\ run[c].prev \in Document

(* A Send that ended: accepted, unknown, or fenced and not recorded because the journal failed. *)
ReceiptInit ==
    /\ \E start \in {<<"accepted", "accepted">>, <<"outcome_unknown", "outcome_unknown">>,
                     <<"dispatch_started", "outcome_unknown">>, <<"dispatch_started", "accepted">>} :
        /\ op = start[1] /\ store = [r \in {SentReceipt} |-> Doc(start[2])]
        /\ history \in SUBSET Item
        /\ "again" \in history => "genuine" \in history
        /\ delivered \in BOOLEAN /\ ("genuine" \in history \/ "accepted" \in {start[1], start[2]} => delivered)
    /\ row = "none" /\ reply = "none" /\ replied \in BOOLEAN
    /\ run = [c \in Command |-> NoCommand]

CommandAt(c, step) == run[c].step = step
StepTo(c, step) == run' = [run EXCEPT ![c].step = step]
StepWith(c, step, doc) == run' = [run EXCEPT ![c].step = step, ![c].held = doc]
journal == <<op, row, reply>>
threads == <<history, replied, delivered>>
-----------------------------------------------------------------------------
(* mergeReceiptProjection: the incoming state wins; evidence, resolution and content stay. *)
Merge_TakesIncoming(existing, incoming) == incoming
Merge(existing, incoming) ==
    [incoming EXCEPT !.evidence = @ \cup existing.evidence,
                     !.resolution = IF @ = "none" THEN existing.resolution ELSE @,
                     !.content = @ \/ existing.content]

(* putReceiptTx. *)
PutReceiptTx(r, doc) ==
    store' = [x \in DOMAIN store \cup {r} |->
                IF x # r THEN store[x] ELSE IF r \in DOMAIN store THEN Merge(store[r], doc) ELSE doc]

(* The history items that carry the message: its ID, and a body with its digest and length. *)
Carriers == history \cap {"genuine", "again"}

(* What the subcommands do once they hold the receipt. *)
Begins(kind, r) ==
    IF kind = "show" THEN "close"
    ELSE IF kind = "resolve" THEN "gate"
    ELSE IF store[r].state \in ReplyStates /\ ~store[r].content THEN "custody"
    ELSE "history"

(* Store.Show by receipt ID, which is how every command below begins.  A reference by message   *)
(* or operation finds the same row, or fails as soon as a wait has added a second one.          *)
LoadReceipt(c, kind, r) ==
    /\ CommandAt(c, "idle") /\ r \in DOMAIN store
    /\ run' = [run EXCEPT ![c] = [kind |-> kind, ref |-> r, held |-> store[r], prev |-> store[r], owes |-> FALSE,
                                  step |-> Begins(kind, r)]]
    /\ UNCHANGED <<journal, threads, store>>

(* Service.Wait ends with a reply and makes a receipt of its own for it. *)
Waited(c) ==
    /\ CommandAt(c, "idle") /\ reply # "none"
    /\ run' = [run EXCEPT ![c] = [NoCommand EXCEPT !.kind = "wait", !.step = "close", !.ref = c,
                    !.held = [Doc(reply) EXCEPT !.content = reply = "reply_observed"]]]
    /\ UNCHANGED <<journal, threads, store>>

(* Reconcile reads the whole history and wants exactly one matching item. *)
History(c) ==
    /\ CommandAt(c, "history")
    /\ LET found == IF run[c].held.content THEN replied ELSE Cardinality(Carriers) = 1
       IN  StepTo(c, IF found THEN "strengthen" ELSE "failed")
    /\ UNCHANGED <<journal, threads, store>>
CommandFails(c) ==
    /\ run[c].step \in {"history", "custody", "gate", "decide"} /\ StepTo(c, "failed")
    /\ UNCHANGED <<journal, threads, store>>

(* The operation's state is read, and the receipt strengthened in memory. *)
Strengthen(c) ==
    /\ CommandAt(c, "strengthen")
    /\ LET doc == run[c].held
           state == IF doc.content THEN "reply_observed"
                    ELSE IF doc.state = "outcome_unknown" THEN "accepted" ELSE doc.state
       IN  run' = [run EXCEPT ![c].step = "put", ![c].owes = doc.content \/ op \in {"outcome_unknown", "dispatch_started"},
                              ![c].held = [doc EXCEPT !.state = state, !.evidence = @ \cup {state}]]
    /\ UNCHANGED <<journal, threads, store>>

(* The projection goes first ... *)
PutProjection(c) ==
    /\ CommandAt(c, "put")
    /\ \/ PutReceiptTx(run[c].ref, run[c].held) /\ StepTo(c, IF run[c].owes THEN "transition" ELSE "close")
       \/ StepTo(c, "failed") /\ UNCHANGED store
    /\ UNCHANGED <<journal, threads>>

(* ... then RecordAccepted or ReconcileReplyObservation, which may find the row moved on. *)
Transition(c) ==
    /\ CommandAt(c, "transition")
    /\ \/ /\ run[c].held.content /\ reply' = "reply_observed" /\ UNCHANGED op /\ StepTo(c, "close")
       \/ /\ ~run[c].held.content /\ op \in {"dispatch_started", "outcome_unknown"}
          /\ op' = "accepted" /\ UNCHANGED reply /\ StepTo(c, "close")
       \/ StepTo(c, "rollback") /\ UNCHANGED <<op, reply>>
    /\ UNCHANGED <<row, threads, store>>

(* The rollback puts the previous document back, and the merge keeps the added evidence. *)
Rollback(c) ==
    /\ CommandAt(c, "rollback") /\ StepTo(c, "failed")
    /\ PutReceiptTx(run[c].ref, run[c].prev) \/ UNCHANGED store
    /\ UNCHANGED <<journal, threads>>

(* reconcileDurableReply: the reply is chosen by custody, found in the history of its destination, *)
Custody(c) ==
    /\ CommandAt(c, "custody")
    /\ StepTo(c, IF reply # "none" /\ replied THEN "observe" ELSE "failed")
    /\ UNCHANGED <<journal, threads, store>>

(* and claim and receipt are strengthened in one transaction. *)
Observe(c) ==
    /\ CommandAt(c, "observe")
    /\ LET doc == [run[c].held EXCEPT !.state = "reply_observed", !.content = TRUE, !.evidence = @ \cup {"reply_observed"}]
       IN  \/ reply' = "reply_observed" /\ PutReceiptTx(run[c].ref, doc) /\ StepWith(c, "close", doc)
           \/ StepTo(c, "failed") /\ UNCHANGED <<reply, store>>
    /\ UNCHANGED <<op, row, threads>>
-----------------------------------------------------------------------------
Authorize(c) == CommandAt(c, "gate") /\ StepTo(c, "decide") /\ UNCHANGED <<journal, threads, store>>

(* Resolve reads the operation and leaves a resolved receipt or a known outcome alone. *)
Decide(c) ==
    /\ CommandAt(c, "decide")
    /\ StepTo(c, IF run[c].held.state # "outcome_unknown" THEN "failed"
                 ELSE IF op = "manually_resolved" THEN "repair"
                 ELSE "resolve")
    /\ UNCHANGED <<journal, threads, store>>

(* The operation is resolved and its receipt is not: the receipt is made to agree. *)
Repair(c) ==
    /\ CommandAt(c, "repair")
    /\ LET doc == [run[c].held EXCEPT !.state = "manually_resolved", !.resolution = row]
       IN  \/ PutReceiptTx(run[c].ref, doc) /\ StepWith(c, "close", doc)
           \/ StepTo(c, "failed") /\ UNCHANGED store
    /\ UNCHANGED <<journal, threads>>

(* ResolveWithReceipt: one transaction; a repeated caller gets the row that is there. *)
ResolveReceipt(c) ==
    /\ CommandAt(c, "resolve")
    /\ \/ \E a \in Assertions :
            LET doc == [run[c].held EXCEPT !.state = "manually_resolved", !.resolution = a]
            IN  /\ op = "outcome_unknown" /\ op' = "manually_resolved" /\ row' = a
                /\ PutReceiptTx(run[c].ref, doc) /\ StepWith(c, "close", doc)
       \/ op = "manually_resolved" /\ StepWith(c, "close", store[run[c].ref]) /\ UNCHANGED <<op, row, store>>
       \/ StepTo(c, "failed") /\ UNCHANGED <<op, row, store>>
    /\ UNCHANGED <<reply, threads>>

(* CloseWithResult: every command that ends with a receipt stores the receipt it holds. *)
Close(c) ==
    /\ CommandAt(c, "close") /\ StepTo(c, "done")
    /\ PutReceiptTx(run[c].ref, run[c].held) \/ UNCHANGED store
    /\ UNCHANGED <<journal, threads>>

CommandDies(c) ==
    /\ run[c].step \notin {"idle", "done", "failed", "crashed"} /\ StepTo(c, "crashed")
    /\ UNCHANGED <<journal, threads, store>>

(* Custody records the reply, which moves on by itself. *)
ReplyMoves ==
    /\ \/ reply = "none" /\ reply' \in {"reply_outcome_unknown", "reply_accepted"}
       \/ reply = "reply_outcome_unknown" /\ reply' = "reply_accepted"
    /\ UNCHANGED <<op, row, threads, store, run>>

ReceiptNext ==
    \/ \E c \in Command :
        \/ \E kind \in {"show", "reconcile", "resolve"}, r \in {SentReceipt} \cup Command : LoadReceipt(c, kind, r)
        \/ Waited(c) \/ History(c) \/ CommandFails(c) \/ Strengthen(c) \/ PutProjection(c) \/ Transition(c)
        \/ Rollback(c) \/ Custody(c) \/ Observe(c) \/ Authorize(c) \/ Decide(c) \/ Repair(c)
        \/ ResolveReceipt(c) \/ Close(c) \/ CommandDies(c)
    \/ ReplyMoves
ReceiptSpec == ReceiptInit /\ [][ReceiptNext]_receiptVars
-----------------------------------------------------------------------------
(* PROPERTIES *)

(* No receipt and no operation is called accepted without the body in the thread: metadata      *)
(* without a body or with another body never counts, also across rollbacks and stale writes.    *)
AcceptedIsProven ==
    /\ op = "accepted" \/ (\E r \in DOMAIN store : "accepted" \in store[r].evidence) => delivered
    /\ \A r \in DOMAIN store : store[r].content => reply = "reply_observed"

(* What commands add to a receipt is kept by every later write of it, however old the copy the  *)
(* writer holds: evidence, the manual resolution, the content locator.                          *)
NothingIsLost == [][\A r \in DOMAIN store :
    /\ r \in DOMAIN store'
    /\ store[r].evidence \subseteq store'[r].evidence
    /\ store[r].content => store'[r].content
    /\ store[r].resolution # "none" => store'[r].resolution = store[r].resolution]_receiptVars

(* Two resolvers, even through different receipts, cannot leave two assertions behind.          *)
OneResolution == \A r \in DOMAIN store : store[r].resolution \in {"none", row}

(* A command that reports success has its transition in the journal, not only in the receipt it *)
(* wrote first.                                                                                 *)
SuccessIsDurable == \A c \in Command : run[c].step \in {"close", "done"} =>
    /\ run[c].kind = "reconcile" => IF run[c].held.content THEN reply = "reply_observed"
                                     ELSE op \in {"accepted", "manually_resolved"}
    /\ run[c].kind = "resolve" => op = "manually_resolved"

(* status.go: "EvidenceState is a durable, monotonic delivery fact."                            *)
ReceiptOnlyStrengthens == [][\A r \in DOMAIN store : store'[r].state # store[r].state =>
    \/ store[r].state = "outcome_unknown" /\ store'[r].state \in {"accepted", "manually_resolved"}
    \/ store[r].state = "manually_resolved" /\ store'[r].state = "accepted"
    \/ store[r].state = "reply_outcome_unknown" /\ store'[r].state \in {"reply_accepted", "reply_observed"}
    \/ store[r].state = "reply_accepted" /\ store'[r].state = "reply_observed"]_receiptVars

(* Receipts tell the truth about the thread and the journal, and later writes keep it.           *)
ReceiptsAreTrue == [](AcceptedIsProven /\ OneResolution /\ SuccessIsDurable) /\ NothingIsLost
=============================================================================
