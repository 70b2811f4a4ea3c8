----------------------------- MODULE PortableWait -----------------------------
(***************************************************************************)
(* A wait on an exported receipt: ResolveWaitReference and what it calls   *)
(* (application/application.go), between the custodian's selection, the    *)
(* journals of the machine that sent the original and of another machine,  *)
(* the receipts both keep, and the reconciliation that strengthens them.   *)
(*                                                                         *)
(* The custodian is the sending machine, the other one or a third; a       *)
(* machine that is the custodian reads and reconciles custody itself.  A   *)
(* record of a receipt names a reply; the declared status, digest and size *)
(* follow from the reply, the error code is kept only by some writers.  A  *)
(* content reference is an item with or without its turn.  Exports are     *)
(* genuine and well formed; what OriginalStatus and the imports do to      *)
(* other rows is RemoteCustody.                                            *)
(***************************************************************************)
CONSTANTS Reply, ErrorReply,   \* ErrorReply: the replies with an error code
          Importer,            \* invocations of wait --receipt-file
          Absent               \* no reply, no receipt, no export

VARIABLES
    custodian,  \* the machine whose journal is the custodian's
    custody,    \* what the custodian selects: [sel, reply, item]
    projected,  \* projected[m]: the projection in the journal of machine m
    doc,        \* doc[id]: a stored receipt
    export,     \* the exported receipt
    import      \* import[p]: the invocation p

portableVars == <<custodian, custody, projected, doc, export, import>>

Machine == {"origin", "other"}
\* The send's receipt, and the receipt of one wait on either machine.
Id      == {"send"} \cup Machine
Home(id) == IF id = "send" THEN "origin" ELSE id

Pending == [sel |-> "pending", reply |-> Absent, item |-> FALSE]
Winner(r, seen) == [sel |-> "winner", reply |-> r, item |-> seen]
Unknown(r) == [sel |-> "terminal_unknown", reply |-> r, item |-> FALSE]
Selection == { s \in [sel : {"pending", "winner", "terminal_unknown"}, reply : Reply \cup {Absent}, item : BOOLEAN] :
                 (s.sel = "pending" <=> s.reply = Absent) /\ (s.item => s.sel = "winner") }

Record == [reply : Reply, code : BOOLEAN]
Receipt == [records : SUBSET Record, ref : {"none", "item", "turn"}]
ASSUME PortableAssumption == Absent \notin Reply /\ Absent \notin Receipt

NoRecords == [records |-> {}, ref |-> "none"]
ImportResults == {"reference", "conflict", "malformed", "unavailable"}
Unstarted == [step |-> "idle", at |-> "origin", id |-> "send", file |-> NoRecords,
         claims |-> {}, stored |-> FALSE, answer |-> Pending]

PortableTypeOK ==
    /\ custodian \in Machine \cup {"third"}
    /\ custody \in Selection
    /\ projected \in [Machine -> [op : BOOLEAN, sel : Selection]]
    /\ doc \in [Id -> Receipt \cup {Absent}]
    /\ export \in [id : Id, doc : Receipt] \cup {Absent}
    /\ import \in [Importer -> [step : {"idle", "lookup", "status", "persist"} \cup ImportResults,
                             at : Machine, id : Id, file : Receipt,
                             claims : SUBSET Record, stored : BOOLEAN, answer : Selection]]

PortableInit ==
    /\ custodian \in Machine \cup {"third"}
    /\ custody = Pending
    /\ projected = [m \in Machine |-> [op |-> m = "origin", sel |-> Pending]]
    /\ doc = [id \in Id |-> IF id = "send" THEN NoRecords ELSE Absent]
    /\ export = Absent
    /\ import = [p \in Importer |-> Unstarted]

-----------------------------------------------------------------------------
(* The custodian, the ordinary waits and the reconciliations.              *)

CustodyExpires(r) ==
    /\ custody = Pending
    /\ custody' = Unknown(r)
    /\ UNCHANGED <<custodian, projected, doc, export, import>>
CustodyCommits(r) ==
    /\ custody.sel # "winner"
    /\ custody' = Winner(r, FALSE)
    /\ UNCHANGED <<custodian, projected, doc, export, import>>
CustodyObserves ==
    /\ custody.sel # "pending" /\ ~custody.item
    /\ custody' = Winner(custody.reply, TRUE)
    /\ UNCHANGED <<custodian, projected, doc, export, import>>

\* ImportOriginalStatus: rows that disagree refuse, and unknown never
\* replaces a winner.
Conflicts(old, new) ==
    \/ old.sel = "winner" /\ new.sel = "winner" /\ old.reply # new.reply
    \/ old.sel = "winner" /\ new.sel = "terminal_unknown" /\ old.reply = new.reply
Import(old, new) ==
    IF new.sel = "pending" \/ (new.sel = "terminal_unknown" /\ old.sel = "winner") THEN old
    ELSE [new EXCEPT !.item = new.item \/ (old.item /\ old.reply = new.reply)]
Persist(m, new) == projected' = [projected EXCEPT ![m] = [op |-> TRUE, sel |-> Import(@.sel, new)]]

Local(m) == IF custodian = m THEN custody ELSE projected[m].sel

\* waitResult: one record with the error code the reply declared, and a
\* reference without a turn when the native item is known.
WaitDocument(status) ==
    [records |-> IF status.sel = "pending" THEN {}
                 ELSE {[reply |-> status.reply, code |-> status.reply \in ErrorReply]},
     ref |-> IF status.item THEN "item" ELSE "none"]
Wait(m) ==
    /\ projected[m].op \/ custodian = m
    /\ \/ custodian = m /\ UNCHANGED projected
       \/ custodian # m /\ ~Conflicts(projected[m].sel, custody) /\ Persist(m, custody)
    /\ \/ /\ custody.sel # "pending" /\ doc[m] = Absent
          /\ doc' = [doc EXCEPT ![m] = WaitDocument(custody)]
       \/ UNCHANGED doc
    /\ UNCHANGED <<custodian, custody, export, import>>

\* reconcileDurableReply: the body of the reply the local journal selects is
\* found in its destination, the journal takes it as the winner, and the
\* record that is added names no error code.
Reconcile(m) ==
    LET status == Local(m)
    IN /\ doc[m] # Absent /\ doc[m].records # {} /\ doc[m].ref = "none"
       /\ status.sel # "pending"
       /\ doc' = [doc EXCEPT ![m].records = @ \cup {[reply |-> status.reply, code |-> FALSE]},
                             ![m].ref = "turn"]
       /\ \/ custodian = m /\ custody' = Winner(status.reply, TRUE) /\ UNCHANGED projected
          \/ /\ custodian # m /\ UNCHANGED custody
             /\ projected' = [projected EXCEPT ![m].sel = Winner(status.reply, TRUE)]
       /\ UNCHANGED <<custodian, export, import>>

Export(id) ==
    /\ doc[id] # Absent
    /\ export' = [id |-> id, doc |-> doc[id]]
    /\ UNCHANGED <<custodian, custody, projected, doc, import>>

-----------------------------------------------------------------------------
(* ResolveWaitReference.                                                   *)

Move(p, r) == import' = [import EXCEPT ![p] = r]
End(p, result) == Move(p, [import[p] EXCEPT !.step = result])

StartImport(p, m) ==
    /\ import[p].step = "idle" /\ export # Absent
    /\ Move(p, [Unstarted EXCEPT !.step = "lookup", !.at = m, !.id = export.id,
                            !.file = export.doc])
    /\ UNCHANGED <<custodian, custody, projected, doc, export>>

\* verifyPortableRoutes: an endpoint the receipt names is not configured here.
NoRoute(p) ==
    /\ import[p].step = "lookup"
    /\ End(p, "unavailable")
    /\ UNCHANGED <<custodian, custody, projected, doc, export>>

\* portableReplyClaim: all records have to be the same.
Malformed(records) == \E c, d \in records : c # d
\* portableContentRefEqual: an export without a reference agrees with any.
RefsAgree(exported, stored) == exported \in {"none", stored}

\* The receipt is in this machine's journal.
LookupStored(p) ==
    LET q == import[p]
        stored == doc[q.id]
    IN /\ q.step = "lookup" /\ Home(q.id) = q.at
       /\ \/ ~RefsAgree(q.file.ref, stored.ref) /\ End(p, "conflict")
          \/ /\ RefsAgree(q.file.ref, stored.ref)
             /\ (Malformed(q.file.records) \/ Malformed(stored.records))
             /\ End(p, "malformed")
          \/ /\ RefsAgree(q.file.ref, stored.ref)
             /\ ~Malformed(q.file.records) /\ ~Malformed(stored.records)
             /\ Move(p, [q EXCEPT !.step = IF custodian = q.at THEN "reference" ELSE "status",
                                  !.claims = q.file.records \cup stored.records,
                                  !.stored = TRUE])
       /\ UNCHANGED <<custodian, custody, projected, doc, export>>

\* It is not: custody has to be on another machine.
LookupImported(p) ==
    LET q == import[p]
    IN /\ q.step = "lookup" /\ Home(q.id) # q.at
       /\ \/ Malformed(q.file.records) /\ End(p, "malformed")
          \/ ~Malformed(q.file.records) /\ custodian = q.at /\ End(p, "unavailable")
          \/ /\ ~Malformed(q.file.records) /\ custodian # q.at
             /\ Move(p, [q EXCEPT !.step = "status", !.claims = q.file.records])
       /\ UNCHANGED <<custodian, custody, projected, doc, export>>

Agrees(claim, status) == claim.reply = status.reply

\* RemoteJournal.OriginalStatus, or its failure; a claim is compared with a
\* selection, never used as one.
AskStatus(p) ==
    LET q == import[p]
        agrees == \A c \in q.claims : Agrees(c, custody)
    IN /\ q.step = "status"
       /\ \/ End(p, "unavailable")
          \/ custody # Pending /\ ~agrees /\ End(p, "conflict")
          \/ custody = Pending /\ q.stored /\ End(p, "reference")
          \/ /\ IF custody = Pending THEN ~q.stored ELSE agrees
             /\ Move(p, [q EXCEPT !.step = "persist", !.answer = custody])
       /\ UNCHANGED <<custodian, custody, projected, doc, export>>

PersistOriginalStatus_Claim(p) ==
    LET q == import[p]
    IN /\ q.step = "persist"
       /\ End(p, "reference")
       /\ \E s \in {q.answer} \cup { Winner(c.reply, FALSE) : c \in q.claims } :
             Persist(q.at, s)
       /\ UNCHANGED <<custodian, custody, doc, export>>
PersistOriginalStatus(p) ==
    LET q == import[p]
    IN /\ q.step = "persist"
       /\ \/ /\ ~Conflicts(projected[q.at].sel, q.answer)
             /\ Persist(q.at, q.answer) /\ End(p, "reference")
          \/ Conflicts(projected[q.at].sel, q.answer) /\ End(p, "conflict") /\ UNCHANGED projected
       /\ UNCHANGED <<custodian, custody, doc, export>>

ResolveWaitReference(p) ==
    \/ \E m \in Machine : StartImport(p, m)
    \/ NoRoute(p) \/ LookupStored(p) \/ LookupImported(p) \/ AskStatus(p) \/ PersistOriginalStatus(p)

PortableNext ==
    \/ \E r \in Reply : CustodyExpires(r) \/ CustodyCommits(r)
    \/ CustodyObserves
    \/ \E m \in Machine : Wait(m) \/ Reconcile(m)
    \/ \E id \in Id : Export(id)
    \/ \E p \in Importer : ResolveWaitReference(p)

PortableSpec == PortableInit /\ [][PortableNext]_portableVars

-----------------------------------------------------------------------------
(* A genuine export is refused for a cause only: reconciliation has given  *)
(* the receipt a second record or another reference since, custody selects *)
(* another reply or has strengthened its selection while the import ran,   *)
(* or this journal had taken a winner by itself (application.go:1011-1063). *)
SameWinner(sel, other) == sel.sel = other.sel /\ sel.reply = other.reply
RefusedForCause ==
    \A p \in Importer :
        LET q == import[p]
        IN q.step \in {"conflict", "malformed"} =>
              \/ Malformed(q.file.records)
              \/ Home(q.id) = q.at /\ (\/ Malformed(doc[q.id].records)
                                       \/ q.file.ref # "none" /\ doc[q.id].ref # q.file.ref)
              \/ \E c \in q.claims : c.reply # custody.reply
              \/ q.answer # Pending /\ q.answer # custody
              \/ projected[q.at].sel.sel = "winner" /\ ~SameWinner(projected[q.at].sel, custody)

(* A reference that was given names an operation the journal it is given   *)
(* on has, also when the answer of custody was lost on the way of another  *)
(* import or was pending (application.go:1064).                            *)
ReferenceHasItsRow ==
    \A p \in Importer :
        import[p].step = "reference" => projected[import[p].at].op \/ custodian = import[p].at

(* Whatever an export names, a journal takes a reply as the winner when    *)
(* custody selects it, and never otherwise but in one way: a reconciliation *)
(* in that journal makes the reply its row already names the winner        *)
(* (application.go:1054-1056; WinnerIsTheCustodians is about that way).    *)
TakesAWinner(m) == projected'[m].sel.sel = "winner" /\ ~SameWinner(projected[m].sel, projected'[m].sel)
ExportNeverSelects ==
    [][\A m \in Machine : TakesAWinner(m) =>
          \/ SameWinner(projected'[m].sel, custody)
          \/ Reconcile(m) /\ projected'[m].sel.reply = projected[m].sel.reply]_portableVars

(* The custodian alone selects the winner: a projection has no winner but  *)
(* the custodian's (application.go:1055: "The custody owner chooses the    *)
(* first committed original-scoped winner").                               *)
WinnerIsTheCustodians ==
    \A m \in Machine :
        (projected[m].sel.sel = "winner" /\ custody.sel = "winner") =>
            projected[m].sel.reply = custody.reply

(* An import gives a reference with its row, refuses for a cause only, and  *)
(* makes no reply the winner that custody did not select.                  *)
ImportsAreSound == [](RefusedForCause /\ ReferenceHasItsRow) /\ ExportNeverSelects
=============================================================================
