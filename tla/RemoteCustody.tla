---------------------------- MODULE RemoteCustody ----------------------------
(***************************************************************************)
(* Custody across machines: RemoteJournal (service/remote_journal.go) in   *)
(* the processes that deliver replies and in those that wait for them, the *)
(* control receiver (controlreceiver/receiver.go) of the custodian, and    *)
(* the custodian's journal, which is ReplyCustody unchanged.  A second     *)
(* journal, `l...', is the one of the machine whose processes wait.        *)
(*                                                                         *)
(* One control call is two steps: the receiver runs the transaction the    *)
(* document asks for and the answer leaves, and the answer is decoded      *)
(* (Return) or lost (Lose).  A document that is refused, lost or answered  *)
(* with an error changes nothing.  When a document is sent matters only    *)
(* through what its sender must know first, which it never unlearns, so    *)
(* sending and serving are one step.  A call is one SSH process; what      *)
(* happens in it is SSHProxy.                                              *)
(***************************************************************************)
EXTENDS ControlProtocol, FiniteSets

CONSTANTS
    Deliverer,     \* processes that deliver replies; also the claim owners
    Waiter,        \* calls of the processes of the waiting machine
    Thread,        \* concurrent calls of one deliverer
    Reply,         \* reply message IDs, and the native items of their bodies
    ErrorCode,     \* the replies that declare an error code
    None,
    Lease,         \* lease of a claim in ticks
    LocalSeq,      \* MAX(commit_seq) of the waiting machine's other originals
    WholeSeconds   \* can a timestamp fall on a whole second?

O == "original"    \* the one original all replies answer

VARIABLES
    \* the custodian's journal
    known, state, original, body, owner, left, seq, winner, winnerSeq, item,
    acceptances, receipt, granted, unknownAt, lastUnknown,
    \* the processes
    call,          \* call[s]: the control call of slot s
    cache,         \* RemoteJournal.claims[r] of deliverer d: lease held or not
    held,          \* the claims a deliverer was told the token of
    delivered,     \* replies whose body is in the destination's history
    \* the waiting machine's journal
    lstate, lseq, litem, lwinner, lwinnerSeq

ASSUME RemoteAssumption ==
    /\ Lease \in Nat \ {0} /\ LocalSeq \in Nat /\ IsFiniteSet(Reply)
    /\ None \notin Reply \cup Deliverer \cup {O, "declared"}

custody == <<known, state, original, body, owner, left, seq, winner, winnerSeq, item,
             acceptances, receipt, granted, unknownAt, lastUnknown>>
local   == <<lstate, lseq, litem, lwinner, lwinnerSeq>>
remoteVars == <<custody, call, cache, held, delivered, local>>

C == INSTANCE ReplyCustody WITH
        Original <- {O}, Holder <- Deliverer, Body <- {"declared"}, Item <- Reply, MaxStale <- 0

Slot == (Deliverer \X Thread) \cup Waiter
Idle == [step |-> "idle"]

RemoteInit ==
    /\ C!Init
    /\ call = [s \in Slot |-> Idle]
    /\ cache = [d \in Deliverer |-> [r \in Reply |-> "absent"]]
    /\ held = [d \in Deliverer |-> {}]
    /\ delivered = {}
    /\ lstate = [r \in Reply |-> "absent"]
    /\ lseq = [r \in Reply |-> 0]
    /\ litem = [r \in Reply |-> None]
    /\ lwinner = None
    /\ lwinnerSeq = 0

Timestamp(field) == IF WholeSeconds THEN {{}, {field}} ELSE {{}}

-----------------------------------------------------------------------------
(* The call: RemoteJournal builds the document, InvokeControl and the      *)
(* receiver refuse one that ValidateControlRequest does not accept, and    *)
(* Receive checks the tuple against the claim and applies the operation.   *)

Decided == C!Decided

Call(s, op, r, doc, result) ==
    /\ call[s] = Idle
    /\ ValidRequest(doc)
    /\ call' = [call EXCEPT ![s] = [step |-> "answered", op |-> op, reply |-> r,
                                   result |-> result]]
    /\ UNCHANGED <<cache, held, delivered, local>>
\* The transaction commits, but its answer is an error.
CallFails(s, doc) ==
    /\ call[s] = Idle
    /\ ValidRequest(doc)
    /\ UNCHANGED <<call, cache, held, delivered, local>>

ClaimRequest(r, whole) == TupleRequest("claim", r \in ErrorCode, whole)

\* A reply ID without a row is claimed; any other joins it, and an expired
\* claim is reported like one that is decided.
Claim(d, t, r) ==
    \E asked \in Timestamp("requestedAt"), leased \in Timestamp("lease") :
       \/ /\ C!ClaimNew(d, r, O, "declared", TRUE)
          /\ Call(<<d, t>>, "claim", r, ClaimRequest(r, asked), ClaimedResult(leased))
       \/ /\ \/ C!ClaimExisting(d, r, O, "declared")
             \/ state[r] = "reply_outcome_unknown" /\ UNCHANGED custody
          /\ Call(<<d, t>>, "claim", r, ClaimRequest(r, asked), ExistingResult(state'[r]))

\* Heartbeat, CommitReply and AbandonReply of a caller that was given the
\* token; claimFor refuses a reply without a cached claim.
OwnerDoc(d, op, r) == OwnerRequest(op, ClaimRequest(r, {}), cache[d][r] = "owner")
Owner(d, r) == r \in held[d] /\ cache[d][r] # "absent"

Heartbeat(d, t, r) ==
    /\ Owner(d, r)
    /\ C!Heartbeat(d, r)
    /\ \E leased \in Timestamp("lease") :
          Call(<<d, t>>, "heartbeat", r, OwnerDoc(d, "heartbeat", r), HeartbeatResult(leased))

\* A commit whose lease ran out expires the claim and is an error.
Commit(d, t, r) ==
    LET doc == OwnerDoc(d, "commit", r)
    IN /\ Owner(d, r) /\ r \in delivered
       /\ C!CommitReply(d, r)
       /\ \/ /\ state'[r] = "reply_accepted"
             /\ Call(<<d, t>>, "commit", r, doc, CommitResult(state'[r]))
          \/ state'[r] # "reply_accepted" /\ CallFails(<<d, t>>, doc)

Abandon(d, t, r) ==
    /\ Owner(d, r)
    /\ C!AbandonReply(d, r)
    /\ Call(<<d, t>>, "abandon", r, OwnerDoc(d, "abandon", r), AbandonResult)

\* WaitReply of a reply this process claimed or joined.
Status(d, t, r) ==
    /\ cache[d][r] # "absent"
    /\ Call(<<d, t>>, "status", r, StatusRequest(ClaimRequest(r, {})), StatusResult(state[r]))
    /\ UNCHANGED custody

\* ObserveVerifiedReply of a body found in the destination's history: the
\* claim must exist and be closed, and the answer names the winner.
Observe(w, r) ==
    /\ r \in delivered
    /\ C!ObserveReply(r, r)
    /\ \E asked \in Timestamp("requestedAt") :
          Call(w, "observe", r, ObserveRequest(TupleRequest("observe", r \in ErrorCode, asked)),
               ObserveResult(winner'[O], winnerSeq'[O], item'[winner'[O]]))

\* Journal.OriginalStatus expires what is due, then selects.
Selected(chosen) ==
    CASE chosen.selection = "winner" ->
           WinnerResult(chosen.reply, state'[chosen.reply], winnerSeq'[O], item'[chosen.reply],
                        item'[chosen.reply] # None, chosen.reply \in ErrorCode)
      [] chosen.selection = "terminal_unknown" ->
           UnknownResult(chosen.reply, chosen.reply \in ErrorCode)
      [] OTHER -> PendingResult
OriginalStatus(w) ==
    /\ O \in known
    /\ C!OriginalStatus(O) \/ (C!Due(0) = {} /\ UNCHANGED custody)
    /\ \E asked \in Timestamp("requestedAt") :
          Call(w, "originalStatus", None, OriginalStatusRequest(asked), Selected(C!Selection(O)'))

\* The body write of service.Reply.
Deliver(d, r) ==
    /\ r \in held[d] \ delivered
    /\ delivered' = delivered \cup {r}
    /\ UNCHANGED <<custody, call, cache, held, local>>

\* SSH, the process or the machine at either end fails after the transaction;
\* the caller is left with an error.
End(s) == call' = [call EXCEPT ![s] = Idle]
Lose(s) ==
    /\ call[s] # Idle
    /\ End(s)
    /\ UNCHANGED <<custody, cache, held, delivered, local>>

-----------------------------------------------------------------------------
(* Return: the answer is validated and decoded.                            *)

Answered(s, op) == call[s].step = "answered" /\ call[s].op = op
Good(s) == Usable(call[s].op, call[s].result)

\* ClaimReply remembers the claim, but a join never replaces an entry that
\* holds a lease.
Remember(old, joined) ==
    IF ~joined THEN "owner" ELSE IF old = "owner" THEN "owner" ELSE "joined"

ReturnClaim(d, t) ==
    LET s == <<d, t>>
        r == call[s].reply
        joined == call[s].result.disposition = "existing"
    IN /\ Answered(s, "claim") /\ Good(s)
       /\ cache' = [cache EXCEPT ![d][r] = Remember(@, joined)]
       /\ held' = IF joined THEN held ELSE [held EXCEPT ![d] = @ \cup {r}]
       /\ End(s)
       /\ UNCHANGED <<custody, delivered, local>>

\* Heartbeat stores the new lease in whatever entry is there by now.
ReturnHeartbeat(d, t) ==
    LET s == <<d, t>>
    IN /\ Answered(s, "heartbeat") /\ Good(s)
       /\ cache' = [cache EXCEPT ![d][call[s].reply] = "owner"]
       /\ End(s)
       /\ UNCHANGED <<custody, held, delivered, local>>

\* The others change nothing the deliverer reads later.
ReturnPlain(d, t) ==
    LET s == <<d, t>>
    IN /\ \E op \in {"commit", "abandon", "status"} : Answered(s, op)
       /\ Good(s)
       /\ End(s)
       /\ UNCHANGED <<custody, cache, held, delivered, local>>

\* A document that does not decode is an error like any other.
ReturnUnusable(s) ==
    /\ call[s].step = "answered" /\ ~Good(s)
    /\ End(s)
    /\ UNCHANGED <<custody, cache, held, delivered, local>>

\* importObservedWinnerTx, and the winner half of RecordObservedReplyAndWinner:
\* what makes the import an identity conflict, and what it stores.
Positives == { r \in Reply : lstate[r] \in Decided }
WinnerConflicts_AnyRow(r, n, native) ==
    lwinner \notin {None, r} \/ lstate[r] = "reply_outcome_unknown"
WinnerConflicts(r, n, native) ==
    \/ lwinner \notin {None, r}
    \/ lwinner = r /\ lwinnerSeq # n
    \/ lseq[r] \notin {0, n}
    \/ native # None /\ litem[r] \notin {None, native}
Strengthened(old, native) ==
    IF native # None THEN "reply_observed"
    ELSE IF old \in Decided THEN old ELSE "reply_accepted"

ImportWinner(r, n, native) ==
    /\ lstate' = [lstate EXCEPT ![r] = Strengthened(@, native)]
    /\ lseq' = [lseq EXCEPT ![r] = n]
    /\ litem' = [litem EXCEPT ![r] = IF native = None THEN @ ELSE native]
    /\ lwinner' = r
    /\ lwinnerSeq' = n

\* importTerminalUnknownTx.
UnknownConflicts(r) == lstate[r] \notin {"absent", "reply_outcome_unknown"}
ImportUnknown(r) ==
    /\ lstate' = [lstate EXCEPT ![r] = "reply_outcome_unknown"]
    /\ UNCHANGED <<lseq, litem, lwinner, lwinnerSeq>>

Refused(result) ==
    \/ result.selection = "winner" /\ WinnerConflicts(result.reply, result.seq, result.native)
    \/ result.selection = "terminal_unknown" /\ UnknownConflicts(result.reply)

\* Lookup persists what it was told before it answers; pending is not stored.
ReturnOriginalStatus(w) ==
    LET result == call[w].result
    IN /\ Answered(w, "originalStatus") /\ Good(w)
       /\ End(w)
       /\ \/ (result.selection = "pending" \/ Refused(result)) /\ UNCHANGED local
          \/ /\ result.selection = "winner" /\ ~Refused(result)
             /\ ImportWinner(result.reply, result.seq, result.native)
          \/ /\ result.selection = "terminal_unknown" /\ ~Refused(result)
             /\ ImportUnknown(result.reply)
       /\ UNCHANGED <<custody, cache, held, delivered>>

\* assignReplyCommitTx of the candidate, after the winner has its number.
MaxSeq(f) == CHOOSE n \in {LocalSeq} \cup { f[q] : q \in Reply } :
                \A m \in {LocalSeq} \cup { f[q] : q \in Reply } : m <= n
Numbered(r, v, n) ==
    LET f == [lseq EXCEPT ![v] = n]
    IN IF f[r] # 0 THEN f ELSE [f EXCEPT ![r] = MaxSeq(f) + 1]

\* RecordObservedReplyAndWinner: winner v with number n, candidate r.
RecordObservedReplyAndWinner(r, v, n, native) ==
    /\ lstate' = [lstate EXCEPT ![v] = Strengthened(@, native), ![r] = "reply_observed"]
    /\ lseq' = Numbered(r, v, n)
    /\ litem' = [litem EXCEPT ![v] = IF native = None THEN @ ELSE native, ![r] = r]
    /\ lwinner' = v
    /\ lwinnerSeq' = n
ObservedConflicts(r, v, native) ==
    \/ lwinner \notin {None, v}
    \/ r = v /\ native # r
    \/ native # None /\ litem[v] \notin {None, native}
    \/ litem[r] \notin {None, r}

ReturnObserve(w) ==
    LET r == call[w].reply
        result == call[w].result
    IN /\ Answered(w, "observe") /\ Good(w)
       /\ End(w)
       /\ IF ObservedConflicts(r, result.winner, result.native) THEN UNCHANGED local
          ELSE RecordObservedReplyAndWinner(r, result.winner, result.seq, result.native)
       /\ UNCHANGED <<custody, cache, held, delivered>>

-----------------------------------------------------------------------------
(* What the custodian's machine does by itself.                            *)

CustodianSteps ==
    /\ \/ C!PrepareOriginal(O)
       \/ C!ExpireClaims(0)
       \/ C!Tick
       \/ \E r \in delivered : C!ReconcileReplyAccepted(r)
    /\ UNCHANGED <<call, cache, held, delivered, local>>

RemoteNext ==
    \/ \E d \in Deliverer, t \in Thread, r \in Reply :
          \/ Claim(d, t, r) \/ Heartbeat(d, t, r) \/ Commit(d, t, r) \/ Abandon(d, t, r)
          \/ Status(d, t, r)
    \/ \E d \in Deliverer, r \in Reply : Deliver(d, r)
    \/ \E w \in Waiter : OriginalStatus(w) \/ \E r \in Reply : Observe(w, r)
    \/ \E s \in Slot : Lose(s) \/ ReturnUnusable(s)
    \/ \E d \in Deliverer, t \in Thread :
          ReturnClaim(d, t) \/ ReturnHeartbeat(d, t) \/ ReturnPlain(d, t)
    \/ \E w \in Waiter : ReturnOriginalStatus(w) \/ ReturnObserve(w)
    \/ CustodianSteps

RemoteSpec == RemoteInit /\ [][RemoteNext]_remoteVars

-----------------------------------------------------------------------------
(* Properties. *)

\* The variables of this module hold values of their types.
RemoteTypeOK ==
    /\ C!TypeOK
    /\ \A s \in Slot : call[s].step \in {"idle", "answered"}
    /\ cache \in [Deliverer -> [Reply -> {"absent", "joined", "owner"}]]
    /\ held \in [Deliverer -> SUBSET Reply]
    /\ delivered \in SUBSET Reply
    /\ lstate \in [Reply -> {"absent", "reply_outcome_unknown"} \cup Decided]
    /\ lseq \in [Reply -> Nat]
    /\ litem \in [Reply -> Reply \cup {None}]
    /\ lwinner \in Reply \cup {None} /\ lwinnerSeq \in Nat

\* What the waiting machine's journal says of replies is what custody said at
\* some time: never another winner or number, and nothing stronger than
\* custody holds ("an authoritative winner projection").
LocalAgrees ==
    /\ lwinner # None => lwinner = winner[O] /\ lwinnerSeq = winnerSeq[O]
    /\ lwinner # None => lseq[lwinner] = lwinnerSeq /\ lstate[lwinner] \in Decided
    /\ \A r \in Reply :
          /\ lstate[r] = "reply_observed" => state[r] = "reply_observed" /\ litem[r] = item[r]
          /\ lstate[r] = "reply_accepted" => state[r] \in Decided
          /\ lstate[r] = "reply_outcome_unknown" => unknownAt[r] > 0

\* SQLiteJournal.Lookup reports the positive claim with the least commit
\* number, and that is the winner although the numbers come from two journals.
LookupNamesWinner ==
    /\ Positives # {} => lwinner \in Positives
    /\ \A r \in Positives \ {lwinner} : lseq[lwinner] < lseq[r]

\* A process that was told the token of a claim can renew, commit or abandon
\* it for as long as it runs: a join of the same reply by another goroutine,
\* or a late answer, never costs it the lease the documents must carry.
OwnerKeepsLease ==
    \A d \in Deliverer : \A r \in held[d] :
       \A op \in {"heartbeat", "commit", "abandon"} : ValidRequest(OwnerDoc(d, op, r))

\* An answer of the custodian is refused as an identity conflict only when it
\* is an unknown outcome that stronger local evidence has overtaken.
RefusedOnlyIfOvertaken ==
    \A w \in Waiter : call[w].step = "answered" =>
       /\ call[w].op = "originalStatus" /\ Refused(call[w].result) =>
             call[w].result.selection = "terminal_unknown"
             /\ lstate[call[w].result.reply] \in Decided
       /\ call[w].op = "observe" =>
             ~ObservedConflicts(call[w].reply, call[w].result.winner, call[w].result.native)

\* Whatever the receiver answers, the client of the same version can use.
ResultsAreUsable ==
    \A s \in Slot : call[s].step = "answered" => Good(s)

\* The waiting machine's evidence only strengthens: an answer that was
\* overtaken on its way never takes back a reply, its number or the winner.
LocalStep ==
    /\ \A r \in Reply :
          /\ lstate'[r] # lstate[r] => <<lstate[r], lstate'[r]>> \in
                {<<"absent", "reply_outcome_unknown">>, <<"absent", "reply_accepted">>,
                 <<"absent", "reply_observed">>} \cup C!Strengthening
          /\ lseq[r] # 0 => lseq'[r] = lseq[r]
          /\ litem[r] # None => litem'[r] = litem[r]
    /\ lwinner # None => lwinner' = lwinner
LocalOnlyStrengthens == [][LocalStep]_remoteVars

\* What a machine away from custody records, reports and holds is custody's,
\* although answers of the control protocol are lost, late and overtaken
\* (service/remote_journal.go, journal/replies.go).
RemoteIsCustodys ==
    /\ [](LocalAgrees /\ LookupNamesWinner /\ RefusedOnlyIfOvertaken /\ OwnerKeepsLease)
    /\ LocalOnlyStrengthens
=============================================================================
