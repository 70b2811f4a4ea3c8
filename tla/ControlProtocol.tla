--------------------------- MODULE ControlProtocol ---------------------------
(***************************************************************************)
(* The metadata documents of mektup/control/v1: what RemoteJournal builds, *)
(* what the receiver accepts and answers, and what RemoteJournal decodes   *)
(* (sshproxy/control.go, controlreceiver/receiver.go,                      *)
(* service/remote_journal.go).                                             *)
(*                                                                         *)
(* A document is the set of the optional fields it carries and the few     *)
(* values the rules look at.  IDs, digests and URIs are well formed.  A    *)
(* timestamp is written with time.RFC3339Nano, which drops the fraction    *)
(* of a whole second, and read by validTimestamp, which demands one:       *)
(* `whole' holds the timestamp fields that fell on a whole second.         *)
(***************************************************************************)
EXTENDS Naturals

Authority == {"fencingToken", "lease", "requestedLease", "attemptOwner"}
Evidence  == {"replyMessageId", "replyStatus", "replyErrorCode", "bodyBytes", "bodySha256",
              "commitSeq", "eventSeq", "nativeItemId", "state"}
Content   == {"bodyBytes", "bodySha256", "replyStatus"}
Positive  == {"reply_accepted", "reply_observed"}

-----------------------------------------------------------------------------
(* Requests. *)

\* RemoteJournal.request: every operation on a reply starts from this one.
\* code: the reply declares an error code.
TupleRequest(op, code, whole) ==
    [op |-> op, status |-> IF code THEN "error" ELSE "success", whole |-> whole,
     has |-> Content \cup {"replyMessageId", "attemptOwner", "requestedAt"}
                  \cup IF code THEN {"replyErrorCode"} ELSE {}]

\* Heartbeat, CommitReply, AbandonReply: the cached claim request with the
\* token, and with the cached lease if there is one.
OwnerRequest(op, request, lease) ==
    [request EXCEPT !.op = op,
                    !.has = @ \cup {"fencingToken"} \cup (IF lease THEN {"lease"} ELSE {})]

\* ObserveVerifiedReply: evidence without authority.
ObserveRequest(request) ==
    [request EXCEPT !.op = "observe", !.has = (@ \ Authority) \cup {"nativeItemId"}]

\* status: identity alone.
StatusRequest(request) ==
    [request EXCEPT !.op = "status",
                    !.has = @ \ (Content \cup {"replyErrorCode", "attemptOwner"})]

\* OriginalStatus names no reply.
OriginalStatusRequest(whole) ==
    [op |-> "originalStatus", status |-> "none", whole |-> whole, has |-> {"requestedAt"}]

\* ValidateControlRequest: the fields of the document, checked on the raw JSON.
WellFormed(d) ==
    /\ ("replyMessageId" \in d.has) = (d.op # "originalStatus")
    /\ "replyErrorCode" \in d.has => d.status = "error"
    /\ d.whole \cap d.has = {}

\* ControlRequest.Validate: which operation may carry which authority.
Authorized(d) ==
    /\ d.op \in {"claim", "heartbeat", "commit", "abandon"} =>
          Content \cup {"attemptOwner"} \subseteq d.has
    /\ d.op = "claim" => d.has \cap {"fencingToken", "lease", "result"} = {}
    /\ d.op \in {"heartbeat", "commit", "abandon"} =>
          {"fencingToken", "lease"} \subseteq d.has /\ "requestedLease" \notin d.has
    /\ d.op = "observe" =>
          Content \cup {"nativeItemId"} \subseteq d.has /\ d.has \cap Authority = {}
    /\ d.op = "originalStatus" => d.has \subseteq {"requestedAt"}

ValidRequest(d) == WellFormed(d) /\ Authorized(d)

-----------------------------------------------------------------------------
(* Results, as the receiver builds them. *)

ClaimedResult(whole) ==
    [has |-> {"disposition", "state", "fencingToken", "lease"}, whole |-> whole,
     disposition |-> "claimed", state |-> "reply_dispatch_claimed"]
ExistingResult(state) ==
    [has |-> {"disposition", "state", "replyStatus", "commitSeq"}, whole |-> {},
     disposition |-> "existing", state |-> state]
HeartbeatResult(whole) ==
    [has |-> {"state", "lease"}, whole |-> whole, state |-> "reply_dispatch_claimed"]
CommitResult(state) ==
    [has |-> {"state", "wakeRecorded", "won"}, whole |-> {}, state |-> state]
AbandonResult ==
    [has |-> {"state"}, whole |-> {}, state |-> "reply_outcome_unknown"]
StatusResult(state) ==
    [has |-> {"state", "replyStatus", "replyErrorCode", "commitSeq"}, whole |-> {},
     state |-> state]
\* The reply is observed and an original with an observed reply has a winner.
ObserveResult(winner, seq, native) ==
    [has |-> {"state", "status", "provenance", "winner"}, whole |-> {},
     state |-> "reply_observed", winner |-> winner, seq |-> seq, native |-> native]
\* originalStatus; known: the winner's native item is known, and is `native'.
PendingResult ==
    [has |-> {"selection"}, whole |-> {}, selection |-> "pending"]
WinnerResult(reply, state, seq, native, known, code) ==
    [has |-> {"selection", "state", "commitSeq", "replyMessageId"} \cup Content
               \cup (IF known THEN {"nativeItemId"} ELSE {})
               \cup (IF code THEN {"replyErrorCode"} ELSE {}),
     whole |-> {}, selection |-> "winner", reply |-> reply, state |-> state, seq |-> seq,
     native |-> native]
UnknownResult(reply, code) ==
    [has |-> {"selection", "state", "eventSeq", "replyMessageId"} \cup Content
               \cup (IF code THEN {"replyErrorCode"} ELSE {}),
     whole |-> {}, selection |-> "terminal_unknown", reply |-> reply,
     state |-> "reply_outcome_unknown"]

-----------------------------------------------------------------------------
(* What the client takes for a result. *)

\* validateOriginalStatusResult and decodeCanonicalOriginalStatus agree.
ValidOriginalStatus(r) ==
    /\ "selection" \in r.has /\ r.has \cap (Authority \cup {"status", "winner"}) = {}
    /\ r.selection \in {"winner", "terminal_unknown", "pending"}
    /\ r.selection = "pending" => r.has \cap Evidence = {}
    /\ r.selection # "pending" => Content \cup {"state", "replyMessageId"} \subseteq r.has
    /\ r.selection = "winner" =>
          /\ r.state \in Positive /\ "commitSeq" \in r.has /\ r.seq > 0
          /\ "eventSeq" \notin r.has
          /\ r.state = "reply_observed" => "nativeItemId" \in r.has
    /\ r.selection = "terminal_unknown" =>
          /\ r.state = "reply_outcome_unknown" /\ "eventSeq" \in r.has
          /\ r.has \cap {"commitSeq", "nativeItemId"} = {}

\* decodeClaimResult, decodeLeaseResult, decodeMutationResult,
\* decodeObserveResult and status; AbandonReply decodes nothing.
DecodesClaim(r) ==
    /\ {"disposition", "state"} \subseteq r.has
    /\ r.disposition \in {"claimed", "existing"}
    /\ r.disposition = "claimed" => {"fencingToken", "lease"} \subseteq r.has
    /\ r.disposition = "existing" => r.has \cap {"fencingToken", "lease"} = {}
DecodesLease(r) == "lease" \in r.has
DecodesMutation(r) == "wakeRecorded" \in r.has /\ r.state \in Positive
DecodesObserve(r) ==
    /\ {"state", "status", "winner", "provenance"} \subseteq r.has
    /\ r.has \cap {"fencingToken", "lease"} = {}
    /\ r.state = "reply_observed" /\ r.seq > 0
DecodesStatus(r) == "state" \in r.has

\* validateControlResult, and then the decoder of the operation.
Usable(op, r) ==
    /\ r.whole \cap r.has = {}
    /\ op = "claim" => DecodesClaim(r)
    /\ op = "heartbeat" => DecodesLease(r)
    /\ op = "commit" => DecodesMutation(r)
    /\ op = "observe" => DecodesObserve(r)
    /\ op = "status" => DecodesStatus(r)
    /\ op = "originalStatus" => ValidOriginalStatus(r)
=============================================================================
