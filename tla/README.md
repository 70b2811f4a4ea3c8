# Formal models of mektup's delivery core

mektup delivers messages between Codex threads on several machines and keeps, for every
message, the *evidence* of what became of it: `not_sent`, `rejected`, `accepted`,
`outcome_unknown`, and for replies `reply_claimed`, `reply_accepted`, `reply_observed`,
`reply_outcome_unknown`. No user is helped by evidence that is wrong: a `not_sent` that was
sent makes an agent send twice, an `accepted` that was not makes one wait for ever. These
modules model the code that produces, moves and keeps this evidence: the journal
transactions, the commands that send, reply and wait over two journals, the control protocol
between machines, the JSON-RPC client and the ssh child below it, and the files and tables
in which everything is kept. Paths below are relative to `src/go/`.

## 1. Inventory

| component | state | operations | what is hard | what makes it correct |
|---|---|---|---|---|
| operation journal, `internal/journal/operations.go`, `journal.go` | `operations`, `attempts`, `events`, `manual_resolutions`, `operation_acceptances`, `receipts` | Prepare, MarkDispatchStartedOwned, HeartbeatAttempt, RecordResult, RecordAccepted, RecordManualResolution, ResolveWithReceipt, RecoverOrphans, ImportOperation | several processes on one database; leases and stale clocks; a COMMIT whose answer is lost; recovery racing the owner | the fence divides `not_sent` from what may have left; one token; evidence only gets stronger; tables agree |
| reply custody, `internal/journal/replies.go` | `reply_claims`, `reply_winners`, `observations`, `reply_acceptances`, receipts | ClaimReply, Heartbeat, CommitReply, AbandonReply, ExpireClaims, OriginalStatus, ObserveReply, Reconcile*, RecordObserved*, ImportTerminalUnknown | local and remote deliverers, waiters that expire claims while they poll, evidence that arrives in any order | first commit wins; a waiter sees pending, then one unknown, then a winner, never back |
| reply delivery, `internal/service/reply.go` | the local variables of one call, a heartbeat goroutine | prepare, claim, resume, fence, dispatch with one retry loop, check, commit or abandon, record | a failure or lost answer at every call, a crash between any two, the same reply ID on two machines | at most one body; every durable or reported state is true; the waiter is released |
| send delivery, `internal/service/service.go`, `internal/messageexecutor/` | as above, without a claim; a receipt | prepare, resume, fence, dispatch, back off, classify, record, detach, store the receipt, show it | a refused, lost or late answer; recovery of an operation whose sender is slow | nothing is sent twice, said that is not so, or shown before it is stored |
| waiter, `internal/service/wait.go`, `journal_adapter.go` | subscription, cached status | WaitReply, history, live events, ticker | three sources of one answer in any order | the answer of the custodian; no item missed in silence; it ends |
| control receiver, `internal/controlreceiver/`, documents in `internal/sshproxy/control.go` | one opened journal | claim, heartbeat, commit, abandon, status, observe, originalStatus | a control call that is repeated, delayed or answered to nobody | a call means the transaction it names, and its result can be read |
| remote custody client, `internal/service/remote_journal.go` | claims in memory, a local projection of remote winners | the custody operations through control, then the local import | the remote call commits and the local import fails | the projection agrees with the custodian |
| app-server client, `appserver/client.go` | command, read and event queues, five ID sets, pending calls | Call, Notify, withdraw, pump, readLoop, finish, NextEvent, Close | four kinds of goroutine over bounded channels and three mutexes | "proven before write" is proven; a response reaches its call; losses are counted; everybody returns |
| WebSocket transport and SSH proxy, `appserver/transport.go`, `internal/sshproxy/`, `internal/sshtransport/` | a child process, its pipes, phases and deadlines | Dial, Read, Write, Close, cancel, InvokeControl, InvokePreflight | cancel and deadlines race Write for the evidence; a child that does not go | "not started" only before the first byte; no child is left |
| connection and runtime, `internal/connection/`, `internal/runtime/` | one session per endpoint, leases, gates | session, subscribe, unsubscribe, Close, isolated reads | sessions open outside the mutex while Close runs | one connection, a subscription under each lease, everybody returns |
| original lookup, `internal/runtime/original*.go`, `internal/codexapi/api.go` | none that lasts | indexed search, read of its candidates, bounded scan | the thread grows and the index lags | "not found" and "this one" are proved |
| receipts, `internal/receipts/`, `internal/journal/receipts.go` | receipts | Put, merge, Show, Reconcile, Resolve, ListPage | put, then transition, then rollback; the write at the end of a command | a receipt never claims more than the rows |
| portable receipts, `internal/application/application.go` | imports | export, ResolveWaitReference | three machines | no export and no wait selects a winner |
| retention and blockers, `internal/journal/storage.go`, `blockers.go` | all tables | StorageMaintain, StorageCheck, UpsertBlocker | rows that refer to each other age separately; a reply that lost may be younger than the winner | no live relationship loses a row |
| schema migration and store identity, `internal/journal/journal.go` and its neighbours | schema, store ID, the file itself | acquire, migrate, agree on an identity | several processes open one store; the file is exchanged; a damaged schema | a migration happens whole or not at all; one identity; the file that was checked |
| shared files, `internal/endpoint/`, `internal/controlreceiver/registry.go` | three JSON files under advisory locks | add, remove, identify, register, resolve | two processes; deaths | no lost update, no name used twice |
| artifacts, `internal/artifact/artifact.go` | files | spill, RPC output | one name, several writers, deaths | a published file is whole; nothing is overwritten unasked |
| event sequencer, executor, CLI, envelopes, addresses, logging, doctor, test tools | none that interacts | counting, parsing, wiring, formatting | | |

How they interact: a command runs in a process of its own and opens the journal of its machine
(`SQLiteJournal`). A reply is claimed at the *custodian*, the journal of the machine that sent the
original: the same database when both are on one machine, otherwise through an SSH control
call that the custodian's `controlreceiver` turns into one transaction. A body is submitted
through an `appserver.Client`, over a socket or an ssh child, to the destination's app-server.
Waiters are further processes that poll the custodian and read the destination's thread. So the
shared state is the databases and a few files; every process is lost at once when it crashes;
nothing but a lease tells the others.

The hazards that follow from this are listed, each at its line, in `PROJECT.json`.

## 2. The modules

    OperationJournal <-- OperationJournal_proofs      ReplyCustody_proofs
        ^                                                  |
        | Local        Custody                             v
    ReplyDelivery ---------------------------------> ReplyCustody --INSTANCE--> OriginalOutcome
        ^                                                  ^                    (abstract register)
        |                                                  |
    ReplyDelivery_proofs     ControlProtocol <--EXTENDS-- RemoteCustody (INSTANCE C)

    AppServerClient <-- AppServerClient_proofs      SSHProxy, RemoteCustody <-- Remote_proofs
    SendDelivery, ConnectionPool, WaitService <-- Waiting_proofs
    StoreOpening, Retention, ReceiptStore, PortableWait <-- Storage_proofs
    ReceiptListing, OriginalLookup, Registries, Artifacts <-- Records_proofs

    commands    SendDelivery  WaitService  PortableWait  ReceiptStore  OriginalLookup
    processes   AppServerClient  CommandSpace  SSHProxy  ConnectionPool
    storage     ReceiptListing  Retention  Registries  StoreOpening  Artifacts

`MC_*` modules give the constants values. `MC_Records`, `MC_ReplyCustody`, `MC_Remote` and `MC_Waiting` check several
modules, or several cuts of one, in one run: a variable `which` names the part whose steps a behaviour
takes, and the other parts stay as they are. The parts share nothing, so the states of such a run are the sum
of the states of its parts, not their product. `MC_ClientRuns` does the same with the variable `use` of
`AppServerClient`, which holds the `Options` and the users of one client and never changes.

**OperationJournal** has one action per transaction of `operations.go`. `withTx` begins
IMMEDIATE, so transactions of different processes interleave and never overlap; one that
returns an error is rolled back and is a stuttering step. A row's `state` is `opState`,
`dispatch_started_at` is membership in `fenced`, the `attempts` row is `owner`, `attemptState`
and `left`. `left` is `lease_until - now`: time is relative, so no clock grows without bound.
`granted[i]` is not in the database: it says whose caller was handed the dispatch token, and
lets `Prepare` commit while nobody learns the token. `RecoverOrphans` takes its clock before
BEGIN and so acts with a clock up to `MaxStale` ticks old. `meta` stands for the identity
columns other than the message ID; their comparison is a comparison of model values.

**ReplyCustody** is the same for `replies.go`. `assignReplyCommitTx` (`MAX(commit_seq)+1`, `INSERT OR
IGNORE` of the winner) is `AssignReplyCommit`, used by every transaction that decides a reply.
`expireClaimTx` is `ExpireAll`; it writes events, and of those only the order of the unknown
ones is kept (`unknownAt`), which is what `OriginalStatus` reads. `Selection(o)` is what a read of
an original answers.

**OriginalOutcome** is what a waiter relies on: a register per original that is pending, may
name one reply of unknown outcome, and is final once it names a winner.

**ReplyDelivery** composes an instance of each: `Local`, one row per machine and operation ID,
and `Custody`. `pc[i]` names the next journal call of one run of `Service.reply`; each call
commits and answers, commits and loses its answer, or fails without effect. `Dispatch` is
`dispatch` with the rounds of `retryNotSubmitted`, its environment being the five things that can
become of a submission. Heartbeat, crash, the waiter's poll and the clock run beside it. One
clock moves both leases: the two databases are on two machines, and the model assumes
that their clocks run at one rate (they need not show the same time). Its `TypeOK` and that of
`SSHProxy` say what values the variables take; no run repeats them.

**ControlProtocol** describes control documents and results by the fields they carry (`has`, and `whole` for a
timestamp without a fraction) and says which documents the receiver accepts and which results the client
takes. **RemoteCustody** runs `ReplyCustody` behind that protocol: one control call is a step that sends and
serves the document, and a step that decodes its result or loses it. It has the claim cache of
`RemoteJournal` (`cache`, `held`) and the rows of the machine whose processes wait (`lstate`, `lseq`,
`litem`, `lwinner`), which the imports of `replies.go` move.

**SendDelivery** is one `Send` of the command line: prepare, resume, fence, dispatch with backoff,
classification by what `codexapi/errors.go` makes of an answer, record, detach, store the receipt, show it.
The journal may fail at each call, the process may die, and `RecoverOrphan` may close the operation of
a sender whose lease ran out while it still works.

**WaitService** is `Service.Wait` with its two goroutines (`reader`, `scan`), the bounded event channel, the
ticker and the polling that follows a gap. Custody is kept there only as far as Wait tells its states
apart; deliverers and the thread are the environment.

**AppServerClient** has callers (`pc`), the pump (`pump`), the reader (`reader`) and the consumer; a
step is one channel operation or one critical section. A notification is a call without an ID. `finish` is
split where another goroutine can come between: pending calls, each queued command, the frames, the test and
the receive of the event eviction, the terminal events. The pump's select is a choice between
`PumpRequest`, `PumpNotify`, `PumpCancel`, `PumpResponse`, `PumpNotice` and `PumpEnds`. `pendingCall.phase` is
not a variable: the pump writes synchronously, so a pending call outside a write has phase `WriteComplete`.
Byte budgets are a choice to refuse. **CommandSpace** looks inside `Enqueue`, whose waiting `AppServerClient`
takes for granted: one token in a channel for any number of sleepers.

**SSHProxy** is one ssh child with its pipes, reaper, collector and `close`, and above it either a
connection (`Dial`, the dial guard and handshake of `transport.go`, `Read`, `Write` of a message of several
fragments, deadlines, `cancel`, `pump`) or a control call. The process may write, stall and exit whenever it
likes, except that one that was killed exits.

**ConnectionPool** is one endpoint's pooled session with subscription leases and the gate per thread, and
the sessions isolated reads open for themselves. A step is one critical section of `p.mu`, one wait, or one call to
the app-server.

**OriginalLookup** is the search for the original of a reply over a thread that grows and an index that
lags. **ReceiptStore** is the receipts of one message and the commands that load, reconcile, resolve and
store them back; **ReceiptListing** a walk through all receipts, page by page. **PortableWait** is a wait
on an exported receipt, on three machines. **Retention** is `StorageMaintain` beside the writers of the
rows: an original is routed `here`, with claims, heartbeats, late and competing replies, or `away`, with the rows that
are imported from its custodian; every reply that comes through is a positive row, and `Elect` leaves the first the winner. **Registries** is the three shared files under their locks. **StoreOpening** is the opening of one
journal by two processes: a schema is described by the things the versions
added (`has`), and a migration by what it adds, demands and repairs. **Artifacts** is one name of the artifact store, at the level of
system calls.

A definition `X_Fault` (and `MoveSilently`) before a definition `X` is `X` with a plausible bug; no
specification uses it. `PROJECT.json` names for every checked property the fault that breaks it.

## 3. What is checked

| run | modules | bounds | states |
|---|---|---|---|
| operations | `OperationJournal`, `ReceiptStore`, `ReceiptListing`, `Retention`, `Registries`, `StoreOpening`, `Artifacts`, `PortableWait`, `OriginalLookup` | 2 operations, messages, metas, owners, Lease 2, MaxStale 1; 2 commands; 6 receipts, pages of 2; clock to 2 or 3; 2 processes each at files, store and artifacts; 2 replies; threads of 3 turns | 1.1 million |
| custody | `ReplyCustody` in two cuts | 2 replies to 2 originals; 3 replies to 1; Lease 1, MaxStale 1 | 0.4 million |
| delivery | `ReplyDelivery` over both journals | 3 invocations of one reply ID on 2 machines; Lease 2, MaxTries 2, MaxStale 0 | 0.4 million |
| client | `AppServerClient` in four uses | 2 calls with own IDs and a queue of 1; 2 calls with one ID and queues of 2; a call and a notification; 1 call, 3 notices, event queue 1+2 | 0.4 million |
| remote | `SSHProxy`; `RemoteCustody` with `ControlProtocol` | a connection that writes 1 message of 2 fragments, one that reads 2 chunks, a control call; 2 replies seen through control by a deliverer and two calls of a waiting machine | 0.7 million |
| waiting | `WaitService`, `ConnectionPool`, `SendDelivery`, `Registries`, `CommandSpace` | 1 reply; 2 users, 2 threads, 2 sessions; pages of 4; 1 sender, 2 tries; 2 processes; 4 callers at a queue of 1 | 0.1 million |
| orphan | `ReplyDelivery` | 2 invocations on 2 machines | finding 1 |
| client_eof, client_disconnect | `AppServerClient` | 1 call, 2 notifications | findings 2, 3 |
| control_lease | `RemoteCustody` | whole-second leases | finding 4 |
| receipt_write_back | `ReceiptStore` | 2 commands | finding 5 |
| portable_winner | `PortableWait` | 1 importer, 2 replies | finding 6 |

What the properties say, by run:

* **operations**. `FenceDividesEvidence`: `not_sent` and the decided states lie on the two sides of the
  fence. `AuthorityIsSingle`: one token, one operation per message, nothing from an import.
  `EventsExplainState`, `ResolversAgree` and `EvidenceOnlyStrengthens` relate rows, events, what callers were
  told, and successive states. `ReceiptsAreTrue`: nothing is called accepted without the body in the
  thread, nothing a command added is lost to an older copy, two resolvers leave one assertion, and a
  reported success is in the journal. `WalkIsASnapshot`: pages show what was there when the walk began, once each.
  `PruningIsSafe`: no dangling row; nothing goes before its time, an operation not before every reply to it, the losing
  ones too, is positive and old, and a reply with its operation only; no blocker reopened. `RegistriesAreSound`: no
  lost entry, no file that cannot be loaded, stable identities, the right store. `OpensTheRightFile` and
  `MigrationIsSafe`: one identity, the checked file, whole migrations, refused damage. `ImportsAreSound`: a
  reference has its row, a refusal its cause, and a journal takes a winner only if custody selects it or, the way of
  finding 6, by reconciling the reply its row names. `SpillsAreWhole`, `LookupIsSound`: see their modules.
* **custody**. `CommitOrderDecides`: the winner is the first commit and the receipt shows it.
  `ClaimsAreFenced`: an expired claim becomes positive by evidence only; a token is one deliverer's.
  `StatusIsNeverCorrupt`: `OriginalStatus` never meets rows it refuses. `OutcomeSpec`: custody implements
  `OriginalOutcome`.
* **delivery**. `AtMostOnceBody`, `EvidenceIsTrue` (durable evidence against the thread, and a committed
  reply was delivered), `ReceiptIsTrue` (what the caller is told), `FenceUnderLiveClaim`, and
  `ClaimIsClosed` (liveness).
* **client**. `NotWrittenIsProven`: "proven before write" only if no byte ever crosses, for calls and
  notifications; `ResponseIsOwn`; `StreamIsAccounted`; `CanceledCallReturns` (liveness).
* **remote**. `ReportsAreTrue`: what is said of bytes written, read and answered is true of the whole
  message. `NoChildIsLeft`: every child is closed, reaped, and its callers return (liveness).
  `RemoteIsCustodys`: what another machine records is what custody said at some time, the
  reply a lookup names is the winner although the numbers come from two journals, a deliverer keeps
  the lease its documents need, and an answer that was overtaken takes nothing back.
* **waiting**. `WaitMissesNothing` and `WaitsEnd`; `PoolIsSound`: an open session has somebody who will detach it, an endpoint
  has one pooled connection, a lease keeps its subscription, and an isolated read uses a living connection and calls only a
  single entry too large; `SendIsTrue`: one body, true
  evidence in journal and receipt, nothing shown before it is stored; `CallersReturn`: nobody stays at a
  gate, a lock, the command queue or a silent server, and Close leaves no connection.

Why the bounds are enough to show something. Two operations and two messages are the
least with which two rows can fight for a message; `Lease = 2` lets two leases differ and a
heartbeat matter; `MaxStale = 1` makes the stale clock of recovery and expiry differ from now.
One reply ID and three invocations give a joiner on the same machine, a joiner on another, and a
crash of either; two originals make the journal-wide commit order differ from the
order per original; three replies to one give a winner, a loser and an
unknown at once. A queue of one makes every send block at some time; queues of two leave the late cancel
of one call behind the request of another. Two fragments are the least with which a message can be half
written, two chunks the least with which one can be lost before the end. Two writers of one file, name
or store make every read-modify-write race. Two tries are a retry that may be wrong; a listing of six
with pages of two has a page in the middle. Four callers at a queue of one leave two asleep, one of which
may give up with the token. No run uses a state constraint except the cuts its MC module names, each beside its reason:
in `custody` contention has no receipts; in `remote` the second waiter only asks what is selected, and a deliverer
has no call open while others move; in `operations`
a retained operation has a receipt or a second claim, and a database with replies is opened by one process; in `delivery` the
first to begin of two like invocations is `i1`; in `client` two calls with their own IDs run without Close
and half-open transports, which the other uses have; in `waiting`
the pool's users and its readers, who share nothing but `closed`, do not move in one behaviour. Every counter
ends of itself: tries, notices and clocks at their constants, leases at `-MaxStale`, commit
positions and unknown events at the number of replies.

`CHECK_DEADLOCK FALSE` is set throughout because these systems do stop: once every operation is
decided, every claim closed, every invocation has returned, or the pump has stopped, no
step is left that changes anything. That something which should happen does happen is what
the liveness properties are for.

**Fairness.** `ReplyDelivery`: every call of `reply` runs under a deadline (`deliveryContext`,
`custodyContext`), so an invocation that has not crashed takes its next step; the waiter polls on
a ticker; time passes. Nothing makes a heartbeat arrive or a process crash. `AppServerClient`: a goroutine
with something to do runs; a transport's Write returns, because callers give it a context with a deadline; a
closed transport makes Read fail; the consumer, where there is one, keeps reading. Nobody is obliged to
call, cancel, close or answer. `SSHProxy`: a killed process exits, and goroutines whose pipe or channel is
ready run. `WaitService`: goroutines run, a deadline that was given passes, a read of a stopped history
returns. Two steps have strong fairness: the ticker's read of custody and the successful poll, for a ticker
fires again and again while the select may choose another case each time and a read may fail now and then. `Registries`: a
process that waits for a lock which is free again and again gets it (strong), for the kernel wakes
who waits in `flock`. `ConnectionPool`, `SendDelivery`, `CommandSpace`: goroutines run, deadlines pass. Everything else is weak
fairness.

### Findings

1. *orphan*: `docs/architecture.md` says orphaned attempts are recovered; `RecoverOrphans` has no
   caller outside the tests, so the row of a crashed process stays open. Its safety is
   checked all the same (`operations`), as is that the reply's *claim* does close (`delivery`).
2. *client_eof*: `finish` tests `len(c.events)` and then receives. A consumer that takes the last
   event in between leaves the pump blocked for ever: no disconnect event, no EOF.
3. *client_disconnect*: the reader gives up on publishing a terminal read error after one second.
   If the pump is in a slow Write with the read queue full, nothing tells it that reading has ended.
4. *control_lease*: the receiver formats a lease with `RFC3339Nano`, which drops a fraction of zero; the
   client and the published schema demand a fraction. Such a claim is granted and cannot be used until it
   expires.
5. *receipt_write_back*: `CloseWithResult` stores the receipt a command loaded once more. The merge keeps
   evidence, resolution and content of the newer row and takes the older `state`, so that a receipt another
   command resolved meanwhile goes back to `outcome_unknown`. The journal's operation is not affected.
6. *portable_winner*: reconciliation assumes that the journal it runs on is the custodian's. On the
   sending machine of a remote original that journal is a projection; reconciling an unknown reply there makes it
   the winner although the custodian has committed another.

Noted, and not a run of their own:

* `client.go:1162`: a cancel command names a request ID, so that with IDs that are used again a written
  request can be reported proven-before-write. No caller in this repository reuses an ID on a connection,
  and `NotWrittenIsProven` is about calls whose ID no other call has (`OwnId`).
* `wait.go`: an item that was put off because its claim was open is not looked at again when the claim is
  reported unknown by a poll (`UnknownWasNotFound`), although `docs/architecture.md:114` says that
  current turns are revisited.
* `replies.go:641`: `Journal.Wait` names the unknown reply with the smallest ID where `OriginalStatus` names the
  one with the earliest event. It has no caller outside its tests.
* `proxy.go:444`: `cancel` records a phase it read before a Write was admitted (`CanceledBeforeWrite`). The
  path that would report it is not reached from the callers in this repository.
* Retention: a receipt that is updated later than its operation never becomes old enough to go, and an open
  blocker whose observer died is never pruned.
* Shared files: a Codex home that is moved and linked from its old place makes the file of built-in identities
  unloadable; one that is gone while another process writes loses its identity, although
  `builtin.go:289` says that such entries are retained (the runs therefore leave "vanished" out of `Places`);
  `endpoint remove` by an alias leaves a default that names the endpoint by ID (`config.go:323`).
* Store opening: of two processes that create the file at once the loser of `O_EXCL` fails instead of
  opening it; a version 3 journal with ambiguous evidence is refused for ever; a busy COMMIT
  of a migration is not retried.
* An export keeps neither the error code of a reply nor, from some writers, the turn of an item, so that
  genuine exports may be refused (`RefusedForCause` names the causes).

## 4. What is proved

The proof modules hold for any number of operations, messages, owners, originals, holders and
invocations, any lease and staleness, any number of tries, any calls, request IDs and queue lengths, and any finite
set of replies. They start from the named assumptions of the modules: `LeaseAssumption` (leases are
positive), `ReplyAssumption` (the replies of a journal are finitely many), `JournalAssumption` (the same of the two
journals in `ReplyDelivery`), `InvocationAssumption` (who shares a reply ID on a machine delivers the same reply),
`TriesAssumption` and `MaxTriesAssumption` (a bound on tries is a number), `PoolAssumption` (users are finitely many,
no user is a reader, a page has a place), `ListingAssumption` and `LookupAssumption` (bounds are numbers, a page has
a place), `RegistryAssumption` (`"none"` is no process, and at most one endpoint is configured at the start),
`OpeningAssumption` (a generated store ID is neither empty nor the legacy one), `RetentionAssumption` (times are numbers),
`SpillAssumption` (`"old"` and `"none"` are no writers, and what they may be asked to do), `UseAssumption` (what
`Options` may be), `UsesAssumption` and `SizeAssumption` (what a child is started for; a message has a fragment and
the read queue a place), `NoneAssumption` (`None` is nobody and nothing), `PortableAssumption` (`Absent` is neither
a reply nor a receipt), `WaitAssumption` (no reply is one of the other things that a goroutine, a channel or an answer
may hold; a capacity is a number) and `RemoteAssumption` (as `LeaseAssumption` and `ReplyAssumption`, for the custodian of
`RemoteCustody`). TLC evaluates all of them.

**OperationJournal_proofs** proves every property of `OperationJournal` that the `operations` run checks. The
invariants are not inductive one by one: that `RecoverOrphans` may write `not_sent` for a prepared row rests on
`attemptState` mirroring `opState` and on `fenced`; that a told assertion is the stored one rests on
unresolved rows having nothing stored (`UnresolvedIsBlank`); uniqueness of messages rests on absent
rows being blank (`AbsentIsBlank`). `IInv` is their conjunction; `MoveToEffect` says
once what the shared UPDATE triple does, each transaction has a lemma, and `NextIInv` collects them.
`Strengthens` proves the action property from `IInv`.

**ReplyCustody_proofs** proves all state invariants of `ReplyCustody`. The core of its `IInv` is
`OrderInv`: positions belong exactly to decided claims and are unique, so the position
`MAX + 1` is later than every winner's; and `EventInv`, the same for unknown events, whose
clause that an open claim has no unknown event makes a selected unknown reply stay the earliest.
`AssignEffect` and `ExpireEffect` describe the two shared helpers, and steps that only move a
lease, only close claims or only decide one reply are proved once per kind. `Strengthens` proves
`EvidenceOnlyStrengthens`: no transaction takes back a decision, a position, a winner, an item, what a receipt shows (`NextKeepsReceipts`) or an identity.
Its last part proves that `ReplyCustody` implements `OriginalOutcome` under the mapping
`outcome <- Selection` (`CustodyImplementsOutcome`). Steps are quiet (selection unchanged), closing or deciding; for closing
steps `EarliestUnique` shows that the `CHOOSE` in `EarliestUnknown` has one value,
and `EventInv` that newly closed claims come later.

**ReplyDelivery_proofs** proves the four safety properties of `ReplyDelivery`. First `ImplementsLocal` and
`ImplementsCustody`: every step of the composition is, for either journal, one of its own steps or none
(`LocalStep`, `CustodyStep`), so that the invariants of the two earlier modules hold of the instances as they
are (`JournalInv`). On top of them `IInv` relates the invocations to the rows. `OwnsRow`: an invocation
at work owns the attempt of its machine, whose row is on the side of the fence its `pc` says, and from `resume` on it
holds the claim; rows and claims have one owner each. `CopiesInv`: a body that was admitted left under the fence and the claim of
its sender, once. `TriesInv`: tries are counted within their bound. `VerdictInv`: the verdict of a dispatch is true of
the body, and `accepted` is recorded only after the claim was committed. `ResultInv`: the same of what
the caller was told, and nobody can submit the body any more after `not_sent` or `rejected`. `LeaseInv`: the
attempt's lease, which began first, ends before the claim's, from which `FenceUnderClaim` follows. A step moves one invocation; `Moved` says what it may change, `Undisturbed` and `Grows` that the rest of the
invariant carries over for all others, and each program location has a lemma of its own.

**AppServerClient_proofs** proves the four state invariants of the `client` run. `QueueOK` types the queues.
For `NotWrittenIsProven` the question is where the command of a call is. `PlaceInv` says that there is one copy
of it, in the queue, popped, being written or pending, and that the marker in `queued` says so; `ProofInv` says for
each place what the three channels to the caller (result, acknowledgement, withdrawal phase) may hold, and that a
call which was told "not written" while its command is still queued is in `withdrawn`, so that the pump will
drop it. Both are about calls whose ID no other request has; `NotifyInv` says that notifications are never told
"not written" at all. For `ResponseIsOwn`, where IDs are used again, `PendingInv` says that pending calls have
different IDs and that, as long as the pump takes responses, each response in the read queue is to a pending
call. For `StreamIsAccounted`, `flow` is what NextEvent has returned followed by what is queued: eviction takes an
element out of its middle, NextEvent moves its boundary, and `FlowInv` says that it is always the kept
notifications and, once closed, the terminal evidence; `OrderInv` that their numbers rise through `flow` and the
read queue. Each invariant has a lemma that the next step preserves it, with one case per action.

**Waiting_proofs** proves three properties of the `waiting` run. `SendTrue`: the journal's evidence, the receipt and the print
are written at three times, from a verdict that is formed at a fourth, while the request may still be on its way. The
invariant says for each point of a `Send` where the body can be (`BodyInv`), on which side of the dispatch fence
the operation is (`FenceInv`), what the `Send` knows (`VerdictInv`: only in a call, or after a crash in one, may its verdict be
that of the try before, and where it records, it has one), that the receipt follows the verdict
and the print the receipt (`StoredInv`), and that what is left open was reported (`CleanInv`). One sender moves at a time;
`Stays` says what keeps the invariant of the others. `OutcomeFinal`, the action part, follows from the same invariant.
`PoolSound`, for any number of users, readers,
threads and sessions: a lease is kept by three variables that different critical sections write: the counter `leases`, the
`subscribed` pairs and what the users believe (`lease`, `hand`). Sessions are opened and joined outside `p.mu`, and `Close` may
come at any point between. `GateInv`: whoever resumes or unsubscribes a thread is inside its gate. `OpeningInv`: one user
opens, into an empty pool. `HandInv`: the session in a user's hand is the pooled one unless it
is about to be discarded, or the pool is closed. `OwnerInv`: an open session is pooled, listed for `Close`, or in the hand of
who opened it. `CountInv` bounds `leases[t]` by the number of users: at least those that hold a lease on `t` (`Holders`), at
most those that took one (`Takers`); it is not enough to count one side, because `Close` zeroes the counter under the holders'
feet and a later release must not go below zero. `LeaseInv`: a counted lease is a subscription of the pooled session, and
nobody resumes or unsubscribes a thread that is leased. `ReaderInv` follows the connection of an isolated read. Each user
action has an effect lemma that says what it changes; each part of the invariant then has one lemma over all of them.
`WaitingMissesNothing`: `FlowInv` says that, as long as Wait hears its stream, each item that landed in the thread is in one
of the places it passes on its way (the stream, the reader, the event channel, the list and the hand of the loop, the
marks of what was seen or put off), or among what the history has still to tell; an item that lands between the subscription and
the history may be in two of them and is never in none. `HandsInv` says when these places are empty. `CustodyInv` says that
what a read told is what custody decided; it stays true, because a winner stays and an unknown reply only improves
(`CustodyKeeps`), so that it may be answered after any number of steps of the deliverers.

**Remote_proofs** proves two properties of the `remote` run and the safety part of the third. `ReportsAreTrue`, and that no
child is left (`DialLeavesNoChild`): `OneSide` says that the
side a child was not started for stays as it was, so that the rest is about `Dial` or about control calls.
`WriteInv` relates the Write to its pipe: no pipe is busy between messages, nothing was said of a message while a fragment of it is
in the pipe, and only an idle Write has said "not started" or "complete". `ReadInv` says where each chunk that was read
is: delivered, queued, or in the pump's hands; only a pump that has ended may have dropped one, and then no end of
stream is queued. `ControlInv` makes the evidence of a control call follow the pipe of its document. `Bounds` counts the
chunks for `TypeCorrect`.
`RemoteIsCustodys`, for any number of deliverers, waiters and concurrent calls: every control call is a transaction of
`ReplyCustody` (`CallsCustody`, `RemoteImplementsCustody`), so that custody's invariant and its `StepStrengthens` hold of
the custodian. `CallInv` says of each answer on its way that what it tells of winner, number, item or unknown outcome
is so; `TrueStays`, that it stays so until the answer arrives, because custody takes none of it back. `LocalInv` says that the rows
of the waiting machine are copies, that exactly the positive ones are numbered, and that the winner, whose number is
custody's, comes before the others, whose numbers are local (`MaxSeqIsLast`); hence no import conflicts except an unknown outcome with
stronger local evidence (`WinnerAgrees`, `ObservationAgrees`). `CacheInv`: who was told a token has an entry with a lease.

**Records_proofs** proves four properties of the `operations` run. `WalkShowsAll`: of a walk through the receipts,
`WalkInv` says that what lies between cursor and anchor was shown, that what lay below the cursor at the start is
still to come, and that nothing of the start lies above the anchor; the lemmas before it say what a page of a finite set is. `LookupSound`:
`HitsInv` says that each occurrence the index gave was read or is still queued, and `ScanInv` that the items of a scan
are a beginning of the thread and, when it has ended, all that the thread held when it was first read.
`RegistrySound`: `LocksInv` and `DocInv` say that who works on a file is alone and that what it loaded is still
in the file; `FreshInv` and `DropInv`, that an ID on its way into a file is in no file and no other hand, and that an entry on its
way out is known by one alias; `ToldInv`, that what was acknowledged is there. The theorem assumes that no home vanishes
(`"vanished" \notin Places`), for otherwise it is false, as section 3 says. `SpillsWhole`: `Consistent` says for each step of a
writer what it found under the name and how far its own file is; `Shares`, for writers of the same bytes, that
each attempt at the verification saw another `ctime` of the file, which changes at most twice, so that no writer runs out of attempts.

**Storage_proofs** proves five properties of the `operations` run. `OpeningSound`: what an opener compares and what it uses are
different things: a descriptor, a connection by name, and the row that either may have read. `OpeningInv` says that the path only
moves on and that an opener follows it in that order (`Trails`), so that a path that is the same at the end was the same
between; that a database has no alias but the one its own identity replaced, and an identity that is not a legacy one stays
(`Follows`); and for each step what the opener knows of the identity of its connection (`IsIdentified`), which another one may
give it between two of its transactions. `MigrationSound`: `SchemaInv` says
that only a version 3 journal has replies whose order is open, and that whoever asks for the store ID is connected to a version 8 schema, so that
no write reaches a database that was refused. A migration is one formula, `Migrated`; the lemmas say that every step adds parts that the
version it started from does not promise (`LaterParts`, `WithGrows`), so that a part that was missing is missing at the end and the last check
refuses it; and that the rank that the repair gives follows the evidence (`RankOrders`, `RepairOrders`). `TxnInv`: whoever is inside a
migration is alone in it. `PruningSafe`: `JobInv` says that the cutoff that maintenance
computed is still `Age` old when its second transaction uses it, `ClaimsInv` that only routed operations have claims, and `WinnersInv`
that a winner's row and its claim speak of one operation, so that the selections of `Prune` go together or stay together
(`AllRelatedGo`: winner or not, every reply to a deleted operation is itself positive and old). Whoever writes rows puts them under an
operation that is routed and leaves the old ones where they are (`RowsKept`), and elects a winner among them (`WinnerElected`). `ReceiptsSound`:
a command holds copies of a receipt while others write it, so `Knows` says what it may still believe at each step: a copy that
was true stays true (`Bears`: accepted means delivered, content means an observed reply, a resolution is the journal's row), because
nothing it speaks of is taken back (`JournalStays`), and so writing an old copy over a newer receipt adds and never removes (`PutKeeps`).
`ImportsSound`: whatever a receipt, an export or an import names was selected by custody, and while custody is unknown it is
the reply custody names (`Named`); an export is an earlier state of a receipt there is (`Genuine`), whence `RefsAgree` never fails;
the cause of a refusal is one that stays (`Cause`); and an answer that made somebody a winner is custody's for good, so that
nothing but a reconciliation makes another (`SelectsNone`).

**Only model-checked**: the liveness properties and everything that mentions fairness (ENABLED is
out of the prover's reach); the type invariant of `CommandSpace`, of which nothing else but liveness is asked; and,
in `Registries`, what happens when homes vanish. The runs that expect a violation are, of course, not theorems.

## 5. What is not modelled, and why

Formatting, parsing, envelopes, addresses, CLI, logging, doctor, the workflow executor and the test tools:
no interacting state. The event sequencer: a counter under one mutex. JSON and frame coding, the WebSocket
handshake, ssh arguments and version comparison: data. In `OperationJournal`, `MarkDispatchStarted` without an
owner, and in `ReplyCustody`, `Journal.Wait`, are left out: they have no caller. In
`ReplyDelivery`, resolving the original and the routes happens before the first journal call and
changes nothing. In `AppServerClient`, `Initialize` is a call and a notification like any other. In
`StoreOpening`, the check of SQLite's own version, zero event timestamps, drift of file modes and the choice of the state
path are left out; in `Retention`, sizes and vacuuming; in `Registries` and `Artifacts`, file modes and the hostile
replacement of directories except where an invariant names it.

## 6. Plan

All components with interacting state now have a module. What is left is depth:

1. Composition: `RemoteCustody` in the place of `Custody` in `ReplyDelivery`, which now loses answers by
   itself; `WaitService` over `RemoteCustody`.
2. Bounds: two senders in `waiting`, two messages in `remote`, when the runs get faster.
