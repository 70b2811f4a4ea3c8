----------------------------- MODULE StoreOpening -----------------------------
(***************************************************************************)
(* Opening the SQLite journal: several processes acquire the directory and *)
(* the file, migrate whatever schema they find in one transaction, and     *)
(* agree on the store's identity in a later one.  A process may die at any *)
(* step, and the file at the path may be exchanged once for another one.   *)
(***************************************************************************)
EXTENDS Naturals, FiniteSets

CONSTANT
    Opener      \* each opens the journal once; its name is the store ID it would generate

ASSUME OpeningAssumption == Opener \cap {"none", "legacy"} = {}

VARIABLES
    dir,        \* the state directory: "none", "loose" (wrong mode) or "private"
    path,       \* which file the path names: 0 none, 1 the first, 2 the one moved over it
    disk,       \* the two files' databases
    txn,        \* per file, the process inside a write transaction, or "none"
    opener      \* Opener -> [pc, how, fd, conn, store, read]
openingVars == <<dir, path, disk, txn, opener>>

(* What a schema is made of, by the version that brought it.  "malformed"  *)
(* is a receipts or blockers table that does not have its columns.         *)
Brought == [v \in 1..8 |->
    CASE v = 1 -> {"core"} [] v = 2 -> {"leases", "checks", "custody"} [] v = 3 -> {"routes"}
      [] v = 4 -> {"acceptances"} [] v = 5 -> {"supplement"} [] v = 6 -> {"replyTuple"}
      [] v = 7 -> {"endpoints"} [] v = 8 -> {"errorCode"}]
Shape(v) == UNION {Brought[u] : u \in {u \in 1..8 : u <= v}}
Current == Shape(8)
Files == {1, 2}
Empty == [version |-> 0, has |-> {}, loose |-> FALSE, store |-> "none", aliases |-> {}, claims |-> {}, winners |-> {}]
Unopened == [pc |-> "idle", how |-> "create", fd |-> 0, conn |-> 0, store |-> "none", read |-> 0]
Over == {"open", "ready", "refused", "failed", "crashed"}

(* What the file at the path may hold: every version as it should be, or    *)
(* with one part missing; a malformed table; no store ID, or a legacy one;  *)
(* a loose mode; a later version; positive replies with any evidence.       *)
Plain(v) == [Empty EXCEPT !.version = v, !.has = Shape(v), !.store = "old"]
Legacy == [Plain(8) EXCEPT !.store = "legacy"]
Claim(r, o, e, t) == [reply |-> r, original |-> o, event |-> e, time |-> t, seq |-> 0]
Replied(o, e1, e2, t1) ==
    [Plain(3) EXCEPT !.claims = {Claim("m1", "a", e1, t1), Claim("m2", o, e2, 1), Claim("m3", "a", e1 + e2, t1 + 1)}]
OnDisk ==
    {Empty, Legacy, [Legacy EXCEPT !.version = 5, !.has = Shape(5)]}
    \cup {Plain(v) : v \in 1..8} \cup {[Plain(v) EXCEPT !.has = @ \ {x}] : v \in {4, 7}, x \in Current}
    \cup {[Plain(4) EXCEPT !.has = @ \cup {"malformed"}], [Plain(0) EXCEPT !.has = {"core"}]}
    \cup {[Plain(8) EXCEPT !.store = "none"], [Plain(8) EXCEPT !.loose = TRUE], [Plain(8) EXCEPT !.version = 9]}
    \cup {Replied(o, e1, e2, t1) : o \in {"a", "b"}, e1 \in 0..1, e2 \in 0..2, t1 \in 0..1}
(* The database that may be moved over it.                                  *)
Other == Plain(8)

OpeningInit ==
    /\ dir \in {"none", "loose", "private"} /\ path \in IF dir = "none" THEN {0} ELSE {0, 1}
    /\ \E d \in OnDisk : disk = [f \in Files |-> IF f = 2 THEN Other ELSE IF path = 0 THEN Empty ELSE d]
    /\ txn = [f \in Files |-> "none"] /\ opener = [p \in Opener |-> Unopened]

-----------------------------------------------------------------------------
(* The migrations.  Each takes and gives the set of databases it may leave: *)
(* one, or none when it refuses and the transaction is rolled back.        *)
SoundV4(d) == {"core", "custody", "acceptances"} \subseteq d.has
SoundV5(d) == SoundV4(d) /\ "supplement" \in d.has /\ "malformed" \notin d.has
SoundV6(d) == SoundV5(d) /\ "replyTuple" \in d.has
SoundV7(d) == SoundV6(d) /\ "endpoints" \in d.has
SoundV8(d) == Current \subseteq d.has /\ "malformed" \notin d.has

With(d, parts, to) == [d EXCEPT !.has = @ \cup parts, !.version = to]
Upgrade(ds, Before(_), parts, After(_), to) ==
    {n \in {With(d, parts, to) : d \in {b \in ds : Before(b)}} : After(n)}

Created(d) == {With(d, IF d.has = {} THEN Current ELSE {"custody", "acceptances", "supplement"}, 7)}
V1ToV4(d) == {With(e, {"leases", "routes", "checks", "custody", "acceptances", "supplement"}, 5) :
                e \in {e \in {d} : {"leases", "routes"} \cap e.has = {}}}
V2ToV4(d) == {With(e, {"routes", "acceptances", "supplement"}, 4) : e \in {e \in {d} : "routes" \notin e.has}}

(* repairV3PositiveReplies renumbers the positive replies by their evidence *)
(* (the event log, or else the times) and elects each original's earliest. *)
Domain(c) == IF c.event # 0 THEN "event" ELSE IF c.time # 0 THEN "time" ELSE "none"
EvidenceKey(c) == IF Domain(c) = "event" THEN c.event ELSE c.time
Ambiguous(cs) ==
    \/ \E c \in cs : Domain(c) = "none"
    \/ \E c, e \in cs : Domain(c) # Domain(e) \/ (c # e /\ EvidenceKey(c) = EvidenceKey(e))
Renumbered(cs) == {[c EXCEPT !.seq = Cardinality({e \in cs : EvidenceKey(e) <= EvidenceKey(c)})] : c \in cs}
Repaired(d) ==
    LET cs == Renumbered(d.claims)
    IN  [d EXCEPT !.claims = cs,
                  !.winners = {<<c.original, c.reply>> : c \in {w \in cs :
                      \A e \in cs : e.original = w.original => w.seq <= e.seq}}]
V3ToV4(d) == {With(Repaired(e), {"acceptances"}, 4) : e \in {e \in {d} : ~Ambiguous(e.claims)}}

V4ToV5_Recreates(ds) == Upgrade(ds, LAMBDA d : TRUE, {"custody", "acceptances", "supplement"}, SoundV5, 5)
V4ToV5(ds) == Upgrade(ds, SoundV4, {"supplement"}, SoundV5, 5)
V5ToV6(ds) == Upgrade(ds, SoundV5, {"replyTuple"}, SoundV6, 6)
V6ToV7(ds) == Upgrade(ds, SoundV6, {"endpoints"}, SoundV7, 7)
V7ToV8(ds) == Upgrade(ds, SoundV7, {"errorCode"}, SoundV8, 8)

Migrated(d) ==
    LET from7(ds) == V7ToV8(ds)
        from6(ds) == from7(V6ToV7(ds))
        from5(ds) == from6(V5ToV6(ds))
        from4(ds) == from5(V4ToV5(ds))
    IN  CASE d.version = 0 -> from6({n \in Created(d) : SoundV6(n)})
          [] d.version = 1 -> from4(V1ToV4(d))
          [] d.version = 2 -> from4(V2ToV4(d))
          [] d.version = 3 -> from4(V3ToV4(d))
          [] d.version = 4 -> from4({d})
          [] d.version = 5 -> from5({d})
          [] d.version = 6 -> from6({d})
          [] d.version = 7 -> from7({d})
          [] d.version = 8 -> {e \in {d} : SoundV8(e)}
          [] d.version > 8 -> {}
-----------------------------------------------------------------------------
Stands(p, pc) == opener[p].pc = pc
Goes(p, pc) == opener' = [opener EXCEPT ![p].pc = pc]
Creates(p) == opener[p].how = "create"
Free(f) == txn[f] = "none"
StillNamed(p) == dir = "private" /\ path = opener[p].fd

Start(p) ==
    /\ Stands(p, "idle")
    /\ \E how \in {"create", "existing"} : opener' = [opener EXCEPT ![p].pc = "directory", ![p].how = how]
    /\ UNCHANGED <<dir, path, disk, txn>>

AcquireStateDirectory(p) ==
    /\ Stands(p, "directory")
    /\ IF Creates(p) THEN dir' = "private" /\ Goes(p, "file")
       ELSE dir' = dir /\ Goes(p, IF dir = "private" THEN "file" ELSE "failed")
    /\ UNCHANGED <<path, disk, txn>>

(* The file is opened if it is there; its mode is put right only by Open.  *)
AcquireDatabase(p) ==
    /\ Stands(p, "file") /\ UNCHANGED <<dir, path, txn>>
    /\ IF path = 0 THEN Goes(p, IF Creates(p) THEN "missing" ELSE "failed") /\ UNCHANGED disk
       ELSE IF Creates(p) \/ ~disk[path].loose
            THEN /\ opener' = [opener EXCEPT ![p].pc = "acquired", ![p].fd = path]
                 /\ disk' = [disk EXCEPT ![path].loose = FALSE]
            ELSE Goes(p, "failed") /\ UNCHANGED disk

(* O_CREAT|O_EXCL fails when another process has created it in between.    *)
CreateDatabase(p) ==
    /\ Stands(p, "missing") /\ UNCHANGED <<dir, disk, txn>>
    /\ IF path = 0 THEN path' = 1 /\ opener' = [opener EXCEPT ![p].pc = "acquired", ![p].fd = 1]
       ELSE UNCHANGED path /\ Goes(p, "failed")

VerifyPath(p) ==
    /\ Stands(p, "acquired") /\ Goes(p, IF StillNamed(p) THEN "ping" ELSE "failed")
    /\ UNCHANGED <<dir, path, disk, txn>>

(* SQLite opens the path by name, not the descriptor.                      *)
Connect(p) ==
    /\ Stands(p, "ping")
    /\ opener' = [opener EXCEPT ![p].conn = path, ![p].pc = IF Creates(p) THEN "begin" ELSE "preflight"]
    /\ UNCHANGED <<dir, path, disk, txn>>

PreflightExisting(p) ==
    /\ Stands(p, "preflight")
    /\ LET d == disk[opener[p].conn] IN Goes(p, IF d.version # 0 /\ "core" \in d.has THEN "begin" ELSE "failed")
    /\ UNCHANGED <<dir, path, disk, txn>>

BeginMigration(p) ==
    /\ Stands(p, "begin") /\ Free(opener[p].conn)
    /\ txn' = [txn EXCEPT ![opener[p].conn] = p] /\ Goes(p, "migrate")
    /\ UNCHANGED <<dir, path, disk>>

(* Everything between begin and commit; a refusal rolls back.              *)
Migrate(p) ==
    /\ Stands(p, "migrate")
    /\ LET f == opener[p].conn
           ds == Migrated(disk[f])
       IN  /\ txn' = [txn EXCEPT ![f] = "none"]
           /\ \/ ds = {} /\ Goes(p, "failed") /\ UNCHANGED disk
              \/ \E d \in ds : disk' = [disk EXCEPT ![f] = d] /\ Goes(p, "identity")
    /\ UNCHANGED <<dir, path>>

(* busy_timeout ran out while another process was in its transaction.      *)
Busy(p) ==
    /\ opener[p].pc \in {"begin", "insert", "legacy"} /\ ~Free(opener[p].conn)
    /\ LET id == disk[opener[p].conn].store
       IN  IF Stands(p, "insert") /\ id # "none" THEN opener' = [opener EXCEPT ![p].pc = "verify", ![p].store = id]
           ELSE Goes(p, "failed")
    /\ UNCHANGED <<dir, path, disk, txn>>

ReadStoreID(p) ==
    /\ Stands(p, "identity")
    /\ LET id == disk[opener[p].conn].store
       IN  opener' = [opener EXCEPT ![p].store = id,
                        ![p].pc = CASE id = "none" -> "insert" [] id = "legacy" -> "legacy" [] OTHER -> "verify"]
    /\ UNCHANGED <<dir, path, disk, txn>>

InsertStoreID_KeepsOwn(p) ==
    /\ Stands(p, "insert") /\ Free(opener[p].conn)
    /\ LET f == opener[p].conn
           id == IF disk[f].store = "none" THEN p ELSE disk[f].store
       IN  disk' = [disk EXCEPT ![f].store = id] /\ opener' = [opener EXCEPT ![p].pc = "verify", ![p].store = p]
    /\ UNCHANGED <<dir, path, txn>>
(* INSERT fails on the primary key when another process was first.         *)
InsertStoreID(p) ==
    /\ Stands(p, "insert") /\ Free(opener[p].conn)
    /\ LET f == opener[p].conn
           id == IF disk[f].store = "none" THEN p ELSE disk[f].store
       IN  disk' = [disk EXCEPT ![f].store = id] /\ opener' = [opener EXCEPT ![p].pc = "verify", ![p].store = id]
    /\ UNCHANGED <<dir, path, txn>>

(* A pre-UUIDv7 ID is replaced and stays known as an alias; the transaction *)
(* changes nothing when another process has replaced it meanwhile.         *)
ReplaceLegacyID(p) ==
    /\ Stands(p, "legacy") /\ Free(opener[p].conn)
    /\ LET f == opener[p].conn
           mine == disk[f].store = opener[p].store
           id == IF mine THEN p ELSE disk[f].store
       IN  /\ disk' = IF mine THEN [disk EXCEPT ![f].store = p, ![f].aliases = @ \cup {<<"legacy", p>>}] ELSE disk
           /\ opener' = [opener EXCEPT ![p].pc = "verify", ![p].store = id]
    /\ UNCHANGED <<dir, path, txn>>

(* secureFiles and the second look at what the two paths name.             *)
FinishOpen(p) ==
    /\ Stands(p, "verify") /\ Goes(p, IF StillNamed(p) /\ ~disk[opener[p].fd].loose THEN "open" ELSE "failed")
    /\ UNCHANGED <<dir, path, disk, txn>>

(* ValidateStoreIdentity: the files, the row, the files again.  The row may *)
(* be read through another connection of the pool, which opens the path.   *)
ValidateOpenIdentity(p) ==
    /\ Stands(p, "open") /\ Goes(p, IF StillNamed(p) THEN "checking" ELSE "refused")
    /\ UNCHANGED <<dir, path, disk, txn>>
ReadIdentityRow(p) ==
    /\ Stands(p, "checking")
    /\ \E f \in {opener[p].conn, path} :
          opener' = [opener EXCEPT ![p].read = f, ![p].pc = IF disk[f].store = opener[p].store THEN "recheck" ELSE "refused"]
    /\ UNCHANGED <<dir, path, disk, txn>>
ValidateAgain(p) ==
    /\ Stands(p, "recheck") /\ Goes(p, IF StillNamed(p) THEN "ready" ELSE "refused")
    /\ UNCHANGED <<dir, path, disk, txn>>

ResolveID(p, id) ==
    IF id = opener[p].store THEN id
    ELSE LET known == {a \in disk[opener[p].conn].aliases : a[1] = id}
         IN  IF known = {} THEN "none" ELSE (CHOOSE a \in known : TRUE)[2]

OpenerDies(p) ==
    /\ ~Stands(p, "idle") /\ opener[p].pc \notin Over
    /\ Goes(p, "crashed") /\ txn' = [f \in Files |-> IF txn[f] = p THEN "none" ELSE txn[f]]
    /\ UNCHANGED <<dir, path, disk>>

(* Somebody moves another journal (a backup, a copy) over the path.        *)
Exchange == path # 2 /\ dir = "private" /\ path' = 2 /\ UNCHANGED <<dir, disk, txn, opener>>

OpeningStep(p) ==
    \/ AcquireStateDirectory(p) \/ AcquireDatabase(p) \/ CreateDatabase(p) \/ VerifyPath(p)
    \/ Connect(p) \/ PreflightExisting(p) \/ BeginMigration(p) \/ Migrate(p) \/ Busy(p)
    \/ ReadStoreID(p) \/ InsertStoreID(p) \/ ReplaceLegacyID(p) \/ FinishOpen(p)
    \/ ValidateOpenIdentity(p) \/ ReadIdentityRow(p) \/ ValidateAgain(p)
OpeningNext == (\E p \in Opener : Start(p) \/ OpeningStep(p) \/ OpenerDies(p)) \/ Exchange
OpeningSpec == OpeningInit /\ [][OpeningNext]_openingVars
-----------------------------------------------------------------------------
OpeningTypeOK ==
    /\ dir \in {"none", "loose", "private"} /\ path \in 0..2
    /\ \A f \in Files : disk[f].version \in 0..9 /\ disk[f].store \in Opener \cup {"none", "legacy", "old", "other"}
    /\ \A f \in Files : txn[f] = "none" \/ (Stands(txn[f], "migrate") /\ opener[txn[f]].conn = f)

(* Everyone who opened a store without it being exchanged holds the ID the *)
(* store has: loadOrCreateStoreID's losers read the winner's ID back, and  *)
(* a reference issued under the old ID still resolves to the new one.      *)
OneIdentity ==
    \A p \in Opener : opener[p].pc \in {"open", "ready"} =>
        /\ opener[p].store = disk[opener[p].fd].store /\ opener[p].store \notin {"none", "legacy"}
        /\ disk[opener[p].fd].aliases # {} => ResolveID(p, "legacy") = opener[p].store

(* An open journal is a connection to the very file whose descriptor was   *)
(* checked, private to its owner: the path is compared before SQLite opens *)
(* it by name and again at the end.                                        *)
OpenedIsTheCheckedFile ==
    \A p \in Opener : opener[p].pc \in {"open", "ready"} => opener[p].conn = opener[p].fd /\ ~disk[opener[p].fd].loose

(* The identity row that made a store ready was read from the file it was  *)
(* opened from, whichever connection of the pool read it.                  *)
ReadyIsAboutItsFile == \A p \in Opener : Stands(p, "ready") => opener[p].read = opener[p].fd

(* After the repair of a version 3 journal the commit order is the order of *)
(* the evidence, and each original's winner is its earliest positive reply. *)
RepairKeepsOrder ==
    \A f \in Files : disk[f].version = 8 => \A c \in disk[f].claims :
        /\ \A e \in disk[f].claims : c.seq < e.seq =>
               (c.event # 0 /\ c.event < e.event) \/ (c.event = 0 /\ e.event = 0 /\ c.time < e.time)
        /\ \E w \in disk[f].claims : <<c.original, w.reply>> \in disk[f].winners /\ w.seq <= c.seq
        /\ Cardinality({w \in disk[f].winners : w[1] = c.original}) = 1

(* Whatever is committed is a complete version 8 schema, which the next    *)
(* opening accepts, and nothing the database had is missing from it: no    *)
(* version in between is ever published, whoever dies where.               *)
MigratesWholly ==
    [][\A f \in Files : disk'[f].version # disk[f].version =>
          SoundV8(disk'[f]) /\ disk'[f].version = 8 /\ disk[f].has \subseteq disk'[f].has]_openingVars

(* A database that lacks what its version promises is refused as it is:    *)
(* migrateV4ToV5 must not turn damage into a successful opening.           *)
DamageIsRefused ==
    [][\A f \in Files : ~(Shape(disk[f].version) \subseteq disk[f].has) => [disk'[f] EXCEPT !.loose = disk[f].loose] = disk[f]]_openingVars

(* Whoever opens a journal has the file it checked, and the identity that   *)
(* file has, however opening, creation and exchange interleave.            *)
OpensTheRightFile == OneIdentity /\ OpenedIsTheCheckedFile /\ ReadyIsAboutItsFile

(* A migration does all or nothing, keeps the order of the evidence, and    *)
(* never turns a damaged database into a sound one.                        *)
MigrationIsSafe == []RepairKeepsOrder /\ MigratesWholly /\ DamageIsRefused
=============================================================================
