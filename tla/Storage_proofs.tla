---------------------------- MODULE Storage_proofs ----------------------------
(***************************************************************************)
(* The safety properties of the journal's file and of its rows:            *)
(*   StoreOpening   several processes open, migrate and identify one file, *)
(*                  die in between, and have it exchanged under them       *)
(*   Retention      what maintenance deletes in two transactions, while    *)
(*                  others write rows                                      *)
(*   ReceiptStore   the receipts that commands write over each other       *)
(*   PortableWait   what an export may make a journal believe              *)
(* OpeningInv (who follows the path, and who knows which identity) needs   *)
(* nothing of the schemas; SchemaInv (what was found and what migrations   *)
(* leave) builds on it, and TxnInv on both.  The others stand alone.       *)
(***************************************************************************)
EXTENDS StoreOpening, Retention, ReceiptStore, PortableWait, FiniteSetTheorems, WellFoundedInduction,
        TLAPS

(***************************************************************************)
(* StoreOpening: one file, one identity.                                   *)
(***************************************************************************)

(* What an opener is connected to, what it holds open, and when it has read *)
(* an identity; the two identities that are none that could be given out.   *)
Connected == {"preflight", "begin", "migrate", "identity", "insert", "legacy", "verify",
              "open", "checking", "recheck", "ready"}
Holding == {"open", "checking", "recheck", "ready"}
Given == {"verify"} \cup Holding
Stages == {"idle", "directory", "file", "missing", "acquired", "ping"} \cup Connected \cup Over
Blank == {"none", "legacy"}

Opening ==
    [pc : Stages, how : {"create", "existing"}, fd : 0..2, conn : 0..2, read : 0..2,
     store : Opener \cup {"none", "legacy", "old"}]

(* A database has these fields, and at most one alias: an identity, once it *)
(* is no legacy one, is for ever.                                           *)
IsDatabase(d) ==
    /\ DOMAIN d = {"version", "has", "loose", "store", "aliases", "claims", "winners"}
    /\ d.version \in Nat /\ d.store \in Opener \cup {"none", "legacy", "old"}
    /\ d.aliases # {} => d.store \notin Blank /\ d.aliases = {<<"legacy", d.store>>}
DisksInv == DOMAIN disk = Files /\ \A f \in Files : IsDatabase(disk[f])

(* The path only moves on, from no file to the first to the one moved over  *)
(* it, and an opener follows it: the descriptor, then the connection, then  *)
(* the path.  So if the first and the last are one file, all are.           *)
Trails(r, to) ==
    /\ r.pc \in {"acquired", "ping"} \cup Connected => r.fd \in Files /\ r.fd <= to
    /\ r.pc \in Connected => r.fd <= r.conn /\ r.conn <= to
    /\ r.pc \in {"recheck", "ready"} => r.fd <= r.read /\ r.read <= to
IsOpened(r, disks) ==
    /\ r.pc \in Holding => r.conn = r.fd /\ ~disks[r.fd].loose
    /\ r.pc = "ready" => r.read = r.fd
IsIdentified(r, disks) ==
    /\ r.pc = "insert" => disks[r.conn].store # "legacy"
    /\ r.pc = "legacy" => r.store = "legacy" /\ disks[r.conn].store # "none"
    /\ r.pc \in Given => r.store = disks[r.conn].store /\ r.store \notin Blank
Stays(r, disks, to) == Trails(r, to) /\ IsOpened(r, disks) /\ IsIdentified(r, disks)

OpeningInv ==
    /\ opener \in [Opener -> Opening] /\ DisksInv /\ path \in 0..2
    /\ \A p \in Opener : Stays(opener[p], disk, path)

-----------------------------------------------------------------------------
(* A migration or a repair of the mode leaves the identity as it is.        *)
Kept(d, n) ==
    /\ IsDatabase(n) /\ n.store = d.store /\ n.aliases = d.aliases
    /\ n.loose = d.loose

(* Adding to a schema changes nothing else.                                 *)
LEMMA WithKeeps ==
    ASSUME NEW d, NEW b, Kept(d, b), NEW parts, NEW to \in Nat
    PROVE  Kept(d, With(b, parts, to))
<1> DEFINE n == With(b, parts, to)
<1>1. /\ DOMAIN n = DOMAIN b /\ n.version = to /\ n.loose = b.loose
      /\ n.store = b.store /\ n.aliases = b.aliases
  BY DEF With, Kept, IsDatabase
<1> HIDE DEF n
<1>2. Kept(d, n)
  BY <1>1 DEF Kept, IsDatabase
<1> QED BY <1>2 DEF n

(* The repair of a version 3 journal changes claims and winners alone.      *)
LEMMA RepairKeeps ==
    ASSUME NEW d, IsDatabase(d)
    PROVE  Kept(d, Repaired(d))
<1> DEFINE cs == Renumbered(d.claims)
           ws == {<<c.original, c.reply>> : c \in {w \in cs :
                     \A e \in cs : e.original = w.original => w.seq <= e.seq}}
           n == [d EXCEPT !.claims = cs, !.winners = ws]
<1>0. Repaired(d) = n
  BY DEF Repaired
<1> HIDE DEF cs, ws
<1>1. /\ DOMAIN n = DOMAIN d /\ n.version = d.version /\ n.loose = d.loose
      /\ n.store = d.store /\ n.aliases = d.aliases
  BY DEF IsDatabase
<1> HIDE DEF n
<1> QED BY <1>0, <1>1 DEF Kept, IsDatabase

LEMMA UpgradesKeep ==
    ASSUME NEW d, NEW ds, \A b \in ds : Kept(d, b)
    PROVE  /\ \A n \in V4ToV5(ds) : Kept(d, n)
           /\ \A n \in V5ToV6(ds) : Kept(d, n)
           /\ \A n \in V6ToV7(ds) : Kept(d, n)
           /\ \A n \in V7ToV8(ds) : Kept(d, n)
<1>1. ASSUME NEW n \in V4ToV5(ds) PROVE Kept(d, n)
  <2>1. PICK b \in ds : n = With(b, {"supplement"}, 5)
    BY <1>1 DEF V4ToV5, Upgrade
  <2> QED BY <2>1, WithKeeps
<1>2. ASSUME NEW n \in V5ToV6(ds) PROVE Kept(d, n)
  <2>1. PICK b \in ds : n = With(b, {"replyTuple"}, 6)
    BY <1>2 DEF V5ToV6, Upgrade
  <2> QED BY <2>1, WithKeeps
<1>3. ASSUME NEW n \in V6ToV7(ds) PROVE Kept(d, n)
  <2>1. PICK b \in ds : n = With(b, {"endpoints"}, 7)
    BY <1>3 DEF V6ToV7, Upgrade
  <2> QED BY <2>1, WithKeeps
<1>4. ASSUME NEW n \in V7ToV8(ds) PROVE Kept(d, n)
  <2>1. PICK b \in ds : n = With(b, {"errorCode"}, 8)
    BY <1>4 DEF V7ToV8, Upgrade
  <2> QED BY <2>1, WithKeeps
<1> QED BY <1>1, <1>2, <1>3, <1>4

LEMMA FirstStepsKeep ==
    ASSUME NEW d, IsDatabase(d)
    PROVE  /\ \A n \in Created(d) : Kept(d, n)
           /\ \A n \in V1ToV4(d) : Kept(d, n)
           /\ \A n \in V2ToV4(d) : Kept(d, n)
           /\ \A n \in V3ToV4(d) : Kept(d, n)
<1>1. Kept(d, d)
  BY DEF Kept
<1>2. ASSUME NEW n \in Created(d) PROVE Kept(d, n)
  BY <1>1, <1>2, WithKeeps DEF Created
<1>3. ASSUME NEW n \in V1ToV4(d) PROVE Kept(d, n)
  <2>1. n = With(d, {"leases", "routes", "checks", "custody", "acceptances", "supplement"}, 5)
    BY <1>3 DEF V1ToV4
  <2> QED BY <1>1, <2>1, WithKeeps
<1>4. ASSUME NEW n \in V2ToV4(d) PROVE Kept(d, n)
  <2>1. n = With(d, {"routes", "acceptances", "supplement"}, 4)
    BY <1>4 DEF V2ToV4
  <2> QED BY <1>1, <2>1, WithKeeps
<1>5. ASSUME NEW n \in V3ToV4(d) PROVE Kept(d, n)
  <2>1. n = With(Repaired(d), {"acceptances"}, 4)
    BY <1>5 DEF V3ToV4
  <2> QED BY <2>1, RepairKeeps, WithKeeps
<1> QED BY <1>2, <1>3, <1>4, <1>5

(* So a whole migration, from any version, keeps the identity.              *)
LEMMA MigrationKeeps ==
    ASSUME NEW d, IsDatabase(d), NEW n \in Migrated(d)
    PROVE  Kept(d, n)
<1> DEFINE From7(ds) == V7ToV8(ds)
           From6(ds) == From7(V6ToV7(ds))
           From5(ds) == From6(V5ToV6(ds))
           From4(ds) == From5(V4ToV5(ds))
           AllKept(ds) == \A b \in ds : Kept(d, b)
<1>1. ASSUME NEW ds, AllKept(ds) PROVE AllKept(From7(ds))
  BY <1>1, UpgradesKeep
<1>2. ASSUME NEW ds, AllKept(ds) PROVE AllKept(From6(ds))
  <2>1. AllKept(V6ToV7(ds))
    BY <1>2, UpgradesKeep
  <2> HIDE DEF AllKept, From7
  <2> QED BY <1>1, <2>1
<1>3. ASSUME NEW ds, AllKept(ds) PROVE AllKept(From5(ds))
  <2>1. AllKept(V5ToV6(ds))
    BY <1>3, UpgradesKeep
  <2> HIDE DEF AllKept, From6
  <2> QED BY <1>2, <2>1
<1>4. ASSUME NEW ds, AllKept(ds) PROVE AllKept(From4(ds))
  <2>1. AllKept(V4ToV5(ds))
    BY <1>4, UpgradesKeep
  <2> HIDE DEF AllKept, From5
  <2> QED BY <1>3, <2>1
<1>5. /\ AllKept({d}) /\ AllKept(V1ToV4(d)) /\ AllKept(V2ToV4(d)) /\ AllKept(V3ToV4(d))
      /\ AllKept({b \in Created(d) : SoundV6(b)}) /\ AllKept({e \in {d} : SoundV8(e)})
  BY FirstStepsKeep DEF Kept
<1>6. /\ d.version = 0 => n \in From6({b \in Created(d) : SoundV6(b)})
      /\ d.version = 1 => n \in From4(V1ToV4(d))
      /\ d.version = 2 => n \in From4(V2ToV4(d))
      /\ d.version = 3 => n \in From4(V3ToV4(d))
      /\ d.version = 4 => n \in From4({d})
      /\ d.version = 5 => n \in From5({d})
      /\ d.version = 6 => n \in From6({d})
      /\ d.version = 7 => n \in From7({d})
      /\ d.version = 8 => n \in {e \in {d} : SoundV8(e)}
      /\ d.version > 8 => FALSE
  BY DEF Migrated
<1>7. d.version \in 0..8 \/ d.version > 8
  BY DEF IsDatabase
<1> HIDE DEF From4, From5, From6, From7
<1>8. /\ AllKept(From6({b \in Created(d) : SoundV6(b)})) /\ AllKept(From4(V1ToV4(d)))
      /\ AllKept(From4(V2ToV4(d))) /\ AllKept(From4(V3ToV4(d))) /\ AllKept(From4({d}))
      /\ AllKept(From5({d})) /\ AllKept(From6({d})) /\ AllKept(From7({d}))
  <2> HIDE DEF AllKept
  <2> QED BY <1>1, <1>2, <1>3, <1>4, <1>5
<1>9. d.version \in {0, 1, 2, 3, 4, 5, 6, 7, 8}
  BY <1>6, <1>7
<1> QED BY <1>5, <1>6, <1>8, <1>9

-----------------------------------------------------------------------------
(* What a step may do to a database: give it an identity, close its mode.   *)
Follows(d, e) ==
    /\ e.store = d.store \/ (d.store \in Blank /\ e.store \notin Blank)
    /\ e.loose => d.loose

(* What the others know survives such a step, and the path's moving on.     *)
LEMMA StaysOn ==
    ASSUME NEW r \in Opening, NEW old, NEW new, NEW at \in 0..2, NEW to \in 0..2, at <= to,
           \A f \in Files : Follows(old[f], new[f]), Stays(r, old, at)
    PROVE  Stays(r, new, to)
<1>1. r.fd \in 0..2 /\ r.conn \in 0..2 /\ r.read \in 0..2
  BY DEF Opening
<1>2. Trails(r, to)
  BY <1>1 DEF Stays, Trails
<1>3. r.pc \in Connected => r.fd \in Files /\ r.conn \in Files
  BY <1>1 DEF Stays, Trails, Files
<1>4. r.pc \in Connected => Follows(old[r.fd], new[r.fd]) /\ Follows(old[r.conn], new[r.conn])
  BY <1>3
<1>5. IsOpened(r, new)
  BY <1>4 DEF Stays, IsOpened, Follows, Connected, Holding
<1>6. IsIdentified(r, new)
  <2>1. r.pc = "insert" => new[r.conn].store # "legacy"
    BY <1>4 DEF Stays, IsIdentified, Follows, Connected, Blank
  <2>2. r.pc = "legacy" => r.store = "legacy" /\ new[r.conn].store # "none"
    BY <1>4 DEF Stays, IsIdentified, Follows, Connected, Blank
  <2>3. r.pc \in Given => r.store = new[r.conn].store /\ r.store \notin Blank
    BY <1>4 DEF Stays, IsIdentified, Follows, Connected, Given, Holding
  <2> QED BY <2>1, <2>2, <2>3 DEF IsIdentified
<1> QED BY <1>2, <1>5, <1>6 DEF Stays

LEMMA OpenerActs ==
    ASSUME OpeningInv, NEW p \in Opener, NEW r \in Opening,
           opener' = [opener EXCEPT ![p] = r],
           path' \in 0..2, path <= path', DisksInv',
           \A f \in Files : Follows(disk[f], disk'[f]),
           Stays(r, disk', path')
    PROVE  OpeningInv'
<1>1. opener' \in [Opener -> Opening]
  BY DEF OpeningInv
<1>2. ASSUME NEW q \in Opener, q # p
      PROVE  Stays(opener[q], disk', path')
  <2>1. opener[q] \in Opening /\ Stays(opener[q], disk, path) /\ path \in 0..2
    BY DEF OpeningInv
  <2> QED BY <2>1, StaysOn
<1>3. ASSUME NEW q \in Opener
      PROVE  Stays(opener'[q], disk', path')
  <2>1. opener'[q] = IF q = p THEN r ELSE opener[q]
    BY DEF OpeningInv
  <2> QED BY <2>1, <1>2
<1>4. Stays(opener[p], disk, path)' <=> Stays(opener'[p], disk', path')
  OBVIOUS
<1> QED BY <1>1, <1>3 DEF OpeningInv

(* Most steps leave the databases and the path alone.                       *)
LEMMA OpenerMoves ==
    ASSUME OpeningInv, NEW p \in Opener, NEW r \in Opening,
           opener' = [opener EXCEPT ![p] = r],
           UNCHANGED <<path, disk>>, Stays(r, disk, path)
    PROVE  OpeningInv'
<1>1. DisksInv' /\ path' \in 0..2 /\ path <= path'
  BY DEF OpeningInv, DisksInv
<1>2. \A f \in Files : Follows(disk[f], disk'[f])
  BY DEF Follows
<1>3. Stays(r, disk', path')
  OBVIOUS
<1> QED BY <1>1, <1>2, <1>3, OpenerActs

(* One database changes: its name for it, its shape and that of the others. *)
LEMMA DiskChanges ==
    ASSUME OpeningInv, NEW f \in Files, NEW d,
           disk' = [disk EXCEPT ![f] = d], IsDatabase(d), Follows(disk[f], d)
    PROVE  /\ DisksInv' /\ disk'[f] = d
           /\ \A g \in Files : Follows(disk[g], disk'[g])
<1>1. DOMAIN disk = Files /\ \A g \in Files : IsDatabase(disk[g])
  BY DEF OpeningInv, DisksInv
<1>2. DOMAIN disk' = Files
  BY <1>1
<1>3. ASSUME NEW g \in Files PROVE disk'[g] = IF g = f THEN d ELSE disk[g]
  BY <1>1
<1>4. ASSUME NEW g \in Files PROVE IsDatabase(disk'[g]) /\ Follows(disk[g], disk'[g])
  BY <1>1, <1>3 DEF Follows
<1>5. DisksInv'
  BY <1>2, <1>4 DEF DisksInv
<1> QED BY <1>3, <1>4, <1>5

(* An opener's record, and the same with another stage.                     *)
LEMMA OpenerTyped ==
    ASSUME OpeningInv, NEW p \in Opener
    PROVE  /\ opener[p] \in Opening /\ Stays(opener[p], disk, path)
           /\ opener[p].fd \in 0..2 /\ opener[p].conn \in 0..2 /\ path \in 0..2
           /\ opener[p].pc \in Connected => opener[p].conn \in Files /\ opener[p].fd \in Files
<1>1. opener[p] \in Opening /\ Stays(opener[p], disk, path) /\ path \in 0..2
  BY DEF OpeningInv
<1>2. opener[p].fd \in 0..2 /\ opener[p].conn \in 0..2
  BY <1>1 DEF Opening
<1> QED BY <1>1, <1>2 DEF Stays, Trails, Files

LEMMA OpenerGoes ==
    ASSUME OpeningInv, NEW p \in Opener, NEW label \in Stages, Goes(p, label),
           UNCHANGED <<path, disk>>,
           \A r \in Opening : r.pc = label /\ r.fd = opener[p].fd /\ r.conn = opener[p].conn
               /\ r.read = opener[p].read /\ r.store = opener[p].store
               => Stays(r, disk, path)
    PROVE  OpeningInv'
<1> DEFINE r == [opener[p] EXCEPT !.pc = label]
<1>1. opener[p] \in Opening
  BY OpenerTyped
<1>2. r \in Opening
  BY <1>1 DEF Opening
<1>3. /\ r.pc = label /\ r.fd = opener[p].fd /\ r.conn = opener[p].conn
      /\ r.read = opener[p].read /\ r.store = opener[p].store
  BY <1>1 DEF Opening
<1>4. opener' = [opener EXCEPT ![p] = r]
  BY DEF Goes
<1> HIDE DEF r
<1> QED BY <1>2, <1>3, <1>4, OpenerMoves

(* Whoever gives up or dies has nothing left to promise.                    *)
LEMMA OpenerGivesUp ==
    ASSUME OpeningInv, NEW p \in Opener, NEW label \in Over \cup {"idle", "directory", "file", "missing"},
           label \notin {"open", "ready"},
           Goes(p, label), UNCHANGED <<path, disk>>
    PROVE  OpeningInv'
<1>1. label \in Stages
  BY DEF Stages, Over
<1>2. ASSUME NEW r \in Opening, r.pc = label PROVE Stays(r, disk, path)
  BY <1>2 DEF Stays, Trails, IsOpened, IsIdentified, Connected, Holding, Given, Over
<1> QED BY <1>1, <1>2, OpenerGoes

-----------------------------------------------------------------------------
LEMMA OpenerStarts ==
    ASSUME OpeningInv, NEW p \in Opener, Start(p)
    PROVE  OpeningInv'
<1>1. PICK how \in {"create", "existing"} :
        opener' = [opener EXCEPT ![p].pc = "directory", ![p].how = how]
  BY DEF Start
<1> DEFINE r == [opener[p] EXCEPT !.pc = "directory", !.how = how]
<1>2. opener[p] \in Opening
  BY OpenerTyped
<1>3. r \in Opening /\ r.pc = "directory"
  BY <1>2 DEF Opening, Stages
<1>4. opener' = [opener EXCEPT ![p] = r]
  BY <1>1
<1> HIDE DEF r
<1>5. Stays(r, disk, path)
  BY <1>3 DEF Stays, Trails, IsOpened, IsIdentified, Connected, Holding, Given
<1> QED BY <1>3, <1>4, <1>5, OpenerMoves DEF Start

LEMMA DirectoryAcquired ==
    ASSUME OpeningInv, NEW p \in Opener, AcquireStateDirectory(p)
    PROVE  OpeningInv'
<1>1. PICK label \in {"file", "failed"} : Goes(p, label) /\ UNCHANGED <<path, disk>>
  BY DEF AcquireStateDirectory
<1> QED BY <1>1, OpenerGivesUp DEF Over

(* Opening the file that is there: its descriptor, and its mode.            *)
LEMMA DatabaseAcquired ==
    ASSUME OpeningInv, NEW p \in Opener, AcquireDatabase(p)
    PROVE  OpeningInv'
<1>1. opener[p] \in Opening /\ path \in 0..2
  BY OpenerTyped
<1>2. CASE path = 0
  <2>1. PICK label \in {"missing", "failed"} : Goes(p, label) /\ UNCHANGED <<path, disk>>
    BY <1>2 DEF AcquireDatabase
  <2> QED BY <2>1, OpenerGivesUp DEF Over
<1>3. CASE path # 0 /\ ~(Creates(p) \/ ~disk[path].loose)
  <2>1. Goes(p, "failed") /\ UNCHANGED <<path, disk>>
    BY <1>3 DEF AcquireDatabase
  <2> QED BY <2>1, OpenerGivesUp DEF Over
<1>4. CASE path # 0 /\ (Creates(p) \/ ~disk[path].loose)
  <2> DEFINE r == [opener[p] EXCEPT !.pc = "acquired", !.fd = path]
             d == [disk[path] EXCEPT !.loose = FALSE]
  <2>1. /\ opener' = [opener EXCEPT ![p] = r] /\ disk' = [disk EXCEPT ![path] = d]
        /\ path' = path
    BY <1>4 DEF AcquireDatabase
  <2>2. r \in Opening /\ r.pc = "acquired" /\ r.fd = path
    BY <1>1 DEF Opening, Stages
  <2>3. path \in Files /\ IsDatabase(disk[path])
    BY <1>1, <1>4 DEF OpeningInv, DisksInv, Files
  <2>4. /\ DOMAIN d = DOMAIN disk[path] /\ d.version = disk[path].version
        /\ ~d.loose /\ d.store = disk[path].store /\ d.aliases = disk[path].aliases
    BY <2>3 DEF IsDatabase
  <2> HIDE DEF r, d
  <2>5. IsDatabase(d) /\ Follows(disk[path], d)
    BY <2>3, <2>4 DEF IsDatabase, Follows
  <2>6. Stays(r, disk', path')
    <3>1. path' = path /\ path' \in Files /\ path' <= path'
      BY <1>1, <2>1, <2>3
    <3>2. Trails(r, path')
      BY <2>2, <3>1 DEF Trails, Connected
    <3>3. IsOpened(r, disk') /\ IsIdentified(r, disk')
      BY <2>2 DEF IsOpened, IsIdentified, Holding, Given
    <3> QED BY <3>2, <3>3 DEF Stays
  <2>7. DisksInv' /\ \A g \in Files : Follows(disk[g], disk'[g])
    BY <2>1, <2>3, <2>5, DiskChanges
  <2>8. path' \in 0..2 /\ path <= path'
    BY <1>1, <2>1
  <2> QED BY <2>1, <2>2, <2>6, <2>7, <2>8, OpenerActs
<1> QED BY <1>2, <1>3, <1>4

LEMMA DatabaseCreated ==
    ASSUME OpeningInv, NEW p \in Opener, CreateDatabase(p)
    PROVE  OpeningInv'
<1>1. opener[p] \in Opening /\ path \in 0..2
  BY OpenerTyped
<1>2. CASE path # 0
  BY <1>2, OpenerGivesUp DEF CreateDatabase, Over
<1>3. CASE path = 0
  <2> DEFINE r == [opener[p] EXCEPT !.pc = "acquired", !.fd = 1]
  <2>1. opener' = [opener EXCEPT ![p] = r] /\ path' = 1 /\ disk' = disk
    BY <1>3 DEF CreateDatabase
  <2>2. r \in Opening /\ r.pc = "acquired" /\ r.fd = 1
    <3>1. 1 \in 0..2 /\ "acquired" \in Stages
      BY DEF Stages
    <3> QED BY <1>1, <3>1 DEF Opening
  <2> HIDE DEF r
  <2>3. Stays(r, disk', path')
    BY <2>1, <2>2 DEF Stays, Trails, IsOpened, IsIdentified, Connected, Holding, Given, Files
  <2>4. DisksInv' /\ path' \in 0..2 /\ path <= path'
    BY <1>3, <2>1 DEF OpeningInv, DisksInv
  <2>5. \A f \in Files : Follows(disk[f], disk'[f])
    BY <2>1 DEF Follows
  <2> QED BY <2>1, <2>2, <2>3, <2>4, <2>5, OpenerActs
<1> QED BY <1>2, <1>3

LEMMA PathVerified ==
    ASSUME OpeningInv, NEW p \in Opener, VerifyPath(p)
    PROVE  OpeningInv'
<1>1. CASE ~StillNamed(p)
  BY <1>1, OpenerGivesUp DEF VerifyPath, Over
<1>2. CASE StillNamed(p)
  <2>1. Goes(p, "ping") /\ UNCHANGED <<path, disk>> /\ opener[p].pc = "acquired"
    BY <1>2 DEF VerifyPath, Stands
  <2>2. Stays(opener[p], disk, path)
    BY OpenerTyped
  <2>3. \A r \in Opening : r.pc = "ping" /\ r.fd = opener[p].fd => Stays(r, disk, path)
    BY <2>1, <2>2 DEF Stays, Trails, IsOpened, IsIdentified, Connected, Holding, Given
  <2> QED BY <2>1, <2>3, OpenerGoes DEF Stages
<1> QED BY <1>1, <1>2

(* The connection is to what the path names by now.                         *)
LEMMA ConnectionOpened ==
    ASSUME OpeningInv, NEW p \in Opener, Connect(p)
    PROVE  OpeningInv'
<1> DEFINE label == IF Creates(p) THEN "begin" ELSE "preflight"
           r == [opener[p] EXCEPT !.conn = path, !.pc = label]
<1>1. opener[p] \in Opening /\ path \in 0..2 /\ Stays(opener[p], disk, path)
  BY OpenerTyped
<1>2. opener' = [opener EXCEPT ![p] = r] /\ UNCHANGED <<path, disk>> /\ opener[p].pc = "ping"
  BY DEF Connect, Stands
<1>3. label \in {"begin", "preflight"}
  OBVIOUS
<1> HIDE DEF label
<1>4. r \in Opening /\ r.pc = label /\ r.conn = path /\ r.fd = opener[p].fd
  BY <1>1, <1>3 DEF Opening, Stages, Connected
<1> HIDE DEF r
<1>5. Trails(r, path)
  BY <1>1, <1>2, <1>3, <1>4 DEF Stays, Trails
<1>6. IsOpened(r, disk) /\ IsIdentified(r, disk)
  BY <1>3, <1>4 DEF IsOpened, IsIdentified, Holding, Given
<1> QED BY <1>2, <1>4, <1>5, <1>6, OpenerMoves DEF Stays

(* Between the connection and the identity nothing is promised but where    *)
(* the descriptor and the connection point.                                 *)
LEMMA OpenerProceeds ==
    ASSUME OpeningInv, NEW p \in Opener, opener[p].pc \in {"preflight", "begin", "migrate"},
           NEW label \in {"begin", "migrate", "identity"}, Goes(p, label),
           path' = path, DisksInv', \A f \in Files : Follows(disk[f], disk'[f])
    PROVE  OpeningInv'
<1> DEFINE r == [opener[p] EXCEPT !.pc = label]
<1>1. opener[p] \in Opening /\ path \in 0..2 /\ Stays(opener[p], disk, path)
  BY OpenerTyped
<1>2. opener' = [opener EXCEPT ![p] = r]
  BY DEF Goes
<1>3. r \in Opening /\ r.pc = label /\ r.fd = opener[p].fd /\ r.conn = opener[p].conn
  BY <1>1 DEF Opening, Stages, Connected
<1> HIDE DEF r
<1>4. Trails(r, path)
  BY <1>1, <1>3 DEF Stays, Trails, Connected
<1>5. IsOpened(r, disk') /\ IsIdentified(r, disk')
  BY <1>3 DEF IsOpened, IsIdentified, Holding, Given
<1>6. path' \in 0..2 /\ path <= path' /\ Stays(r, disk', path')
  BY <1>1, <1>4, <1>5 DEF Stays
<1> QED BY <1>2, <1>3, <1>6, OpenerActs

LEMMA DisksStay ==
    ASSUME OpeningInv, disk' = disk
    PROVE  DisksInv' /\ \A f \in Files : Follows(disk[f], disk'[f])
BY DEF OpeningInv, DisksInv, Follows

LEMMA ExistingPreflighted ==
    ASSUME OpeningInv, NEW p \in Opener, PreflightExisting(p)
    PROVE  OpeningInv'
<1>1. PICK label \in {"begin", "failed"} :
        Goes(p, label) /\ UNCHANGED <<path, disk>> /\ opener[p].pc = "preflight"
  BY DEF PreflightExisting, Stands
<1>2. CASE label = "begin"
  BY <1>1, <1>2, DisksStay, OpenerProceeds
<1>3. CASE label = "failed"
  BY <1>1, <1>3, OpenerGivesUp DEF Over
<1> QED BY <1>1, <1>2, <1>3

LEMMA MigrationBegun ==
    ASSUME OpeningInv, NEW p \in Opener, BeginMigration(p)
    PROVE  OpeningInv'
<1>1. Goes(p, "migrate") /\ UNCHANGED <<path, disk>> /\ opener[p].pc = "begin"
  BY DEF BeginMigration, Stands
<1> QED BY <1>1, DisksStay, OpenerProceeds

LEMMA DatabaseMigrated ==
    ASSUME OpeningInv, NEW p \in Opener, Migrate(p)
    PROVE  OpeningInv'
<1> DEFINE f == opener[p].conn
<1>1. opener[p].pc = "migrate" /\ path' = path
  BY DEF Migrate, Stands
<1>2. f \in Files /\ IsDatabase(disk[f])
  BY <1>1, OpenerTyped DEF Connected, OpeningInv, DisksInv
<1>3. CASE Goes(p, "failed") /\ disk' = disk
  BY <1>1, <1>3, OpenerGivesUp DEF Over
<1>4. CASE \E d \in Migrated(disk[f]) : disk' = [disk EXCEPT ![f] = d] /\ Goes(p, "identity")
  <2>1. PICK d \in Migrated(disk[f]) : disk' = [disk EXCEPT ![f] = d] /\ Goes(p, "identity")
    BY <1>4
  <2>2. Kept(disk[f], d)
    BY <1>2, MigrationKeeps
  <2>3. IsDatabase(d) /\ Follows(disk[f], d)
    BY <2>2 DEF Kept, Follows
  <2>4. DisksInv' /\ \A g \in Files : Follows(disk[g], disk'[g])
    BY <1>2, <2>1, <2>3, DiskChanges
  <2> QED BY <1>1, <2>1, <2>4, OpenerProceeds
<1> QED BY <1>3, <1>4 DEF Migrate

-----------------------------------------------------------------------------
(* A connected opener moves on to another stage with what it has learned of *)
(* the identity; where its descriptor and its connection point is as before. *)
LEMMA IdentityLearned ==
    ASSUME OpeningInv, NEW p \in Opener, opener[p].pc \in {"identity", "insert", "legacy"},
           NEW label \in {"insert", "legacy", "verify"},
           NEW id \in Opener \cup {"none", "legacy", "old"},
           opener' = [opener EXCEPT ![p].pc = label, ![p].store = id],
           path' = path, DisksInv', \A f \in Files : Follows(disk[f], disk'[f]),
           label = "insert" => disk'[opener[p].conn].store # "legacy",
           label = "legacy" => id = "legacy" /\ disk'[opener[p].conn].store # "none",
           label = "verify" => id = disk'[opener[p].conn].store /\ id \notin Blank
    PROVE  OpeningInv'
<1> DEFINE r == [opener[p] EXCEPT !.pc = label, !.store = id]
<1>1. opener[p] \in Opening /\ path \in 0..2 /\ Stays(opener[p], disk, path)
  BY OpenerTyped
<1>2. opener' = [opener EXCEPT ![p] = r]
  OBVIOUS
<1>3. label \in Stages
  BY DEF Stages, Connected
<1>4. /\ r \in Opening /\ r.pc = label /\ r.fd = opener[p].fd /\ r.conn = opener[p].conn
      /\ r.store = id
  BY <1>1, <1>3 DEF Opening
<1> HIDE DEF r
<1>5. Trails(r, path)
  BY <1>1, <1>4 DEF Stays, Trails, Connected
<1>6. IsOpened(r, disk')
  BY <1>4 DEF IsOpened, Holding
<1>7. IsIdentified(r, disk')
  BY <1>4 DEF IsIdentified, Given, Holding
<1>8. path' \in 0..2 /\ path <= path' /\ Stays(r, disk', path')
  BY <1>1, <1>5, <1>6, <1>7 DEF Stays
<1> QED BY <1>2, <1>4, <1>8, OpenerActs

(* The database an opener is connected to, and the identity in it.          *)
LEMMA ConnectedDatabase ==
    ASSUME OpeningInv, NEW p \in Opener, opener[p].pc \in Connected
    PROVE  /\ opener[p].conn \in Files /\ IsDatabase(disk[opener[p].conn])
           /\ disk[opener[p].conn].store \in Opener \cup {"none", "legacy", "old"}
<1>1. opener[p].conn \in Files
  BY OpenerTyped
<1> QED BY <1>1 DEF OpeningInv, DisksInv, IsDatabase

LEMMA WaitEnds ==
    ASSUME OpeningInv, NEW p \in Opener, Busy(p)
    PROVE  OpeningInv'
<1> DEFINE id == disk[opener[p].conn].store
<1>1. UNCHANGED <<path, disk>>
  BY DEF Busy
<1>2. CASE ~(Stands(p, "insert") /\ id # "none")
  <2>1. Goes(p, "failed")
    BY <1>2 DEF Busy
  <2> QED BY <1>1, <2>1, OpenerGivesUp DEF Over
<1>3. CASE Stands(p, "insert") /\ id # "none"
  <2>1. opener' = [opener EXCEPT ![p].pc = "verify", ![p].store = id] /\ opener[p].pc = "insert"
    BY <1>3 DEF Busy, Stands
  <2>2. id \in Opener \cup {"none", "legacy", "old"}
    BY <2>1, ConnectedDatabase DEF Connected
  <2>3. id # "legacy"
    BY <2>1, OpenerTyped DEF Stays, IsIdentified
  <2>4. id = disk'[opener[p].conn].store /\ id \notin Blank
    BY <1>1, <1>3, <2>3 DEF Blank
  <2>5. DisksInv' /\ \A f \in Files : Follows(disk[f], disk'[f])
    BY <1>1, DisksStay
  <2> HIDE DEF id
  <2> QED BY <1>1, <2>1, <2>2, <2>4, <2>5, IdentityLearned
<1> QED BY <1>2, <1>3

LEMMA StoreIDRead ==
    ASSUME OpeningInv, NEW p \in Opener, ReadStoreID(p)
    PROVE  OpeningInv'
<1> DEFINE id == disk[opener[p].conn].store
           label == CASE id = "none" -> "insert" [] id = "legacy" -> "legacy" [] OTHER -> "verify"
<1>1. UNCHANGED <<path, disk>> /\ opener[p].pc = "identity"
  BY DEF ReadStoreID, Stands
<1>2. opener' = [opener EXCEPT ![p].pc = label, ![p].store = id]
  BY DEF ReadStoreID
<1>3. id \in Opener \cup {"none", "legacy", "old"}
  BY <1>1, ConnectedDatabase DEF Connected
<1>4. /\ label \in {"insert", "legacy", "verify"}
      /\ label = "insert" => id = "none"
      /\ label = "legacy" => id = "legacy"
      /\ label = "verify" => id \notin Blank
  BY DEF Blank
<1>5. disk'[opener[p].conn].store = id
  BY <1>1
<1>6. DisksInv' /\ \A f \in Files : Follows(disk[f], disk'[f])
  BY <1>1, DisksStay
<1> HIDE DEF id, label
<1>7. /\ label = "insert" => disk'[opener[p].conn].store # "legacy"
      /\ label = "legacy" => id = "legacy" /\ disk'[opener[p].conn].store # "none"
      /\ label = "verify" => id = disk'[opener[p].conn].store /\ id \notin Blank
  BY <1>4, <1>5
<1> QED BY <1>1, <1>2, <1>3, <1>4, <1>6, <1>7, IdentityLearned

(* An ID the opener generates is no legacy one.                             *)
LEMMA GeneratedID == \A p \in Opener : p \notin Blank
BY OpeningAssumption DEF Blank

LEMMA StoreIDInserted ==
    ASSUME OpeningInv, NEW p \in Opener, InsertStoreID(p)
    PROVE  OpeningInv'
<1> DEFINE f == opener[p].conn
           old == disk[f]
           id == IF old.store = "none" THEN p ELSE old.store
           d == [old EXCEPT !.store = id]
<1>1. opener[p].pc = "insert" /\ path' = path
  BY DEF InsertStoreID, Stands
<1>2. disk' = [disk EXCEPT ![f] = d] /\ opener' = [opener EXCEPT ![p].pc = "verify", ![p].store = id]
  BY DEF InsertStoreID
<1>3. f \in Files /\ IsDatabase(old) /\ old.store \in Opener \cup {"none", "legacy", "old"}
  BY <1>1, ConnectedDatabase DEF Connected
<1>4. old.store # "legacy"
  BY <1>1, OpenerTyped DEF Stays, IsIdentified
<1>5. id \in Opener \cup {"none", "legacy", "old"} /\ id \notin Blank
  BY <1>3, <1>4, GeneratedID DEF Blank
<1>6. id = old.store \/ old.store = "none"
  OBVIOUS
<1> HIDE DEF id, old, f
<1>7. /\ DOMAIN d = DOMAIN old /\ d.version = old.version /\ d.loose = old.loose
      /\ d.store = id /\ d.aliases = old.aliases
  BY <1>3 DEF IsDatabase
<1> HIDE DEF d
<1>8. IsDatabase(d) /\ Follows(old, d)
  BY <1>3, <1>5, <1>6, <1>7 DEF IsDatabase, Follows, Blank
<1>9. DisksInv' /\ disk'[f] = d /\ \A g \in Files : Follows(disk[g], disk'[g])
  BY <1>2, <1>3, <1>8, DiskChanges DEF old
<1>10. id = disk'[opener[p].conn].store
  BY <1>7, <1>9 DEF f
<1> QED BY <1>1, <1>2, <1>5, <1>9, <1>10, IdentityLearned

LEMMA LegacyIDReplaced ==
    ASSUME OpeningInv, NEW p \in Opener, ReplaceLegacyID(p)
    PROVE  OpeningInv'
<1> DEFINE f == opener[p].conn
           old == disk[f]
           mine == old.store = opener[p].store
           id == IF mine THEN p ELSE old.store
           d == [old EXCEPT !.store = p, !.aliases = @ \cup {<<"legacy", p>>}]
<1>1. opener[p].pc = "legacy" /\ path' = path
  BY DEF ReplaceLegacyID, Stands
<1>2. /\ disk' = IF mine THEN [disk EXCEPT ![f] = d] ELSE disk
      /\ opener' = [opener EXCEPT ![p].pc = "verify", ![p].store = id]
  BY DEF ReplaceLegacyID
<1>3. f \in Files /\ IsDatabase(old) /\ old.store \in Opener \cup {"none", "legacy", "old"}
  BY <1>1, ConnectedDatabase DEF Connected
<1>4. opener[p].store = "legacy" /\ old.store # "none"
  BY <1>1, OpenerTyped DEF Stays, IsIdentified
<1>5. id \in Opener \cup {"none", "legacy", "old"} /\ id \notin Blank
  BY <1>3, <1>4, GeneratedID DEF Blank
<1>6. (mine => id = p) /\ (~mine => id = old.store)
  OBVIOUS
<1>7. CASE mine
  <2>1. old.store = "legacy" /\ old.aliases = {}
    BY <1>3, <1>4, <1>7 DEF IsDatabase, Blank
  <2> HIDE DEF id, old, f, mine
  <2>2. /\ DOMAIN d = DOMAIN old /\ d.version = old.version /\ d.loose = old.loose
        /\ d.store = p /\ d.aliases = {<<"legacy", p>>}
    BY <1>3, <2>1 DEF IsDatabase
  <2> HIDE DEF d
  <2>3. IsDatabase(d) /\ Follows(old, d)
    BY <1>3, <2>1, <2>2, GeneratedID DEF IsDatabase, Follows, Blank
  <2>4. DisksInv' /\ disk'[f] = d /\ \A g \in Files : Follows(disk[g], disk'[g])
    BY <1>2, <1>3, <1>7, <2>3, DiskChanges DEF old
  <2>5. id = disk'[opener[p].conn].store
    BY <1>6, <1>7, <2>2, <2>4 DEF f
  <2> QED BY <1>1, <1>2, <1>5, <2>4, <2>5, IdentityLearned
<1>8. CASE ~mine
  <2>1. disk' = disk /\ id = disk'[opener[p].conn].store
    BY <1>2, <1>6, <1>8
  <2>2. DisksInv' /\ \A g \in Files : Follows(disk[g], disk'[g])
    BY <2>1, DisksStay
  <2> HIDE DEF id, old, f, mine
  <2> QED BY <1>1, <1>2, <1>5, <2>1, <2>2, IdentityLearned
<1> QED BY <1>7, <1>8

(* The path names the checked file again: so the connection is to that one. *)
LEMMA OpenFinished ==
    ASSUME OpeningInv, NEW p \in Opener, FinishOpen(p)
    PROVE  OpeningInv'
<1>1. opener[p].pc = "verify" /\ UNCHANGED <<path, disk>>
  BY DEF FinishOpen, Stands
<1>2. CASE ~(StillNamed(p) /\ ~disk[opener[p].fd].loose)
  BY <1>1, <1>2, OpenerGivesUp DEF FinishOpen, Over
<1>3. CASE StillNamed(p) /\ ~disk[opener[p].fd].loose
  <2>1. Goes(p, "open") /\ path = opener[p].fd
    BY <1>3 DEF FinishOpen, StillNamed
  <2>2. /\ Stays(opener[p], disk, path) /\ opener[p].conn \in 0..2 /\ opener[p].fd \in 0..2
        /\ opener[p].fd \in Files
    BY <1>1, OpenerTyped DEF Connected
  <2>3. opener[p].conn = opener[p].fd
    BY <1>1, <2>1, <2>2 DEF Stays, Trails, Connected
  <2>4. opener[p].store = disk[opener[p].conn].store /\ opener[p].store \notin Blank
    BY <1>1, <2>2 DEF Stays, IsIdentified, Given
  <2>5. ASSUME NEW r \in Opening, r.pc = "open", r.fd = opener[p].fd, r.conn = opener[p].conn,
               r.store = opener[p].store
        PROVE  Stays(r, disk, path)
    <3>1. Trails(r, path)
      BY <2>1, <2>2, <2>3, <2>5 DEF Trails
    <3>2. IsOpened(r, disk)
      BY <1>3, <2>3, <2>5 DEF IsOpened
    <3>3. IsIdentified(r, disk)
      BY <2>4, <2>5 DEF IsIdentified
    <3> QED BY <3>1, <3>2, <3>3 DEF Stays
  <2> QED BY <1>1, <2>1, <2>5, OpenerGoes DEF Stages, Connected
<1> QED BY <1>2, <1>3

(* While it is held open, only the descriptor of the row's file is added.   *)
LEMMA HolderActs ==
    ASSUME OpeningInv, NEW p \in Opener, opener[p].pc \in Holding, NEW r \in Opening,
           opener' = [opener EXCEPT ![p] = r], UNCHANGED <<path, disk>>,
           r.fd = opener[p].fd, r.conn = opener[p].conn, r.store = opener[p].store,
           r.pc \in {"checking", "recheck", "ready"},
           r.pc \in {"recheck", "ready"} => r.fd <= r.read /\ r.read <= path,
           r.pc = "ready" => r.read = r.fd
    PROVE  OpeningInv'
<1>1. opener[p] \in Opening /\ Stays(opener[p], disk, path)
  BY OpenerTyped
<1>2. Trails(r, path)
  BY <1>1 DEF Stays, Trails, Holding, Connected
<1>3. IsOpened(r, disk)
  BY <1>1 DEF Stays, IsOpened, Holding
<1>4. IsIdentified(r, disk)
  BY <1>1 DEF Stays, IsIdentified, Given, Holding
<1> QED BY <1>2, <1>3, <1>4, OpenerMoves DEF Stays

LEMMA IdentityChecked ==
    ASSUME OpeningInv, NEW p \in Opener, ValidateOpenIdentity(p)
    PROVE  OpeningInv'
<1>1. opener[p].pc = "open" /\ UNCHANGED <<path, disk>> /\ opener[p] \in Opening
  BY OpenerTyped DEF ValidateOpenIdentity, Stands
<1>2. CASE ~StillNamed(p)
  BY <1>1, <1>2, OpenerGivesUp DEF ValidateOpenIdentity, Over
<1>3. CASE StillNamed(p)
  <2> DEFINE r == [opener[p] EXCEPT !.pc = "checking"]
  <2>1. opener' = [opener EXCEPT ![p] = r]
    BY <1>3 DEF ValidateOpenIdentity, Goes
  <2>2. "checking" \in Stages
    BY DEF Stages, Connected
  <2>3. r \in Opening /\ r.pc = "checking" /\ r.fd = opener[p].fd /\ r.conn = opener[p].conn
        /\ r.store = opener[p].store
    BY <1>1, <2>2 DEF Opening
  <2> HIDE DEF r
  <2> QED BY <1>1, <2>1, <2>3, HolderActs DEF Holding
<1> QED BY <1>2, <1>3

(* Whichever connection reads the row, it is of a file between the          *)
(* descriptor's and the path's.                                             *)
LEMMA RowRead ==
    ASSUME OpeningInv, NEW p \in Opener, ReadIdentityRow(p)
    PROVE  OpeningInv'
<1>1. opener[p].pc = "checking" /\ UNCHANGED <<path, disk>> /\ opener[p] \in Opening
  BY OpenerTyped DEF ReadIdentityRow, Stands
<1>2. PICK f \in {opener[p].conn, path}, label \in {"recheck", "refused"} :
        opener' = [opener EXCEPT ![p].read = f, ![p].pc = label]
  BY DEF ReadIdentityRow
<1> DEFINE r == [opener[p] EXCEPT !.read = f, !.pc = label]
<1>3. /\ Stays(opener[p], disk, path) /\ opener[p].conn \in 0..2 /\ opener[p].fd \in 0..2
      /\ path \in 0..2
  BY OpenerTyped
<1>4. opener[p].fd <= f /\ f <= path /\ f \in 0..2
  BY <1>1, <1>2, <1>3 DEF Stays, Trails, Connected
<1>5. label \in Stages
  BY <1>2 DEF Stages, Connected, Over
<1>6. /\ r \in Opening /\ r.pc = label /\ r.fd = opener[p].fd /\ r.conn = opener[p].conn
      /\ r.store = opener[p].store /\ r.read = f
  BY <1>1, <1>4, <1>5 DEF Opening
<1>7. opener' = [opener EXCEPT ![p] = r]
  BY <1>2
<1> HIDE DEF r
<1>8. CASE label = "recheck"
  BY <1>1, <1>4, <1>6, <1>7, <1>8, HolderActs DEF Holding
<1>9. CASE label = "refused"
  <2>1. Stays(r, disk, path)
    BY <1>6, <1>9 DEF Stays, Trails, IsOpened, IsIdentified, Connected, Holding, Given
  <2> QED BY <1>1, <1>6, <1>7, <2>1, OpenerMoves
<1> QED BY <1>2, <1>8, <1>9

(* And if the path still names the descriptor's, it was that one.           *)
LEMMA FilesCheckedAgain ==
    ASSUME OpeningInv, NEW p \in Opener, ValidateAgain(p)
    PROVE  OpeningInv'
<1>1. opener[p].pc = "recheck" /\ UNCHANGED <<path, disk>> /\ opener[p] \in Opening
  BY OpenerTyped DEF ValidateAgain, Stands
<1>2. CASE ~StillNamed(p)
  BY <1>1, <1>2, OpenerGivesUp DEF ValidateAgain, Over
<1>3. CASE StillNamed(p)
  <2> DEFINE r == [opener[p] EXCEPT !.pc = "ready"]
  <2>1. opener' = [opener EXCEPT ![p] = r] /\ path = opener[p].fd
    BY <1>3 DEF ValidateAgain, Goes, StillNamed
  <2>2. "ready" \in Stages
    BY DEF Stages, Connected
  <2>3. r \in Opening /\ r.pc = "ready" /\ r.fd = opener[p].fd /\ r.conn = opener[p].conn
        /\ r.store = opener[p].store /\ r.read = opener[p].read
    BY <1>1, <2>2 DEF Opening
  <2>4. opener[p].fd \in 0..2 /\ opener[p].read \in 0..2
    BY <1>1 DEF Opening
  <2>5. opener[p].fd <= opener[p].read /\ opener[p].read <= path
    BY <1>1, OpenerTyped DEF Stays, Trails
  <2> HIDE DEF r
  <2>6. r.read = r.fd /\ r.fd <= r.read /\ r.read <= path
    BY <2>1, <2>3, <2>4, <2>5
  <2> QED BY <1>1, <2>1, <2>3, <2>6, HolderActs DEF Holding
<1> QED BY <1>2, <1>3

LEMMA OpenerDead ==
    ASSUME OpeningInv, NEW p \in Opener, OpenerDies(p)
    PROVE  OpeningInv'
BY OpenerGivesUp DEF OpenerDies, Over

(* The path moves on; every database stays what it was.                     *)
LEMMA PathExchanged ==
    ASSUME OpeningInv, Exchange
    PROVE  OpeningInv'
<1>1. path' = 2 /\ path \in 0..2 /\ UNCHANGED <<disk, opener>>
  BY DEF Exchange, OpeningInv
<1>2. path <= path' /\ path' \in 0..2
  BY <1>1
<1>3. DisksInv' /\ \A f \in Files : Follows(disk[f], disk'[f])
  BY <1>1, DisksStay
<1>4. ASSUME NEW q \in Opener PROVE Stays(opener'[q], disk', path')
  <2>1. opener[q] \in Opening /\ Stays(opener[q], disk, path)
    BY OpenerTyped
  <2>2. Stays(opener[q], disk', path')
    BY <1>1, <1>2, <1>3, <2>1, StaysOn
  <2> QED BY <1>1, <2>2
<1> QED BY <1>1, <1>2, <1>3, <1>4 DEF OpeningInv

(* What the file may hold at the start has no alias yet.                    *)
LEMMA FoundDatabases ==
    IsDatabase(Empty) /\ IsDatabase(Other) /\ \A d \in OnDisk : IsDatabase(d)
<1> DEFINE New(d) ==
        /\ DOMAIN d = {"version", "has", "loose", "store", "aliases", "claims", "winners"}
        /\ d.version \in Nat /\ d.store \in {"none", "legacy", "old"} /\ d.aliases = {}
<1>1. New(Empty)
  BY DEF Empty
<1>2. ASSUME NEW v \in Nat PROVE New(Plain(v))
  <2>1. New(Empty)
    BY <1>1
  <2> QED BY <2>1 DEF Plain
<1>3. ASSUME NEW d, New(d), NEW x PROVE New([d EXCEPT !.has = x])
  BY <1>3
<1>4. ASSUME NEW d, New(d), NEW x PROVE New([d EXCEPT !.loose = x])
  BY <1>4
<1>5. ASSUME NEW d, New(d), NEW v \in Nat PROVE New([d EXCEPT !.version = v])
  BY <1>5
<1>6. ASSUME NEW d, New(d), NEW s \in {"none", "legacy", "old"} PROVE New([d EXCEPT !.store = s])
  BY <1>6
<1>7. ASSUME NEW d, New(d), NEW x PROVE New([d EXCEPT !.claims = x])
  BY <1>7
<1>8. New(Legacy)
  BY <1>2, <1>6 DEF Legacy
<1>9. ASSUME NEW d, New(d), NEW v \in Nat, NEW x PROVE New([d EXCEPT !.version = v, !.has = x])
  BY <1>9
<1>10. ASSUME NEW d \in OnDisk PROVE New(d)
  <2>1. CASE d \in {Empty, Legacy, [Legacy EXCEPT !.version = 5, !.has = Shape(5)]}
    <3> DEFINE s == Shape(5)
    <3> HIDE DEF New, s
    <3>1. New([Legacy EXCEPT !.version = 5, !.has = s])
      BY <1>8, <1>9
    <3>2. d = Empty \/ d = Legacy \/ d = [Legacy EXCEPT !.version = 5, !.has = s]
      BY <2>1 DEF s
    <3> QED BY <3>1, <3>2, <1>1, <1>8
  <2>2. CASE d \in {Plain(v) : v \in 1..8}
    <3> HIDE DEF New
    <3> QED BY <2>2, <1>2
  <2>3. CASE d \in {[Plain(v) EXCEPT !.has = @ \ {x}] : v \in {4, 7}, x \in Current}
    <3>1. PICK v \in {4, 7}, x \in Current : d = [Plain(v) EXCEPT !.has = @ \ {x}]
      BY <2>3
    <3> HIDE DEF New
    <3> QED BY <3>1, <1>2, <1>3
  <2>4. CASE d \in {[Plain(4) EXCEPT !.has = @ \cup {"malformed"}], [Plain(0) EXCEPT !.has = {"core"}]}
    <3> DEFINE four == Plain(4)
               zero == Plain(0)
               more == four.has \cup {"malformed"}
               core == {"core"}
    <3>1. d = [four EXCEPT !.has = more] \/ d = [zero EXCEPT !.has = core]
      BY <2>4
    <3>2. New(four) /\ New(zero)
      BY <1>2
    <3> HIDE DEF New, four, zero, more, core
    <3>3. New([four EXCEPT !.has = more])
      BY <3>2, <1>3
    <3>4. New([zero EXCEPT !.has = core])
      BY <3>2, <1>3
    <3> QED BY <3>1, <3>3, <3>4
  <2>5. CASE d \in {[Plain(8) EXCEPT !.store = "none"], [Plain(8) EXCEPT !.loose = TRUE],
                    [Plain(8) EXCEPT !.version = 9]}
    <3> HIDE DEF New
    <3>1. New(Plain(8))
      BY <1>2
    <3>2. New([Plain(8) EXCEPT !.store = "none"])
      BY <3>1, <1>6
    <3>3. New([Plain(8) EXCEPT !.loose = TRUE])
      BY <3>1, <1>4
    <3>4. New([Plain(8) EXCEPT !.version = 9])
      BY <3>1, <1>5
    <3> QED BY <2>5, <3>2, <3>3, <3>4
  <2>6. CASE d \in {Replied(o, e1, e2, t1) : o \in {"a", "b"}, e1 \in 0..1, e2 \in 0..2, t1 \in 0..1}
    <3>1. PICK x : d = [Plain(3) EXCEPT !.claims = x]
      BY <2>6 DEF Replied
    <3> HIDE DEF New
    <3> QED BY <3>1, <1>2, <1>7
  <2> QED BY <2>1, <2>2, <2>3, <2>4, <2>5, <2>6 DEF OnDisk
<1>11. ASSUME NEW d, New(d) PROVE IsDatabase(d)
  BY <1>11 DEF IsDatabase
<1>12. New(Other)
  <2> HIDE DEF New
  <2> QED BY <1>2 DEF Other
<1> HIDE DEF New
<1> QED BY <1>1, <1>10, <1>11, <1>12

LEMMA OpeningBegins == OpeningInit => OpeningInv
<1> SUFFICES ASSUME OpeningInit PROVE OpeningInv
  OBVIOUS
<1>1. path \in 0..2 /\ opener = [p \in Opener |-> Unopened]
  BY DEF OpeningInit
<1>2. PICK d \in OnDisk :
        disk = [f \in Files |-> IF f = 2 THEN Other ELSE IF path = 0 THEN Empty ELSE d]
  BY DEF OpeningInit
<1>3. DisksInv
  BY <1>2, FoundDatabases DEF DisksInv
<1>4. Unopened \in Opening /\ Unopened.pc = "idle"
  BY DEF Unopened, Opening, Stages
<1>5. Stays(Unopened, disk, path)
  BY <1>4 DEF Stays, Trails, IsOpened, IsIdentified, Connected, Holding, Given
<1>6. opener \in [Opener -> Opening] /\ \A p \in Opener : opener[p] = Unopened
  BY <1>1, <1>4
<1> QED BY <1>1, <1>3, <1>5, <1>6 DEF OpeningInv

LEMMA OpeningStutters == OpeningInv /\ UNCHANGED openingVars => OpeningInv'
BY DEF OpeningInv, DisksInv, openingVars

LEMMA OpeningSteps == OpeningInv /\ [OpeningNext]_openingVars => OpeningInv'
<1> SUFFICES ASSUME OpeningInv, [OpeningNext]_openingVars PROVE OpeningInv'
  OBVIOUS
<1>1. ASSUME NEW p \in Opener, Start(p) \/ OpeningStep(p) \/ OpenerDies(p) PROVE OpeningInv'
  <2>1. CASE Start(p)
    BY <2>1, OpenerStarts
  <2>2. CASE AcquireStateDirectory(p)
    BY <2>2, DirectoryAcquired
  <2>3. CASE AcquireDatabase(p)
    BY <2>3, DatabaseAcquired
  <2>4. CASE CreateDatabase(p)
    BY <2>4, DatabaseCreated
  <2>5. CASE VerifyPath(p)
    BY <2>5, PathVerified
  <2>6. CASE Connect(p)
    BY <2>6, ConnectionOpened
  <2>7. CASE PreflightExisting(p)
    BY <2>7, ExistingPreflighted
  <2>8. CASE BeginMigration(p)
    BY <2>8, MigrationBegun
  <2>9. CASE Migrate(p)
    BY <2>9, DatabaseMigrated
  <2>10. CASE Busy(p)
    BY <2>10, WaitEnds
  <2>11. CASE ReadStoreID(p)
    BY <2>11, StoreIDRead
  <2>12. CASE InsertStoreID(p)
    BY <2>12, StoreIDInserted
  <2>13. CASE ReplaceLegacyID(p)
    BY <2>13, LegacyIDReplaced
  <2>14. CASE FinishOpen(p)
    BY <2>14, OpenFinished
  <2>15. CASE ValidateOpenIdentity(p)
    BY <2>15, IdentityChecked
  <2>16. CASE ReadIdentityRow(p)
    BY <2>16, RowRead
  <2>17. CASE ValidateAgain(p)
    BY <2>17, FilesCheckedAgain
  <2>18. CASE OpenerDies(p)
    BY <2>18, OpenerDead
  <2> QED
    BY <1>1, <2>1, <2>2, <2>3, <2>4, <2>5, <2>6, <2>7, <2>8, <2>9, <2>10, <2>11, <2>12,
       <2>13, <2>14, <2>15, <2>16, <2>17, <2>18 DEF OpeningStep
<1>2. CASE Exchange
  BY <1>2, PathExchanged
<1>3. CASE UNCHANGED openingVars
  BY <1>3, OpeningStutters
<1> QED BY <1>1, <1>2, <1>3 DEF OpeningNext

(* An alias, where there is one, leads from the legacy ID to the store's.   *)
LEMMA AliasResolves ==
    ASSUME OpeningInv, NEW p \in Opener, opener[p].pc \in {"open", "ready"},
           disk[opener[p].fd].aliases # {}
    PROVE  ResolveID(p, "legacy") = opener[p].store
<1> DEFINE d == disk[opener[p].fd]
           known == {a \in disk[opener[p].conn].aliases : a[1] = "legacy"}
<1>1. opener[p].conn = opener[p].fd /\ opener[p].store = d.store
  BY OpenerTyped DEF Stays, IsOpened, IsIdentified, Holding, Given
<1>2. opener[p].fd \in Files
  BY OpenerTyped DEF Connected
<1>3. d.aliases = {<<"legacy", d.store>>} /\ d.store \notin Blank
  BY <1>2 DEF OpeningInv, DisksInv, IsDatabase
<1>4. known = {<<"legacy", d.store>>}
  BY <1>1, <1>3
<1>5. "legacy" # opener[p].store
  BY <1>1, <1>3 DEF Blank
<1>6. ResolveID(p, "legacy") = IF known = {} THEN "none" ELSE (CHOOSE a \in known : TRUE)[2]
  BY <1>5 DEF ResolveID
<1> HIDE DEF known, d
<1>7. (CHOOSE a \in known : TRUE) = <<"legacy", d.store>>
  BY <1>4
<1> QED BY <1>1, <1>4, <1>6, <1>7

LEMMA InvGivesOpening == OpeningInv => OpensTheRightFile
<1> SUFFICES ASSUME OpeningInv PROVE OpensTheRightFile
  OBVIOUS
<1>1. ASSUME NEW p \in Opener, opener[p].pc \in {"open", "ready"}
      PROVE  /\ opener[p].conn = opener[p].fd /\ ~disk[opener[p].fd].loose
             /\ opener[p].store = disk[opener[p].fd].store /\ opener[p].store \notin Blank
             /\ opener[p].pc = "ready" => opener[p].read = opener[p].fd
  BY <1>1, OpenerTyped DEF Stays, IsOpened, IsIdentified, Holding, Given
<1>2. OneIdentity
  BY <1>1, AliasResolves DEF OneIdentity, Blank
<1>3. OpenedIsTheCheckedFile
  BY <1>1 DEF OpenedIsTheCheckedFile
<1>4. ReadyIsAboutItsFile
  BY <1>1 DEF ReadyIsAboutItsFile, Stands
<1> QED BY <1>2, <1>3, <1>4 DEF OpensTheRightFile

(* Whoever holds a journal open holds the file whose descriptor it checked, *)
(* under the one identity that file has for good, and a reference to a      *)
(* replaced legacy ID still leads there (safe_open_unix.go, journal.go      *)
(* initialize, loadOrCreateStoreID, ValidateStoreIdentity): for any number  *)
(* of openers, however they interleave, wait, die and find another file     *)
(* moved over the path.                                                     *)
THEOREM OpeningSound == OpeningSpec => []OpensTheRightFile
<1>1. OpeningSpec => []OpeningInv
  BY OpeningBegins, OpeningSteps, PTL DEF OpeningSpec
<1> QED BY <1>1, InvGivesOpening, PTL

-----------------------------------------------------------------------------
(***************************************************************************)
(* StoreOpening: what a migration leaves.                                  *)
(***************************************************************************)

ReplyRecord == [reply : {"m1", "m2", "m3"}, original : {"a", "b"}, event : Nat, time : Nat, seq : Nat]

(* RepairKeepsOrder of one database.                                        *)
Ordered(d) ==
    \A c \in d.claims :
        /\ \A e \in d.claims : c.seq < e.seq =>
               (c.event # 0 /\ c.event < e.event) \/ (c.event = 0 /\ e.event = 0 /\ c.time < e.time)
        /\ \E w \in d.claims : <<c.original, w.reply>> \in d.winners /\ w.seq <= c.seq
        /\ Cardinality({w \in d.winners : w[1] = c.original}) = 1

(* Only a version 3 journal has replies whose order is not settled.         *)
IsSettled(d) ==
    /\ d = [x \in DOMAIN d |-> d[x]] /\ d.version \in 0..9
    /\ d.version = 3 => d.claims \subseteq ReplyRecord /\ IsFiniteSet(d.claims)
    /\ d.version \notin {3, 8} => d.claims = {}
    /\ d.version = 8 => Ordered(d)
IsCurrent(d) == d.version = 8 /\ SoundV8(d)

SchemaInv ==
    /\ \A f \in Files : IsSettled(disk[f])
    /\ \A p \in Opener : opener[p].pc \in {"identity", "insert", "legacy"} => IsCurrent(disk[opener[p].conn])

(* The order of the evidence: the rank of a claim is the number of claims   *)
(* whose evidence is no later.                                              *)
Below(cs, c) == {e \in cs : EvidenceKey(e) <= EvidenceKey(c)}
Rank(cs, c) == Cardinality(Below(cs, c))
Ranked(cs, c) == [c EXCEPT !.seq = Rank(cs, c)]

LEMMA KeyIsNatural == \A c \in ReplyRecord : EvidenceKey(c) \in Nat
BY DEF ReplyRecord, EvidenceKey, Domain

LEMMA RankOrders ==
    ASSUME NEW cs, cs \subseteq ReplyRecord, IsFiniteSet(cs), NEW c \in cs, NEW e \in cs
    PROVE  /\ Rank(cs, c) \in Nat
           /\ EvidenceKey(c) <= EvidenceKey(e) => Rank(cs, c) <= Rank(cs, e)
           /\ EvidenceKey(c) < EvidenceKey(e) => Rank(cs, c) < Rank(cs, e)
<1>1. \A x \in cs : EvidenceKey(x) \in Nat
  BY KeyIsNatural
<1>2. IsFiniteSet(Below(cs, c)) /\ IsFiniteSet(Below(cs, e))
  BY FS_Subset DEF Below
<1>3. Rank(cs, c) \in Nat /\ Rank(cs, e) \in Nat
  BY <1>2, FS_CardinalityType DEF Rank
<1>4. ASSUME EvidenceKey(c) <= EvidenceKey(e) PROVE Below(cs, c) \subseteq Below(cs, e)
  BY <1>1, <1>4 DEF Below
<1>5. EvidenceKey(c) <= EvidenceKey(e) => Rank(cs, c) <= Rank(cs, e)
  BY <1>2, <1>4, FS_Subset DEF Rank
<1>6. ASSUME EvidenceKey(c) < EvidenceKey(e) PROVE Rank(cs, c) < Rank(cs, e)
  <2>1. EvidenceKey(c) <= EvidenceKey(e)
    BY <1>1, <1>6
  <2>2. Below(cs, c) \subseteq Below(cs, e)
    BY <1>4, <2>1
  <2>3. e \in Below(cs, e) /\ e \notin Below(cs, c)
    BY <1>1, <1>6 DEF Below
  <2>4. Below(cs, c) # Below(cs, e)
    BY <2>3
  <2> QED BY <1>2, <2>2, <2>4, FS_Subset, FS_CardinalityType DEF Rank
<1> QED BY <1>3, <1>5, <1>6

LEMMA RankedIs ==
    ASSUME NEW cs, cs \subseteq ReplyRecord, IsFiniteSet(cs), NEW c \in cs
    PROVE  /\ Ranked(cs, c) \in ReplyRecord /\ Ranked(cs, c).seq = Rank(cs, c)
           /\ Ranked(cs, c).reply = c.reply /\ Ranked(cs, c).original = c.original
           /\ Ranked(cs, c).event = c.event /\ Ranked(cs, c).time = c.time
<1>1. Rank(cs, c) \in Nat
  BY RankOrders
<1> QED BY <1>1 DEF Ranked, ReplyRecord

LEMMA RenumberedIs ==
    ASSUME NEW cs
    PROVE  Renumbered(cs) = {Ranked(cs, c) : c \in cs}
BY DEF Renumbered, Ranked, Rank, Below

(* The repair: the rank follows the evidence, so the order of the commits   *)
(* is that of the evidence, and the first of an original is its one winner. *)
LEMMA RankFollowsKey ==
    ASSUME NEW cs, cs \subseteq ReplyRecord, IsFiniteSet(cs), NEW c \in cs, NEW e \in cs
    PROVE  /\ Ranked(cs, c).seq < Ranked(cs, e).seq <=> EvidenceKey(c) < EvidenceKey(e)
           /\ Ranked(cs, c).seq <= Ranked(cs, e).seq <=> EvidenceKey(c) <= EvidenceKey(e)
<1>1. EvidenceKey(c) \in Nat /\ EvidenceKey(e) \in Nat
  BY KeyIsNatural
<1>2. /\ Rank(cs, c) \in Nat /\ Rank(cs, e) \in Nat
      /\ EvidenceKey(c) < EvidenceKey(e) => Rank(cs, c) < Rank(cs, e)
      /\ EvidenceKey(e) < EvidenceKey(c) => Rank(cs, e) < Rank(cs, c)
      /\ EvidenceKey(c) <= EvidenceKey(e) => Rank(cs, c) <= Rank(cs, e)
      /\ EvidenceKey(e) <= EvidenceKey(c) => Rank(cs, e) <= Rank(cs, c)
  BY RankOrders
<1>3. Ranked(cs, c).seq = Rank(cs, c) /\ Ranked(cs, e).seq = Rank(cs, e)
  BY RankedIs
<1> QED BY <1>1, <1>2, <1>3

(* The least of some numbers.                                               *)
LEMMA LeastExists ==
    ASSUME NEW T, T \subseteq Nat, T # {}
    PROVE  \E x \in T : \A y \in T : x <= y
<1>1. \E x \in T : \A y \in T : ~ (<<y, x>> \in OpToRel(<, Nat))
  <2>1. IsWellFoundedOn(OpToRel(<, Nat), Nat)
    BY NatLessThanWellFounded
  <2> QED BY <2>1, WFMin
<1>2. PICK x \in T : \A y \in T : ~ (y < x)
  BY <1>1 DEF OpToRel
<1> QED BY <1>2

LEMMA LeastKey ==
    ASSUME NEW T, T \subseteq ReplyRecord, T # {}
    PROVE  \E c \in T : \A e \in T : EvidenceKey(c) <= EvidenceKey(e)
<1> DEFINE ks == {EvidenceKey(c) : c \in T}
<1>1. ks \subseteq Nat /\ ks # {}
  BY KeyIsNatural
<1>2. PICK k \in ks : \A l \in ks : k <= l
  <2> HIDE DEF ks
  <2> QED BY <1>1, LeastExists
<1>4. PICK c \in T : k = EvidenceKey(c)
  BY <1>2
<1>5. \A e \in T : EvidenceKey(e) \in ks
  OBVIOUS
<1> QED BY <1>2, <1>4, <1>5

LEMMA EvidenceDiffers ==
    ASSUME NEW cs, cs \subseteq ReplyRecord, ~Ambiguous(cs), NEW c \in cs, NEW e \in cs
    PROVE  /\ EvidenceKey(c) = EvidenceKey(e) => c = e
           /\ EvidenceKey(c) < EvidenceKey(e) =>
                 (c.event # 0 /\ c.event < e.event) \/ (c.event = 0 /\ e.event = 0 /\ c.time < e.time)
<1>1. Domain(c) = Domain(e) /\ Domain(c) # "none" /\ (EvidenceKey(c) = EvidenceKey(e) => c = e)
  BY DEF Ambiguous
<1>2. CASE Domain(c) = "event"
  <2>1. c.event # 0 /\ e.event # 0 /\ EvidenceKey(c) = c.event /\ EvidenceKey(e) = e.event
    BY <1>1, <1>2 DEF Domain, EvidenceKey
  <2> QED BY <1>1, <2>1
<1>3. CASE Domain(c) = "time"
  <2>1. c.event = 0 /\ e.event = 0 /\ EvidenceKey(c) = c.time /\ EvidenceKey(e) = e.time
    BY <1>1, <1>3 DEF Domain, EvidenceKey
  <2> QED BY <1>1, <2>1
<1>4. Domain(c) \in {"event", "time", "none"}
  BY DEF Domain
<1> QED BY <1>1, <1>2, <1>3, <1>4

LEMMA SameNumber == \A k, l \in Nat : k <= l /\ l <= k => k = l
OBVIOUS

LEMMA RepairOrders ==
    ASSUME NEW d, NEW n, d.claims \subseteq ReplyRecord, IsFiniteSet(d.claims), ~Ambiguous(d.claims),
           n.claims = Renumbered(d.claims),
           n.winners = {<<c.original, c.reply>> : c \in {w \in n.claims :
                          \A e \in n.claims : e.original = w.original => w.seq <= e.seq}}
    PROVE  Ordered(n)
<1> DEFINE cs == d.claims
           R(c) == Ranked(cs, c)
           First(c) == \A e \in cs : e.original = c.original => EvidenceKey(c) <= EvidenceKey(e)
<1>1. n.claims = {R(c) : c \in cs}
  BY RenumberedIs
<1>2. ASSUME NEW c \in cs, NEW e \in cs
      PROVE  /\ R(c).seq < R(e).seq <=> EvidenceKey(c) < EvidenceKey(e)
             /\ R(c).seq <= R(e).seq <=> EvidenceKey(c) <= EvidenceKey(e)
  BY RankFollowsKey
<1>3. ASSUME NEW c \in cs
      PROVE  /\ R(c).reply = c.reply /\ R(c).original = c.original
             /\ R(c).event = c.event /\ R(c).time = c.time
  BY RankedIs
<1> HIDE DEF R
<1>4. ASSUME NEW c \in cs
      PROVE  (\A e \in n.claims : e.original = R(c).original => R(c).seq <= e.seq) <=> First(c)
  <2>1. ASSUME First(c), NEW e \in n.claims, e.original = R(c).original PROVE R(c).seq <= e.seq
    <3>1. PICK b \in cs : e = R(b)
      BY <1>1
    <3> QED BY <2>1, <3>1, <1>2, <1>3
  <2>2. ASSUME \A e \in n.claims : e.original = R(c).original => R(c).seq <= e.seq,
               NEW b \in cs, b.original = c.original
        PROVE  EvidenceKey(c) <= EvidenceKey(b)
    <3>1. R(b) \in n.claims /\ R(b).original = R(c).original
      BY <1>1, <1>3, <2>2
    <3> QED BY <2>2, <3>1, <1>2
  <2> QED BY <2>1, <2>2
<1>5. \A x : x \in n.winners <=> \E c \in cs : First(c) /\ x = <<c.original, c.reply>>
  <2>1. ASSUME NEW x \in n.winners PROVE \E c \in cs : First(c) /\ x = <<c.original, c.reply>>
    <3>1. PICK w \in n.claims : /\ \A e \in n.claims : e.original = w.original => w.seq <= e.seq
                                /\ x = <<w.original, w.reply>>
      BY <2>1
    <3>2. PICK c \in cs : w = R(c)
      BY <1>1
    <3> HIDE DEF First
    <3> QED BY <3>1, <3>2, <1>3, <1>4
  <2>2. ASSUME NEW c \in cs, First(c) PROVE <<c.original, c.reply>> \in n.winners
    <3>1. R(c) \in n.claims /\ \A e \in n.claims : e.original = R(c).original => R(c).seq <= e.seq
      BY <1>1, <1>4, <2>2
    <3>2. <<R(c).original, R(c).reply>> \in n.winners
      BY <3>1
    <3> QED BY <3>2, <1>3
  <2> QED BY <2>1, <2>2
<1>6. ASSUME NEW c \in cs
      PROVE  \E b \in cs : First(b) /\ b.original = c.original /\ EvidenceKey(b) <= EvidenceKey(c)
  <2> DEFINE T == {e \in cs : e.original = c.original}
  <2>1. c \in T /\ T \subseteq ReplyRecord
    OBVIOUS
  <2>2. PICK b \in T : \A e \in T : EvidenceKey(b) <= EvidenceKey(e)
    BY <2>1, LeastKey
  <2> QED BY <2>1, <2>2
<1>7. ASSUME NEW b \in cs, NEW c \in cs, First(b), First(c), b.original = c.original PROVE b = c
  <2>1. EvidenceKey(b) \in Nat /\ EvidenceKey(c) \in Nat
    BY KeyIsNatural
  <2>2. EvidenceKey(b) <= EvidenceKey(c) /\ EvidenceKey(c) <= EvidenceKey(b)
    BY <1>7 DEF First
  <2>3. EvidenceKey(b) = EvidenceKey(c)
    BY <2>1, <2>2, SameNumber
  <2> QED BY <2>3, EvidenceDiffers
<1> HIDE DEF First
<1>8. ASSUME NEW c \in cs
      PROVE  /\ \A e \in n.claims : R(c).seq < e.seq =>
                 (c.event # 0 /\ c.event < e.event) \/ (c.event = 0 /\ e.event = 0 /\ c.time < e.time)
             /\ \E w \in n.claims : <<c.original, w.reply>> \in n.winners /\ w.seq <= R(c).seq
             /\ Cardinality({w \in n.winners : w[1] = c.original}) = 1
  <2>1. ASSUME NEW e \in n.claims, R(c).seq < e.seq
        PROVE  (c.event # 0 /\ c.event < e.event) \/ (c.event = 0 /\ e.event = 0 /\ c.time < e.time)
    <3>1. PICK b \in cs : e = R(b)
      BY <1>1
    <3>2. EvidenceKey(c) < EvidenceKey(b) /\ e.event = b.event /\ e.time = b.time
      BY <2>1, <3>1, <1>2, <1>3
    <3> QED BY <3>2, EvidenceDiffers
  <2>2. PICK b \in cs : First(b) /\ b.original = c.original /\ EvidenceKey(b) <= EvidenceKey(c)
    BY <1>6
  <2>3. R(b) \in n.claims /\ <<c.original, R(b).reply>> \in n.winners /\ R(b).seq <= R(c).seq
    BY <2>2, <1>1, <1>2, <1>3, <1>5
  <2>4. {w \in n.winners : w[1] = c.original} = {<<b.original, b.reply>>}
    <3>1. <<b.original, b.reply>> \in n.winners
      BY <2>2, <1>5
    <3>2. ASSUME NEW w \in n.winners, w[1] = c.original PROVE w = <<b.original, b.reply>>
      <4>1. PICK a \in cs : First(a) /\ w = <<a.original, a.reply>>
        BY <1>5
      <4>2. a.original = b.original
        BY <3>2, <4>1, <2>2
      <4> QED BY <4>1, <4>2, <2>2, <1>7
    <3> QED BY <3>1, <3>2, <2>2
  <2> QED BY <2>1, <2>3, <2>4, FS_Singleton
<1>9. ASSUME NEW x \in n.claims
      PROVE  \E c \in cs : x = R(c) /\ x.event = c.event /\ x.time = c.time /\ x.original = c.original
  BY <1>1, <1>3
<1>10. ASSUME NEW x \in n.claims
       PROVE  /\ \A e \in n.claims : x.seq < e.seq =>
                  (x.event # 0 /\ x.event < e.event) \/ (x.event = 0 /\ e.event = 0 /\ x.time < e.time)
              /\ \E w \in n.claims : <<x.original, w.reply>> \in n.winners /\ w.seq <= x.seq
              /\ Cardinality({w \in n.winners : w[1] = x.original}) = 1
  <2>1. PICK c \in cs : x = R(c) /\ x.event = c.event /\ x.time = c.time /\ x.original = c.original
    BY <1>9
  <2> HIDE DEF cs
  <2> QED BY <1>8, <2>1
<1> QED BY <1>10 DEF Ordered

-----------------------------------------------------------------------------
(* What a version promises: a part that a later version brings is none of   *)
(* it, and the current schema holds all of it.                              *)
LEMMA PartOfShape ==
    ASSUME NEW v \in 0..8, NEW x
    PROVE  /\ x \in Shape(v) <=> \E u \in 1..8 : u <= v /\ x \in Brought[u]
           /\ x \in Shape(v) => x \in Current
<1>1. x \in Shape(v) <=> \E u \in 1..8 : u <= v /\ x \in Brought[u]
  BY DEF Shape
<1>2. \A u \in 1..8 : u <= 8
  OBVIOUS
<1>3. x \in Current <=> \E u \in 1..8 : x \in Brought[u]
  BY <1>2 DEF Current, Shape
<1> QED BY <1>1, <1>3

LEMMA PartsBrought ==
    ASSUME NEW u \in 1..8
    PROVE  /\ "leases" \in Brought[u] => u = 2
           /\ "checks" \in Brought[u] => u = 2
           /\ "custody" \in Brought[u] => u = 2
           /\ "routes" \in Brought[u] => u = 3
           /\ "acceptances" \in Brought[u] => u = 4
           /\ "supplement" \in Brought[u] => u = 5
           /\ "replyTuple" \in Brought[u] => u = 6
           /\ "endpoints" \in Brought[u] => u = 7
           /\ "errorCode" \in Brought[u] => u = 8
<1>1. u = 1 \/ u = 2 \/ u = 3 \/ u = 4 \/ u = 5 \/ u = 6 \/ u = 7 \/ u = 8
  OBVIOUS
<1>2. /\ u = 1 => Brought[u] = {"core"}
      /\ u = 2 => Brought[u] = {"leases", "checks", "custody"}
      /\ u = 3 => Brought[u] = {"routes"}
      /\ u = 4 => Brought[u] = {"acceptances"}
  BY DEF Brought
<1>3. /\ u = 5 => Brought[u] = {"supplement"}
      /\ u = 6 => Brought[u] = {"replyTuple"}
      /\ u = 7 => Brought[u] = {"endpoints"}
      /\ u = 8 => Brought[u] = {"errorCode"}
  BY DEF Brought
<1> QED BY <1>1, <1>2, <1>3

LEMMA LaterParts ==
    ASSUME NEW v \in 0..8
    PROVE  /\ v < 2 => "leases" \notin Shape(v) /\ "checks" \notin Shape(v) /\ "custody" \notin Shape(v)
           /\ v < 3 => "routes" \notin Shape(v)
           /\ v < 4 => "acceptances" \notin Shape(v)
           /\ v < 5 => "supplement" \notin Shape(v)
           /\ v < 6 => "replyTuple" \notin Shape(v)
           /\ v < 7 => "endpoints" \notin Shape(v)
           /\ v < 8 => "errorCode" \notin Shape(v)
BY PartOfShape, PartsBrought

(* A migration of d has come to b: everything d had is there, what it       *)
(* lacked of its own version it still lacks, and its replies are those of   *)
(* base, which is d, or d repaired.                                         *)
Grown(d, base, b) ==
    /\ DOMAIN b = DOMAIN d /\ b = [x \in DOMAIN b |-> b[x]]
    /\ d.has \subseteq b.has /\ b.has \cap Shape(d.version) \subseteq d.has
    /\ b.claims = base.claims /\ b.winners = base.winners

LEMMA WithGrows ==
    ASSUME NEW d, IsDatabase(d), NEW base, NEW b, Grown(d, base, b), NEW to,
           NEW parts, parts \cap Shape(d.version) = {}
    PROVE  Grown(d, base, With(b, parts, to)) /\ With(b, parts, to).version = to
<1> DEFINE n == With(b, parts, to)
<1>1. /\ DOMAIN n = DOMAIN b /\ n = [x \in DOMAIN n |-> n[x]] /\ n.version = to
      /\ n.has = b.has \cup parts /\ n.claims = b.claims /\ n.winners = b.winners
  BY DEF With, Grown, IsDatabase
<1> HIDE DEF n
<1>2. Grown(d, base, n)
  BY <1>1 DEF Grown
<1> QED BY <1>1, <1>2 DEF n

LEMMA UpgradesGrow ==
    ASSUME NEW d, IsDatabase(d), d.version \in 0..8, NEW base, NEW ds, \A b \in ds : Grown(d, base, b)
    PROVE  /\ d.version < 5 => \A n \in V4ToV5(ds) : Grown(d, base, n)
           /\ d.version < 6 => \A n \in V5ToV6(ds) : Grown(d, base, n)
           /\ d.version < 7 => \A n \in V6ToV7(ds) : Grown(d, base, n)
           /\ d.version < 8 => \A n \in V7ToV8(ds) : Grown(d, base, n) /\ n.version = 8 /\ SoundV8(n)
<1> DEFINE v == d.version
<1>0. /\ v < 5 => {"supplement"} \cap Shape(v) = {}
      /\ v < 6 => {"replyTuple"} \cap Shape(v) = {}
      /\ v < 7 => {"endpoints"} \cap Shape(v) = {}
      /\ v < 8 => {"errorCode"} \cap Shape(v) = {}
  BY LaterParts
<1>1. ASSUME v < 5, NEW n \in V4ToV5(ds) PROVE Grown(d, base, n)
  <2>1. PICK b \in ds : n = With(b, {"supplement"}, 5)
    BY <1>1 DEF V4ToV5, Upgrade
  <2> QED BY <1>0, <1>1, <2>1, WithGrows
<1>2. ASSUME v < 6, NEW n \in V5ToV6(ds) PROVE Grown(d, base, n)
  <2>1. PICK b \in ds : n = With(b, {"replyTuple"}, 6)
    BY <1>2 DEF V5ToV6, Upgrade
  <2> QED BY <1>0, <1>2, <2>1, WithGrows
<1>3. ASSUME v < 7, NEW n \in V6ToV7(ds) PROVE Grown(d, base, n)
  <2>1. PICK b \in ds : n = With(b, {"endpoints"}, 7)
    BY <1>3 DEF V6ToV7, Upgrade
  <2> QED BY <1>0, <1>3, <2>1, WithGrows
<1>4. ASSUME v < 8, NEW n \in V7ToV8(ds) PROVE Grown(d, base, n) /\ n.version = 8 /\ SoundV8(n)
  <2>1. PICK b \in ds : n = With(b, {"errorCode"}, 8)
    BY <1>4 DEF V7ToV8, Upgrade
  <2>2. SoundV8(n)
    BY <1>4 DEF V7ToV8, Upgrade
  <2> QED BY <1>0, <1>4, <2>1, <2>2, WithGrows
<1> QED BY <1>1, <1>2, <1>3, <1>4

Base(d) == IF d.version = 3 THEN Repaired(d) ELSE d

LEMMA BaseGrows ==
    ASSUME NEW d, IsDatabase(d), d = [x \in DOMAIN d |-> d[x]]
    PROVE  /\ Grown(d, Base(d), Base(d))
           /\ d.version # 3 => Grown(d, Base(d), d)
<1>1. CASE d.version # 3
  BY <1>1 DEF Base, Grown
<1>2. CASE d.version = 3
  <2> DEFINE cs == Renumbered(d.claims)
             ws == {<<c.original, c.reply>> : c \in {w \in cs :
                       \A e \in cs : e.original = w.original => w.seq <= e.seq}}
             n == [d EXCEPT !.claims = cs, !.winners = ws]
  <2>0. Base(d) = n
    BY <1>2 DEF Base, Repaired
  <2> HIDE DEF cs, ws
  <2>1. DOMAIN n = DOMAIN d /\ n = [x \in DOMAIN n |-> n[x]] /\ n.has = d.has
    BY DEF IsDatabase
  <2> HIDE DEF n
  <2>2. Grown(d, n, n)
    BY <2>1 DEF Grown
  <2> QED BY <2>0, <2>2, <1>2
<1> QED BY <1>1, <1>2

LEMMA FirstStepsGrow ==
    ASSUME NEW d, IsDatabase(d), d = [x \in DOMAIN d |-> d[x]]
    PROVE  /\ d.version = 0 => \A n \in Created(d) : Grown(d, Base(d), n)
           /\ d.version = 1 => \A n \in V1ToV4(d) : Grown(d, Base(d), n)
           /\ d.version = 2 => \A n \in V2ToV4(d) : Grown(d, Base(d), n)
           /\ d.version = 3 => \A n \in V3ToV4(d) : Grown(d, Base(d), n)
<1>1. ASSUME d.version = 0, NEW n \in Created(d) PROVE Grown(d, Base(d), n)
  <2>1. Shape(0) = {}
    BY PartOfShape
  <2>2. PICK parts : n = With(d, parts, 7)
    BY <1>1 DEF Created
  <2>3. parts \cap Shape(d.version) = {} /\ Grown(d, Base(d), d)
    BY <1>1, <2>1, BaseGrows
  <2> QED BY <2>2, <2>3, WithGrows
<1>2. ASSUME d.version = 1, NEW n \in V1ToV4(d) PROVE Grown(d, Base(d), n)
  <2> DEFINE parts == {"leases", "routes", "checks", "custody", "acceptances", "supplement"}
  <2>1. n = With(d, parts, 5)
    BY <1>2 DEF V1ToV4
  <2>2. parts \cap Shape(1) = {}
    BY LaterParts
  <2>3. Grown(d, Base(d), d)
    BY <1>2, BaseGrows
  <2> HIDE DEF parts
  <2> QED BY <1>2, <2>1, <2>2, <2>3, WithGrows
<1>3. ASSUME d.version = 2, NEW n \in V2ToV4(d) PROVE Grown(d, Base(d), n)
  <2> DEFINE parts == {"routes", "acceptances", "supplement"}
  <2>1. n = With(d, parts, 4)
    BY <1>3 DEF V2ToV4
  <2>2. parts \cap Shape(2) = {}
    BY LaterParts
  <2>3. Grown(d, Base(d), d)
    BY <1>3, BaseGrows
  <2> HIDE DEF parts
  <2> QED BY <1>3, <2>1, <2>2, <2>3, WithGrows
<1>4. ASSUME d.version = 3, NEW n \in V3ToV4(d) PROVE Grown(d, Base(d), n)
  <2>1. n = With(Base(d), {"acceptances"}, 4)
    BY <1>4 DEF V3ToV4, Base
  <2>2. {"acceptances"} \cap Shape(3) = {}
    BY LaterParts
  <2> QED BY <1>4, <2>1, <2>2, BaseGrows, WithGrows
<1> QED BY <1>1, <1>2, <1>3, <1>4

(* A migration, from any version, ends in a current schema that has all the *)
(* database had, and it had all that its version promises.                  *)
LEMMA MigrationGrows ==
    ASSUME NEW d, IsDatabase(d), d = [x \in DOMAIN d |-> d[x]], NEW n \in Migrated(d)
    PROVE  /\ d.version \in 0..8
           /\ Grown(d, Base(d), n) /\ n.version = 8 /\ SoundV8(n)
           /\ d.version = 3 => ~Ambiguous(d.claims)
           /\ d.version = 8 => n = d
<1> DEFINE v == d.version
           From7(ds) == V7ToV8(ds)
           From6(ds) == From7(V6ToV7(ds))
           From5(ds) == From6(V5ToV6(ds))
           From4(ds) == From5(V4ToV5(ds))
           Grow(ds) == \A b \in ds : Grown(d, Base(d), b)
           Ends(ds) == \A b \in ds : Grown(d, Base(d), b) /\ b.version = 8 /\ SoundV8(b)
<1>1. /\ v = 0 => n \in From6({b \in Created(d) : SoundV6(b)})
      /\ v = 1 => n \in From4(V1ToV4(d))
      /\ v = 2 => n \in From4(V2ToV4(d))
      /\ v = 3 => n \in From4(V3ToV4(d))
      /\ v = 4 => n \in From4({d})
      /\ v = 5 => n \in From5({d})
      /\ v = 6 => n \in From6({d})
      /\ v = 7 => n \in From7({d})
      /\ v = 8 => n \in {e \in {d} : SoundV8(e)}
      /\ v > 8 => FALSE
  BY DEF Migrated
<1>2. v \in 0..8
  BY <1>1 DEF IsDatabase
<1>3. ASSUME NEW ds, Grow(ds), v < 8 PROVE Ends(From7(ds))
  BY <1>2, <1>3, UpgradesGrow
<1>4. ASSUME NEW ds, Grow(ds), v < 7 PROVE Ends(From6(ds))
  <2>1. Grow(V6ToV7(ds))
    BY <1>2, <1>4, UpgradesGrow
  <2>2. v < 8
    BY <1>2, <1>4
  <2> HIDE DEF Grow, Ends, From7, v
  <2> QED BY <1>3, <2>1, <2>2
<1>5. ASSUME NEW ds, Grow(ds), v < 6 PROVE Ends(From5(ds))
  <2>1. Grow(V5ToV6(ds))
    BY <1>2, <1>5, UpgradesGrow
  <2>2. v < 7
    BY <1>2, <1>5
  <2> HIDE DEF Grow, Ends, From6, v
  <2> QED BY <1>4, <2>1, <2>2
<1>6. ASSUME NEW ds, Grow(ds), v < 5 PROVE Ends(From4(ds))
  <2>1. Grow(V4ToV5(ds))
    BY <1>2, <1>6, UpgradesGrow
  <2>2. v < 6
    BY <1>2, <1>6
  <2> HIDE DEF Grow, Ends, From5, v
  <2> QED BY <1>5, <2>1, <2>2
<1>7. /\ v = 0 => Grow({b \in Created(d) : SoundV6(b)})
      /\ v = 1 => Grow(V1ToV4(d))
      /\ v = 2 => Grow(V2ToV4(d))
      /\ v = 3 => Grow(V3ToV4(d))
      /\ v # 3 => Grow({d})
  BY FirstStepsGrow, BaseGrows
<1>8. v = 3 => V3ToV4(d) = {} \/ ~Ambiguous(d.claims)
  BY DEF V3ToV4
<1>9. v = 8 => n = d /\ SoundV8(n)
  BY <1>1
<1>10. v = 3 => ~Ambiguous(d.claims)
  <2> SUFFICES ASSUME v = 3, V3ToV4(d) = {} PROVE FALSE
    BY <1>8
  <2>1. n \in From4({})
    BY <1>1
  <2>2. From4({}) = {}
    BY DEF V4ToV5, V5ToV6, V6ToV7, V7ToV8, Upgrade
  <2> HIDE DEF From4
  <2> QED BY <2>1, <2>2
<1>11. CASE v = 8
  <2>1. Grown(d, Base(d), n)
    BY <1>9, <1>11, BaseGrows
  <2> QED BY <1>2, <1>9, <1>11, <2>1
<1>12. CASE v < 8
  <2>1. v \in {0, 1, 2, 3, 4, 5, 6, 7}
    BY <1>2, <1>12
  <2> HIDE DEF Grow, Ends, From4, From5, From6, From7
  <2>2. Ends({n})
    <3>1. \E ds : n \in ds /\ Ends(ds)
      <4>1. CASE v = 0
        BY <4>1, <1>1, <1>4, <1>7
      <4>2. CASE v \in {1, 2, 3, 4}
        BY <4>2, <1>1, <1>6, <1>7
      <4>3. CASE v = 5
        BY <4>3, <1>1, <1>5, <1>7
      <4>4. CASE v = 6
        BY <4>4, <1>1, <1>4, <1>7
      <4>5. CASE v = 7
        BY <4>5, <1>1, <1>3, <1>7
      <4> QED BY <2>1, <4>1, <4>2, <4>3, <4>4, <4>5
    <3> QED BY <3>1 DEF Ends
  <2> QED BY <1>2, <1>10, <1>12, <2>2 DEF Ends
<1> QED BY <1>2, <1>11, <1>12

LEMMA MigrationSettles ==
    ASSUME NEW d, IsDatabase(d), IsSettled(d), NEW n \in Migrated(d)
    PROVE  /\ IsSettled(n) /\ IsCurrent(n)
           /\ d.has \subseteq n.has /\ Shape(d.version) \subseteq d.has
<1>1. /\ d.version \in 0..8 /\ Grown(d, Base(d), n) /\ n.version = 8 /\ SoundV8(n)
      /\ d.version = 3 => ~Ambiguous(d.claims)
      /\ d.version = 8 => n = d
  BY MigrationGrows DEF IsSettled
<1>2. Shape(d.version) \subseteq Current
  BY <1>1, PartOfShape
<1>3. Shape(d.version) \subseteq d.has /\ d.has \subseteq n.has
  BY <1>1, <1>2 DEF Grown, SoundV8
<1>4. Ordered(n)
  <2>1. CASE d.version = 3
    <3> DEFINE cs == Renumbered(d.claims)
               ws == {<<c.original, c.reply>> : c \in {w \in cs :
                         \A e \in cs : e.original = w.original => w.seq <= e.seq}}
               b == [d EXCEPT !.claims = cs, !.winners = ws]
    <3>1. Base(d) = b
      BY <2>1 DEF Base, Repaired
    <3> HIDE DEF cs, ws
    <3>2. b.claims = cs /\ b.winners = ws
      BY DEF IsDatabase
    <3> HIDE DEF b
    <3>3. n.claims = cs /\ n.winners = ws
      BY <1>1, <3>1, <3>2 DEF Grown
    <3>4. n.claims = Renumbered(d.claims)
      BY <3>3 DEF cs
    <3>5. n.winners = {<<c.original, c.reply>> : c \in {w \in n.claims :
                          \A e \in n.claims : e.original = w.original => w.seq <= e.seq}}
      BY <3>3 DEF ws
    <3> QED BY <2>1, <1>1, <3>4, <3>5, RepairOrders DEF IsSettled
  <2>2. CASE d.version = 8
    BY <1>1, <2>2 DEF IsSettled
  <2>3. CASE d.version \notin {3, 8}
    <3>1. n.claims = {}
      BY <1>1, <2>3 DEF Grown, Base, IsSettled
    <3> QED BY <3>1 DEF Ordered
  <2> QED BY <2>1, <2>2, <2>3
<1>5. IsSettled(n)
  BY <1>1, <1>4 DEF IsSettled, Grown
<1> QED BY <1>1, <1>3, <1>5 DEF IsCurrent

-----------------------------------------------------------------------------
(* What a step may do to a database.                                        *)
DiskStep(d, e) ==
    \/ e = d
    \/ e = [d EXCEPT !.loose = FALSE]
    \/ e \in Migrated(d)
    \/ IsCurrent(d) /\ \E id, names : e = [d EXCEPT !.store = id, !.aliases = names]

(* RepairKeepsOrder, MigratesWholly and DamageIsRefused of one database.    *)
StepIsSafe(d, e) ==
    /\ e.version # d.version => IsCurrent(e) /\ d.has \subseteq e.has
    /\ ~(Shape(d.version) \subseteq d.has) => [e EXCEPT !.loose = d.loose] = d

LEMMA DiskStepSettles ==
    ASSUME NEW d, IsDatabase(d), IsSettled(d), NEW e, DiskStep(d, e)
    PROVE  IsSettled(e) /\ (IsCurrent(d) => IsCurrent(e)) /\ StepIsSafe(d, e)
<1>0. d = [x \in DOMAIN d |-> d[x]] /\ "loose" \in DOMAIN d
  BY DEF IsSettled, IsDatabase
<1>1. CASE e = d
  <2>1. [d EXCEPT !.loose = d.loose] = d
    BY <1>0
  <2> QED BY <1>1, <2>1 DEF StepIsSafe
<1>2. CASE e = [d EXCEPT !.loose = FALSE]
  <2>1. /\ e = [x \in DOMAIN e |-> e[x]] /\ e.version = d.version /\ e.has = d.has
        /\ e.claims = d.claims /\ e.winners = d.winners
    BY <1>2 DEF IsDatabase
  <2>2. [e EXCEPT !.loose = d.loose] = d
    <3> DEFINE b == [e EXCEPT !.loose = d.loose]
    <3>1. DOMAIN b = DOMAIN d /\ \A x \in DOMAIN d : b[x] = d[x]
      BY <1>0, <1>2
    <3>2. b = [x \in DOMAIN b |-> b[x]]
      OBVIOUS
    <3> HIDE DEF b
    <3>3. b = d
      BY <1>0, <3>1, <3>2
    <3> QED BY <3>3 DEF b
  <2>3. IsSettled(e) /\ (IsCurrent(d) => IsCurrent(e))
    BY <2>1 DEF IsSettled, Ordered, IsCurrent, SoundV8
  <2> QED BY <2>1, <2>2, <2>3 DEF StepIsSafe
<1>3. CASE e \in Migrated(d)
  <2>1. IsSettled(e) /\ IsCurrent(e) /\ d.has \subseteq e.has /\ Shape(d.version) \subseteq d.has
    BY <1>3, MigrationSettles
  <2> QED BY <2>1 DEF StepIsSafe
<1>4. CASE IsCurrent(d) /\ \E id, names : e = [d EXCEPT !.store = id, !.aliases = names]
  <2>1. PICK id, names : e = [d EXCEPT !.store = id, !.aliases = names]
    BY <1>4
  <2>2. /\ e = [x \in DOMAIN e |-> e[x]] /\ e.version = d.version /\ e.has = d.has
        /\ e.claims = d.claims /\ e.winners = d.winners
    BY <2>1 DEF IsDatabase
  <2>3. IsSettled(e) /\ (IsCurrent(d) => IsCurrent(e))
    BY <2>2 DEF IsSettled, Ordered, IsCurrent, SoundV8
  <2>4. Shape(d.version) \subseteq d.has
    BY <1>4 DEF IsCurrent, SoundV8, Current
  <2> QED BY <2>2, <2>3, <2>4 DEF StepIsSafe
<1> QED BY <1>1, <1>2, <1>3, <1>4 DEF DiskStep

(* Who has gone through a migration, and has not yet an identity.           *)
Migrated8 == {"identity", "insert", "legacy"}

(* A step of p changes the record of p alone, the databases as above, and   *)
(* brings p past a migration only on a database that was migrated.          *)
OpenerSteps(p) ==
    /\ \A f \in Files : DiskStep(disk[f], disk'[f])
    /\ \A q \in Opener \ {p} : opener'[q] = opener[q]
    /\ opener'[p].pc \in Migrated8 =>
          /\ opener'[p].conn = opener[p].conn
          /\ \/ opener[p].pc \in Migrated8
             \/ opener[p].conn \in Files /\ disk'[opener[p].conn] \in Migrated(disk[opener[p].conn])

LEMMA OpenerGoesTo ==
    ASSUME OpeningInv, NEW p \in Opener, NEW l, Goes(p, l)
    PROVE  /\ \A q \in Opener \ {p} : opener'[q] = opener[q]
           /\ opener'[p].pc = l /\ opener'[p].conn = opener[p].conn
BY OpenerTyped DEF OpeningInv, Opening, Goes

LEMMA DisksRest ==
    ASSUME disk' = disk
    PROVE  \A f \in Files : DiskStep(disk[f], disk'[f])
BY DEF DiskStep

(* The steps before and after, which leave the databases alone.             *)
LEMMA OpenerGoesOn ==
    ASSUME OpeningInv, NEW p \in Opener, NEW l, Goes(p, l), disk' = disk,
           l \in Migrated8 => opener[p].pc \in Migrated8
    PROVE  OpenerSteps(p)
BY OpenerGoesTo, DisksRest DEF OpenerSteps

LEMMA OpenerChanges ==
    ASSUME OpeningInv, NEW p \in Opener, disk' = disk, NEW r, opener' = [opener EXCEPT ![p] = r],
           r.pc \notin Migrated8
    PROVE  OpenerSteps(p)
<1>1. opener'[p] = r /\ \A q \in Opener \ {p} : opener'[q] = opener[q]
  BY DEF OpeningInv
<1> QED BY <1>1, DisksRest DEF OpenerSteps

(* One database is written.                                                 *)
LEMMA OneDiskSteps ==
    ASSUME OpeningInv, NEW f \in Files, NEW d, disk' = [disk EXCEPT ![f] = d], DiskStep(disk[f], d)
    PROVE  disk'[f] = d /\ \A g \in Files : DiskStep(disk[g], disk'[g])
<1>1. disk'[f] = d /\ \A g \in Files \ {f} : disk'[g] = disk[g]
  BY DEF OpeningInv, DisksInv
<1>2. DiskStep(disk[f], disk'[f])
  BY <1>1
<1>3. ASSUME NEW g \in Files, g # f PROVE DiskStep(disk[g], disk'[g])
  BY <1>1, <1>3 DEF DiskStep
<1> QED BY <1>1, <1>2, <1>3

LEMMA DatabaseAcquiring == ASSUME OpeningInv, NEW p \in Opener, AcquireDatabase(p) PROVE OpenerSteps(p)
<1>1. CASE \E l \in {"missing", "failed"} : Goes(p, l) /\ disk' = disk
  BY <1>1, OpenerGoesOn DEF Migrated8
<1>2. CASE path # 0 /\ (Creates(p) \/ ~disk[path].loose)
  <2> DEFINE d == [disk[path] EXCEPT !.loose = FALSE]
             r == [opener[p] EXCEPT !.pc = "acquired", !.fd = path]
  <2>1. opener' = [opener EXCEPT ![p] = r] /\ disk' = [disk EXCEPT ![path] = d]
    BY <1>2 DEF AcquireDatabase
  <2>2. path \in Files
    BY <1>2 DEF OpeningInv, Files
  <2>3. DiskStep(disk[path], d)
    BY DEF DiskStep
  <2>4. r.pc = "acquired"
    BY OpenerTyped DEF Opening
  <2> HIDE DEF d, r
  <2>5. \A g \in Files : DiskStep(disk[g], disk'[g])
    BY <2>1, <2>2, <2>3, OneDiskSteps
  <2>6. opener'[p] = r /\ \A q \in Opener \ {p} : opener'[q] = opener[q]
    BY <2>1 DEF OpeningInv
  <2> QED BY <2>4, <2>5, <2>6 DEF OpenerSteps, Migrated8
<1> QED BY <1>1, <1>2 DEF AcquireDatabase

LEMMA DatabaseMigrating == ASSUME OpeningInv, NEW p \in Opener, Migrate(p) PROVE OpenerSteps(p)
<1> DEFINE f == opener[p].conn
<1>1. f \in Files
  BY OpenerTyped DEF Migrate, Stands, Connected
<1>2. CASE Goes(p, "failed") /\ disk' = disk
  BY <1>2, OpenerGoesOn DEF Migrated8
<1>3. CASE \E d \in Migrated(disk[f]) : disk' = [disk EXCEPT ![f] = d] /\ Goes(p, "identity")
  <2>1. PICK d \in Migrated(disk[f]) : disk' = [disk EXCEPT ![f] = d] /\ Goes(p, "identity")
    BY <1>3
  <2>2. DiskStep(disk[f], d)
    BY DEF DiskStep
  <2> HIDE DEF f
  <2>3. disk'[f] = d /\ \A g \in Files : DiskStep(disk[g], disk'[g])
    BY <1>1, <2>1, <2>2, OneDiskSteps
  <2> USE DEF f
  <2>4. opener'[p].conn = opener[p].conn /\ \A q \in Opener \ {p} : opener'[q] = opener[q]
    BY <2>1, OpenerGoesTo
  <2> QED BY <1>1, <2>3, <2>4 DEF OpenerSteps
<1> QED BY <1>2, <1>3 DEF Migrate

LEMMA StoreIDReading == ASSUME OpeningInv, NEW p \in Opener, ReadStoreID(p) PROVE OpenerSteps(p)
<1> DEFINE id == disk[opener[p].conn].store
           l == CASE id = "none" -> "insert" [] id = "legacy" -> "legacy" [] OTHER -> "verify"
           r == [opener[p] EXCEPT !.store = id, !.pc = l]
<1>1. opener' = [opener EXCEPT ![p] = r] /\ disk' = disk /\ opener[p].pc = "identity"
  BY DEF ReadStoreID, Stands
<1>2. r.conn = opener[p].conn
  BY OpenerTyped DEF Opening
<1> HIDE DEF r
<1>3. opener'[p] = r /\ \A q \in Opener \ {p} : opener'[q] = opener[q]
  BY <1>1 DEF OpeningInv
<1> QED BY <1>1, <1>2, <1>3, DisksRest DEF OpenerSteps, Migrated8

(* The two transactions that give a store its identity write a database     *)
(* that was migrated.                                                       *)
LEMMA StoreIDWriting ==
    ASSUME OpeningInv, SchemaInv, NEW p \in Opener, InsertStoreID(p) \/ ReplaceLegacyID(p)
    PROVE  OpenerSteps(p)
<1> DEFINE f == opener[p].conn
<1>1. opener[p].pc \in {"insert", "legacy"}
  BY DEF InsertStoreID, ReplaceLegacyID, Stands
<1>2. f \in Files /\ IsCurrent(disk[f]) /\ IsDatabase(disk[f]) /\ IsSettled(disk[f])
  BY <1>1, OpenerTyped DEF Connected, SchemaInv, OpeningInv, DisksInv
<1>3. PICK id : opener' = [opener EXCEPT ![p].pc = "verify", ![p].store = id]
  BY DEF InsertStoreID, ReplaceLegacyID
<1>4. opener'[p].pc = "verify" /\ \A q \in Opener \ {p} : opener'[q] = opener[q]
  BY <1>3, OpenerTyped DEF OpeningInv, Opening
<1>5. \A g \in Files : DiskStep(disk[g], disk'[g])
  <2>1. CASE disk' = disk
    BY <2>1, DisksRest
  <2>2. CASE \E new : disk' = [disk EXCEPT ![f].store = new]
    <3>1. PICK new : disk' = [disk EXCEPT ![f].store = new]
      BY <2>2
    <3> DEFINE d == [disk[f] EXCEPT !.store = new]
               e == [disk[f] EXCEPT !.store = new, !.aliases = disk[f].aliases]
    <3>2. d = e
      BY <1>2 DEF IsDatabase
    <3>3. DiskStep(disk[f], d)
      BY <1>2, <3>2 DEF DiskStep
    <3>4. disk' = [disk EXCEPT ![f] = d]
      BY <3>1
    <3> HIDE DEF d, f
    <3> QED BY <1>2, <3>3, <3>4, OneDiskSteps
  <2>3. CASE \E new, names : disk' = [disk EXCEPT ![f].store = new, ![f].aliases = names]
    <3>1. PICK new, names : disk' = [disk EXCEPT ![f].store = new, ![f].aliases = names]
      BY <2>3
    <3> DEFINE d == [disk[f] EXCEPT !.store = new, !.aliases = names]
    <3>2. DiskStep(disk[f], d)
      BY <1>2 DEF DiskStep
    <3>3. disk' = [disk EXCEPT ![f] = d]
      BY <3>1, <1>2 DEF OpeningInv, DisksInv
    <3> HIDE DEF d, f
    <3> QED BY <1>2, <3>2, <3>3, OneDiskSteps
  <2>4. CASE InsertStoreID(p)
    BY <2>2, <2>4 DEF InsertStoreID
  <2>5. CASE ReplaceLegacyID(p)
    <3>1. \/ disk' = disk
          \/ disk' = [disk EXCEPT ![f].store = p, ![f].aliases = @ \cup {<<"legacy", p>>}]
      BY <2>5 DEF ReplaceLegacyID
    <3>2. ASSUME disk' = [disk EXCEPT ![f].store = p, ![f].aliases = @ \cup {<<"legacy", p>>}]
          PROVE  \E new, names : disk' = [disk EXCEPT ![f].store = new, ![f].aliases = names]
      <4> DEFINE b == [disk EXCEPT ![f].store = p]
      <4>1. b[f].aliases = disk[f].aliases
        BY <1>2 DEF OpeningInv, DisksInv, IsDatabase
      <4>2. disk' = [disk EXCEPT ![f].store = p, ![f].aliases = b[f].aliases \cup {<<"legacy", p>>}]
        BY <3>2
      <4> QED BY <4>2
    <3> QED BY <2>1, <2>3, <3>1, <3>2
  <2> QED BY <2>4, <2>5
<1> QED BY <1>4, <1>5 DEF OpenerSteps, Migrated8

LEMMA EveryOpenerSteps ==
    ASSUME OpeningInv, SchemaInv, NEW p \in Opener, Start(p) \/ OpeningStep(p) \/ OpenerDies(p)
    PROVE  OpenerSteps(p)
<1>1. CASE Start(p)
  <2>1. PICK how : opener' = [opener EXCEPT ![p].pc = "directory", ![p].how = how]
    BY <1>1 DEF Start
  <2> DEFINE r == [opener[p] EXCEPT !.pc = "directory", !.how = how]
  <2>2. opener' = [opener EXCEPT ![p] = r] /\ disk' = disk
    BY <1>1, <2>1 DEF Start
  <2>3. opener[p] \in Opening
    BY OpenerTyped
  <2>4. r.pc = "directory"
    BY <2>3 DEF Opening
  <2> HIDE DEF r
  <2> QED BY <2>2, <2>4, OpenerChanges DEF Migrated8
<1>2. CASE AcquireStateDirectory(p)
  <2>1. PICK l \in {"file", "failed"} : Goes(p, l) /\ disk' = disk
    BY <1>2 DEF AcquireStateDirectory
  <2> QED BY <2>1, OpenerGoesOn DEF Migrated8
<1>3. CASE AcquireDatabase(p)
  BY <1>3, DatabaseAcquiring
<1>4. CASE CreateDatabase(p)
  <2>1. CASE Goes(p, "failed") /\ disk' = disk
    BY <2>1, OpenerGoesOn DEF Migrated8
  <2>2. CASE opener' = [opener EXCEPT ![p].pc = "acquired", ![p].fd = 1] /\ disk' = disk
    <3> DEFINE r == [opener[p] EXCEPT !.pc = "acquired", !.fd = 1]
    <3>1. opener' = [opener EXCEPT ![p] = r] /\ r.pc = "acquired"
      BY <2>2, OpenerTyped DEF Opening
    <3> HIDE DEF r
    <3> QED BY <2>2, <3>1, OpenerChanges DEF Migrated8
  <2> QED BY <1>4, <2>1, <2>2 DEF CreateDatabase
<1>5. CASE VerifyPath(p) \/ PreflightExisting(p) \/ BeginMigration(p) \/ FinishOpen(p)
           \/ ValidateOpenIdentity(p) \/ ValidateAgain(p) \/ OpenerDies(p)
  <2>1. PICK l \in {"ping", "failed", "begin", "migrate", "open", "checking", "refused", "ready", "crashed"} :
          Goes(p, l) /\ disk' = disk
    BY <1>5 DEF VerifyPath, PreflightExisting, BeginMigration, FinishOpen, ValidateOpenIdentity,
       ValidateAgain, OpenerDies
  <2> QED BY <2>1, OpenerGoesOn DEF Migrated8
<1>6. CASE Connect(p)
  <2> DEFINE l == IF Creates(p) THEN "begin" ELSE "preflight"
             r == [opener[p] EXCEPT !.conn = path, !.pc = l]
  <2>1. opener' = [opener EXCEPT ![p] = r] /\ r.pc = l /\ disk' = disk
    BY <1>6, OpenerTyped DEF Connect, Opening
  <2> HIDE DEF r
  <2> QED BY <2>1, OpenerChanges DEF Migrated8
<1>7. CASE Migrate(p)
  BY <1>7, DatabaseMigrating
<1>8. CASE Busy(p)
  <2> DEFINE id == disk[opener[p].conn].store
             r == [opener[p] EXCEPT !.pc = "verify", !.store = id]
  <2>1. CASE Goes(p, "failed") /\ disk' = disk
    BY <2>1, OpenerGoesOn DEF Migrated8
  <2>2. CASE opener' = [opener EXCEPT ![p].pc = "verify", ![p].store = id] /\ disk' = disk
    <3>1. opener' = [opener EXCEPT ![p] = r] /\ r.pc = "verify"
      BY <2>2, OpenerTyped DEF Opening
    <3> HIDE DEF r
    <3> QED BY <2>2, <3>1, OpenerChanges DEF Migrated8
  <2> QED BY <1>8, <2>1, <2>2 DEF Busy
<1>9. CASE ReadStoreID(p)
  BY <1>9, StoreIDReading
<1>10. CASE InsertStoreID(p) \/ ReplaceLegacyID(p)
  BY <1>10, StoreIDWriting
<1>11. CASE ReadIdentityRow(p)
  <2>1. PICK f : opener' = [opener EXCEPT ![p].read = f,
                     ![p].pc = IF disk[f].store = opener[p].store THEN "recheck" ELSE "refused"]
    BY <1>11 DEF ReadIdentityRow
  <2> DEFINE l == IF disk[f].store = opener[p].store THEN "recheck" ELSE "refused"
             r == [opener[p] EXCEPT !.read = f, !.pc = l]
  <2>2. opener' = [opener EXCEPT ![p] = r] /\ disk' = disk
    BY <1>11, <2>1 DEF ReadIdentityRow
  <2>3. opener[p] \in Opening
    BY OpenerTyped
  <2>4. r.pc \in {"recheck", "refused"}
    BY <2>3 DEF Opening
  <2> HIDE DEF r
  <2> QED BY <2>2, <2>4, OpenerChanges DEF Migrated8
<1> QED
  BY <1>1, <1>2, <1>3, <1>4, <1>5, <1>6, <1>7, <1>8, <1>9, <1>10, <1>11 DEF OpeningStep

LEMMA SchemaSteps == OpeningInv /\ SchemaInv /\ [OpeningNext]_openingVars => SchemaInv'
<1> SUFFICES ASSUME OpeningInv, SchemaInv, [OpeningNext]_openingVars PROVE SchemaInv'
  OBVIOUS
<1>1. ASSUME NEW p \in Opener, Start(p) \/ OpeningStep(p) \/ OpenerDies(p) PROVE SchemaInv'
  <2>1. OpenerSteps(p)
    BY <1>1, EveryOpenerSteps
  <2>2. ASSUME NEW f \in Files
        PROVE  IsSettled(disk'[f]) /\ (IsCurrent(disk[f]) => IsCurrent(disk'[f]))
    BY <2>1, DiskStepSettles DEF OpenerSteps, SchemaInv, OpeningInv, DisksInv
  <2>3. ASSUME NEW q \in Opener, opener'[q].pc \in Migrated8 PROVE IsCurrent(disk'[opener'[q].conn])
    <3>1. CASE opener'[q].conn = opener[q].conn /\ opener[q].pc \in Migrated8
      <4>1. opener[q].conn \in Files /\ IsCurrent(disk[opener[q].conn])
        BY <3>1, OpenerTyped DEF SchemaInv, Migrated8, Connected
      <4> QED BY <3>1, <4>1, <2>2
    <3>2. CASE q # p
      BY <2>1, <2>3, <3>1, <3>2 DEF OpenerSteps
    <3>3. CASE q = p /\ opener[p].pc \notin Migrated8
      <4> DEFINE f == opener[p].conn
      <4>1. opener'[p].conn = f /\ f \in Files /\ disk'[f] \in Migrated(disk[f])
        BY <2>1, <2>3, <3>3 DEF OpenerSteps
      <4>3. IsDatabase(disk[f]) /\ IsSettled(disk[f])
        BY <4>1 DEF SchemaInv, OpeningInv, DisksInv
      <4> QED BY <3>3, <4>1, <4>3, MigrationSettles
    <3>4. CASE q = p /\ opener[p].pc \in Migrated8
      BY <2>1, <2>3, <3>1, <3>4 DEF OpenerSteps
    <3> QED BY <3>2, <3>3, <3>4
  <2> QED BY <2>2, <2>3 DEF SchemaInv, Migrated8
<1>2. CASE UNCHANGED <<disk, opener>>
  BY <1>2 DEF SchemaInv
<1> QED BY <1>1, <1>2 DEF OpeningNext, Exchange, openingVars

(* What may be found on disk is settled: only a version 3 journal has       *)
(* replies.                                                                 *)
LEMMA FoundIsSettled ==
    IsSettled(Empty) /\ IsSettled(Other) /\ \A d \in OnDisk : IsSettled(d)
<1> DEFINE New(d) ==
        /\ DOMAIN d = {"version", "has", "loose", "store", "aliases", "claims", "winners"}
        /\ d = [x \in DOMAIN d |-> d[x]] /\ d.version \in 0..9 /\ d.claims = {}
<1>1. New(Empty)
  BY DEF Empty
<1>0. ASSUME NEW d, New(d), NEW v \in 0..9, NEW x, NEW s
      PROVE  New([d EXCEPT !.version = v, !.has = x, !.store = s])
  BY <1>0
<1>2. ASSUME NEW v \in 0..8 PROVE New(Plain(v))
  <2> DEFINE x == Shape(v)
  <2>1. v \in 0..9
    OBVIOUS
  <2> HIDE DEF New, x
  <2>2. New([Empty EXCEPT !.version = v, !.has = x, !.store = "old"])
    BY <1>0, <1>1, <2>1
  <2> QED BY <2>2 DEF Plain, x
<1>3. ASSUME NEW d, New(d), NEW x PROVE New([d EXCEPT !.has = x])
  BY <1>3
<1>4. ASSUME NEW d, New(d), NEW x PROVE New([d EXCEPT !.loose = x])
  BY <1>4
<1>5. ASSUME NEW d, New(d), NEW v \in 0..9 PROVE New([d EXCEPT !.version = v])
  BY <1>5
<1>6. ASSUME NEW d, New(d), NEW s PROVE New([d EXCEPT !.store = s])
  BY <1>6
<1>7. New(Legacy)
  <2>1. New(Plain(8))
    BY <1>2
  <2> HIDE DEF New
  <2> QED BY <2>1, <1>6 DEF Legacy
<1>8. ASSUME NEW d, New(d), NEW v \in 0..9, NEW x PROVE New([d EXCEPT !.version = v, !.has = x])
  BY <1>8
<1>9. ASSUME NEW d, New(d) PROVE IsSettled(d)
  <2>1. Ordered(d)
    BY <1>9 DEF Ordered
  <2>2. {} \subseteq ReplyRecord /\ IsFiniteSet({})
    BY FS_EmptySet
  <2> QED BY <1>9, <2>1, <2>2 DEF IsSettled
<1> HIDE DEF New
<1>10. ASSUME NEW d \in OnDisk PROVE IsSettled(d)
  <2>1. CASE d \in {Empty, Legacy, [Legacy EXCEPT !.version = 5, !.has = Shape(5)]}
    <3> DEFINE s == Shape(5)
    <3> HIDE DEF s
    <3>0. 5 \in 0..9
      OBVIOUS
    <3>1. New([Legacy EXCEPT !.version = 5, !.has = s])
      BY <3>0, <1>7, <1>8
    <3>2. d = Empty \/ d = Legacy \/ d = [Legacy EXCEPT !.version = 5, !.has = s]
      BY <2>1 DEF s
    <3> QED BY <3>1, <3>2, <1>1, <1>7, <1>9
  <2>2. CASE d \in {Plain(v) : v \in 1..8}
    BY <2>2, <1>2, <1>9
  <2>3. CASE d \in {[Plain(v) EXCEPT !.has = @ \ {x}] : v \in {4, 7}, x \in Current}
    <3>1. PICK v \in {4, 7}, x \in Current : d = [Plain(v) EXCEPT !.has = @ \ {x}]
      BY <2>3
    <3>2. New(Plain(v))
      BY <1>2
    <3> QED BY <3>1, <3>2, <1>3, <1>9
  <2>4. CASE d \in {[Plain(4) EXCEPT !.has = @ \cup {"malformed"}], [Plain(0) EXCEPT !.has = {"core"}]}
    <3> DEFINE four == Plain(4)
               zero == Plain(0)
               more == four.has \cup {"malformed"}
               core == {"core"}
    <3>1. d = [four EXCEPT !.has = more] \/ d = [zero EXCEPT !.has = core]
      BY <2>4
    <3>2. New(four) /\ New(zero)
      BY <1>2
    <3> HIDE DEF four, zero, more, core
    <3>3. New([four EXCEPT !.has = more])
      BY <3>2, <1>3
    <3>4. New([zero EXCEPT !.has = core])
      BY <3>2, <1>3
    <3> QED BY <3>1, <3>3, <3>4, <1>9
  <2>5. CASE d \in {[Plain(8) EXCEPT !.store = "none"], [Plain(8) EXCEPT !.loose = TRUE],
                    [Plain(8) EXCEPT !.version = 9]}
    <3>1. New(Plain(8))
      BY <1>2
    <3>2. New([Plain(8) EXCEPT !.store = "none"])
      BY <3>1, <1>6
    <3>3. New([Plain(8) EXCEPT !.loose = TRUE])
      BY <3>1, <1>4
    <3>4. 9 \in 0..9
      OBVIOUS
    <3>5. New([Plain(8) EXCEPT !.version = 9])
      BY <3>1, <3>4, <1>5
    <3> QED BY <2>5, <3>2, <3>3, <3>5, <1>9
  <2>6. CASE d \in {Replied(o, e1, e2, t1) : o \in {"a", "b"}, e1 \in 0..1, e2 \in 0..2, t1 \in 0..1}
    <3>1. PICK o \in {"a", "b"}, e1 \in 0..1, e2 \in 0..2, t1 \in 0..1 : d = Replied(o, e1, e2, t1)
      BY <2>6
    <3> DEFINE c1 == Claim("m1", "a", e1, t1)
               c2 == Claim("m2", o, e2, 1)
               c3 == Claim("m3", "a", e1 + e2, t1 + 1)
               three == Plain(3)
    <3>2. c1 \in ReplyRecord /\ c2 \in ReplyRecord /\ c3 \in ReplyRecord
      BY DEF Claim, ReplyRecord
    <3>3. d = [three EXCEPT !.claims = {c1, c2, c3}]
      BY <3>1 DEF Replied
    <3>4. New(three) /\ three.version = 3
      BY <1>2 DEF Plain, Empty
    <3> HIDE DEF c1, c2, c3, three
    <3>5. IsFiniteSet({c1, c2, c3})
      <4>1. IsFiniteSet({c1}) /\ IsFiniteSet({c1} \cup {c2}) /\ IsFiniteSet({c1} \cup {c2} \cup {c3})
        BY FS_Singleton, FS_AddElement
      <4>2. {c1} \cup {c2} \cup {c3} = {c1, c2, c3}
        OBVIOUS
      <4> QED BY <4>1, <4>2
    <3>6. d = [x \in DOMAIN d |-> d[x]] /\ d.version = 3 /\ d.claims = {c1, c2, c3}
      BY <3>3, <3>4 DEF New
    <3> QED BY <3>2, <3>5, <3>6 DEF IsSettled
  <2> QED BY <2>1, <2>2, <2>3, <2>4, <2>5, <2>6 DEF OnDisk
<1>11. New(Other)
  BY <1>2 DEF Other
<1> QED BY <1>1, <1>9, <1>10, <1>11

LEMMA SchemaBegins == OpeningInit => SchemaInv
<1> SUFFICES ASSUME OpeningInit PROVE SchemaInv
  OBVIOUS
<1>1. opener = [p \in Opener |-> Unopened] /\ Unopened.pc = "idle"
  BY DEF OpeningInit, Unopened
<1>2. PICK d \in OnDisk :
        disk = [f \in Files |-> IF f = 2 THEN Other ELSE IF path = 0 THEN Empty ELSE d]
  BY DEF OpeningInit
<1>3. \A f \in Files : IsSettled(disk[f])
  BY <1>2, FoundIsSettled
<1> QED BY <1>1, <1>3 DEF SchemaInv

LEMMA SchemaStepsAreSafe ==
    ASSUME OpeningInv, SchemaInv, [OpeningNext]_openingVars, NEW f \in Files
    PROVE  StepIsSafe(disk[f], disk'[f])
<1>1. DiskStep(disk[f], disk'[f])
  <2>1. CASE disk' = disk
    BY <2>1, DisksRest
  <2>2. CASE \E p \in Opener : Start(p) \/ OpeningStep(p) \/ OpenerDies(p)
    BY <2>2, EveryOpenerSteps DEF OpenerSteps
  <2> QED BY <2>1, <2>2 DEF OpeningNext, Exchange, openingVars
<1> QED BY <1>1, DiskStepSettles DEF SchemaInv, OpeningInv, DisksInv

LEMMA SchemaGivesOrder == SchemaInv => RepairKeepsOrder
BY DEF SchemaInv, IsSettled, Ordered, RepairKeepsOrder

\* What a migration commits is a complete version 8 schema that has all that was
\* there, with the commits in the order of the evidence and one winner for each
\* original; and what lacks a part that its version promises stays as it is,
\* however many processes open the journal at once and die where they like
\* (journal/journal.go migrate, repairV3PositiveReplies, migrateV4ToV5).
THEOREM MigrationSound == OpeningSpec => MigrationIsSafe
<1>1. OpeningSpec => [](OpeningInv /\ SchemaInv)
  <2>1. OpeningInit => OpeningInv /\ SchemaInv
    BY OpeningBegins, SchemaBegins
  <2>2. OpeningInv /\ SchemaInv /\ [OpeningNext]_openingVars => (OpeningInv /\ SchemaInv)'
    BY OpeningSteps, SchemaSteps
  <2> QED BY <2>1, <2>2, PTL DEF OpeningSpec
<1>2. OpeningInv /\ SchemaInv /\ [OpeningNext]_openingVars =>
        [\A f \in Files : disk'[f].version # disk[f].version =>
             SoundV8(disk'[f]) /\ disk'[f].version = 8 /\ disk[f].has \subseteq disk'[f].has]_openingVars
  BY SchemaStepsAreSafe DEF StepIsSafe, IsCurrent
<1>3. OpeningInv /\ SchemaInv /\ [OpeningNext]_openingVars =>
        [\A f \in Files : ~(Shape(disk[f].version) \subseteq disk[f].has) =>
             [disk'[f] EXCEPT !.loose = disk[f].loose] = disk[f]]_openingVars
  BY SchemaStepsAreSafe DEF StepIsSafe
<1>4. OpeningSpec => MigratesWholly
  BY <1>1, <1>2, PTL DEF OpeningSpec, MigratesWholly
<1>5. OpeningSpec => DamageIsRefused
  BY <1>1, <1>3, PTL DEF OpeningSpec, DamageIsRefused
<1>6. OpeningSpec => []RepairKeepsOrder
  BY <1>1, SchemaGivesOrder, PTL
<1> QED BY <1>4, <1>5, <1>6 DEF MigrationIsSafe

(* Whoever is inside the transaction of a migration is inside that of its   *)
(* connection, so nobody shares it.                                         *)
TxnInv ==
    /\ dir \in {"none", "loose", "private"} /\ txn \in [Files -> Opener \cup {"none"}]
    /\ \A f \in Files : txn[f] = "none" \/ (Stands(txn[f], "migrate") /\ opener[txn[f]].conn = f)

LEMMA TxnRests ==
    ASSUME OpeningInv, TxnInv, NEW p \in Opener, opener[p].pc # "migrate", txn' = txn,
           \A q \in Opener \ {p} : opener'[q] = opener[q], dir' \in {dir, "private"}
    PROVE  TxnInv'
<1>1. ASSUME NEW f \in Files, txn[f] # "none"
      PROVE  opener'[txn[f]] = opener[txn[f]] /\ Stands(txn[f], "migrate") /\ opener[txn[f]].conn = f
  BY <1>1 DEF TxnInv, Stands
<1> QED BY <1>1 DEF TxnInv, Stands

LEMMA TxnBegins ==
    ASSUME OpeningInv, TxnInv, NEW p \in Opener, BeginMigration(p)
    PROVE  TxnInv'
<1> DEFINE c == opener[p].conn
<1>1. c \in Files /\ opener[p].pc = "begin" /\ txn[c] = "none" /\ dir' = dir
  BY OpenerTyped DEF BeginMigration, Stands, Connected, Free
<1>2. txn' = [txn EXCEPT ![c] = p] /\ Goes(p, "migrate")
  BY DEF BeginMigration
<1>3. /\ \A q \in Opener \ {p} : opener'[q] = opener[q]
      /\ opener'[p].pc = "migrate" /\ opener'[p].conn = c
  BY <1>2, OpenerGoesTo
<1> HIDE DEF c
<1>4. txn' \in [Files -> Opener \cup {"none"}]
  BY <1>1, <1>2 DEF TxnInv
<1>5. ASSUME NEW f \in Files, txn'[f] # "none"
      PROVE  opener'[txn'[f]].pc = "migrate" /\ opener'[txn'[f]].conn = f
  <2>1. CASE f = c
    BY <1>1, <1>2, <1>3, <2>1 DEF TxnInv
  <2>2. CASE f # c
    <3>1. txn'[f] = txn[f] /\ txn[f] \in Opener
      BY <1>2, <1>5, <2>2 DEF TxnInv
    <3>2. opener[txn[f]].pc = "migrate" /\ opener[txn[f]].conn = f
      BY <1>5, <3>1 DEF TxnInv, Stands
    <3> QED BY <1>1, <1>3, <3>1, <3>2
  <2> QED BY <2>1, <2>2
<1> QED BY <1>1, <1>4, <1>5 DEF TxnInv, Stands

LEMMA TxnEnds ==
    ASSUME OpeningInv, TxnInv, NEW p \in Opener, Migrate(p) \/ OpenerDies(p)
    PROVE  TxnInv'
<1>1. dir' = dir /\ \A q \in Opener \ {p} : opener'[q] = opener[q]
  BY OpenerGoesTo DEF Migrate, OpenerDies
<1>2. /\ txn' \in [Files -> Opener \cup {"none"}]
      /\ \A f \in Files : txn'[f] \in {txn[f], "none"} /\ txn'[f] # p
  <2>1. CASE Migrate(p)
    <3>1. opener[p].conn \in Files /\ txn' = [txn EXCEPT ![opener[p].conn] = "none"]
      BY <2>1, OpenerTyped DEF Migrate, Stands, Connected
    <3>2. \A f \in Files : txn[f] = p => f = opener[p].conn
      BY GeneratedID DEF Blank, TxnInv
    <3> QED BY <3>1, <3>2, GeneratedID DEF Blank, TxnInv
  <2>2. CASE OpenerDies(p)
    <3>1. txn' = [f \in Files |-> IF txn[f] = p THEN "none" ELSE txn[f]]
      BY <2>2 DEF OpenerDies
    <3> QED BY <3>1, GeneratedID DEF Blank, TxnInv
  <2> QED BY <2>1, <2>2
<1>3. ASSUME NEW f \in Files, txn'[f] # "none"
      PROVE  opener'[txn'[f]].pc = "migrate" /\ opener'[txn'[f]].conn = f
  <2>1. txn'[f] = txn[f] /\ txn[f] \in Opener \ {p}
    BY <1>2, <1>3 DEF TxnInv
  <2> QED BY <1>1, <1>3, <2>1 DEF TxnInv, Stands
<1> QED BY <1>1, <1>2, <1>3 DEF TxnInv, Stands

LEMMA TxnSteps == OpeningInv /\ SchemaInv /\ TxnInv /\ [OpeningNext]_openingVars => TxnInv'
<1> SUFFICES ASSUME OpeningInv, SchemaInv, TxnInv, [OpeningNext]_openingVars PROVE TxnInv'
  OBVIOUS
<1>1. ASSUME NEW p \in Opener, Start(p) \/ OpeningStep(p) \/ OpenerDies(p) PROVE TxnInv'
  <2>1. CASE BeginMigration(p)
    BY <2>1, TxnBegins
  <2>2. CASE Migrate(p) \/ OpenerDies(p)
    BY <2>2, TxnEnds
  <2>3. CASE AcquireStateDirectory(p)
    <3>1. opener[p].pc # "migrate" /\ txn' = txn /\ dir' \in {dir, "private"}
      BY <2>3 DEF AcquireStateDirectory, Stands
    <3> QED BY <1>1, <3>1, EveryOpenerSteps, TxnRests DEF OpenerSteps
  <2>4. CASE Start(p) \/ AcquireDatabase(p) \/ CreateDatabase(p) \/ VerifyPath(p) \/ Connect(p)
             \/ PreflightExisting(p) \/ Busy(p)
    <3>1. opener[p].pc # "migrate" /\ txn' = txn /\ dir' = dir
      BY <2>4 DEF Start, AcquireDatabase, CreateDatabase, VerifyPath, Connect, PreflightExisting, Busy, Stands
    <3> QED BY <1>1, <3>1, EveryOpenerSteps, TxnRests DEF OpenerSteps
  <2>5. CASE ReadStoreID(p) \/ InsertStoreID(p) \/ ReplaceLegacyID(p) \/ FinishOpen(p)
             \/ ValidateOpenIdentity(p) \/ ReadIdentityRow(p) \/ ValidateAgain(p)
    <3>1. opener[p].pc # "migrate" /\ txn' = txn /\ dir' = dir
      BY <2>5 DEF ReadStoreID, InsertStoreID, ReplaceLegacyID, FinishOpen, ValidateOpenIdentity,
         ReadIdentityRow, ValidateAgain, Stands
    <3> QED BY <1>1, <3>1, EveryOpenerSteps, TxnRests DEF OpenerSteps
  <2> QED BY <1>1, <2>1, <2>2, <2>3, <2>4, <2>5 DEF OpeningStep
<1>2. CASE UNCHANGED <<dir, txn, opener>>
  BY <1>2 DEF TxnInv, Stands
<1> QED BY <1>1, <1>2 DEF OpeningNext, Exchange, openingVars

\* Two processes are never inside a migration of one file at a time, a file never
\* gets a version that the code does not know, and the path names one of the files.
THEOREM OpeningTyped == OpeningSpec => []OpeningTypeOK
<1>1. OpeningInit => TxnInv
  BY DEF OpeningInit, TxnInv
<1>2. OpeningInit => OpeningInv /\ SchemaInv /\ TxnInv
  BY <1>1, OpeningBegins, SchemaBegins
<1>3. OpeningInv /\ SchemaInv /\ TxnInv /\ [OpeningNext]_openingVars => (OpeningInv /\ SchemaInv /\ TxnInv)'
  BY OpeningSteps, SchemaSteps, TxnSteps
<1>4. OpeningInv /\ SchemaInv /\ TxnInv => OpeningTypeOK
  BY DEF OpeningInv, DisksInv, IsDatabase, SchemaInv, IsSettled, TxnInv, OpeningTypeOK
<1> QED BY <1>2, <1>3, <1>4, PTL DEF OpeningSpec

-----------------------------------------------------------------------------
(***************************************************************************)
(* Retention: what is deleted together, and when.                          *)
(***************************************************************************)

OpType == [state : Closed \cup Undecided, route : Route, at : Time]
ClaimType ==
    [of : OpRow, state : Positive \cup {"reply_dispatch_claimed", "reply_outcome_unknown"},
     at : Time, lease : Nat]
JobType == [step : {"idle", "expire", "prune"}, now : Time, cutoff : Int]

OpsTyped == DOMAIN ops \subseteq OpRow /\ \A o \in DOMAIN ops : ops[o] \in OpType
ClaimsTyped == DOMAIN claims \subseteq ClaimRow /\ \A c \in DOMAIN claims : claims[c] \in ClaimType
ReceiptsTyped ==
    DOMAIN receipts \subseteq ReceiptRow /\ \A r \in DOMAIN receipts : receipts[r].of \in OpRow
BlockersTyped ==
    /\ DOMAIN blockers \subseteq BlockerRow
    /\ \A b \in DOMAIN blockers : blockers[b] \in [seen : Time, resolved : Time \cup {-1}]

(* The cutoff of a running job is old enough, and stays so as time passes.  *)
JobInv == job \in JobType /\ (job.step # "idle" => job.cutoff <= clock - Age)

(* Only an operation that asks for replies has claims, a winner's row and   *)
(* its claim speak of the same operation.                                   *)
ClaimsInv == \A c \in DOMAIN claims : claims[c].of \in DOMAIN ops /\ ops[claims[c].of].route # "none"
WinnersInv == \A o \in DOMAIN winners : winners[o] \in DOMAIN claims /\ claims[winners[o]].of = o

RetentionInv ==
    /\ clock \in Time /\ OpsTyped /\ ClaimsTyped /\ ReceiptsTyped /\ BlockersTyped /\ JobInv
    /\ ClaimsInv /\ WinnersInv /\ observed \subseteq DOMAIN claims

LEMMA TimeIsNatural == \A t \in Time : t \in Nat /\ t <= LastTick
BY RetentionAssumption DEF Time

LEMMA RetentionBegins == RetentionInit => RetentionInv
<1> SUFFICES ASSUME RetentionInit PROVE RetentionInv
  OBVIOUS
<1>1. 0 \in Time
  BY RetentionAssumption DEF Time
<1>2. DOMAIN <<>> = {}
  OBVIOUS
<1>3. job \in JobType /\ job.step = "idle"
  BY <1>1 DEF RetentionInit, JobType
<1>4. DOMAIN ops = {} /\ DOMAIN claims = {} /\ DOMAIN winners = {} /\ DOMAIN receipts = {}
      /\ DOMAIN blockers = {} /\ observed = {} /\ clock \in Time
  BY <1>1, <1>2 DEF RetentionInit, Nothing
<1> QED BY <1>3, <1>4 DEF RetentionInv, OpsTyped, ClaimsTyped, ReceiptsTyped, BlockersTyped, JobInv,
      ClaimsInv, WinnersInv

(* The parts of the invariant that a step which leaves their rows alone     *)
(* keeps.                                                                   *)
LEMMA OpsKept == OpsTyped /\ ops' = ops => OpsTyped'
BY DEF OpsTyped
LEMMA ClaimRowsKept == ClaimsTyped /\ claims' = claims => ClaimsTyped'
BY DEF ClaimsTyped
LEMMA ReceiptsKept == ReceiptsTyped /\ receipts' = receipts => ReceiptsTyped'
BY DEF ReceiptsTyped
LEMMA BlockersKept == BlockersTyped /\ blockers' = blockers => BlockersTyped'
BY DEF BlockersTyped
LEMMA JobKept == JobInv /\ UNCHANGED <<job, clock>> => JobInv'
BY DEF JobInv
LEMMA RelationsKept ==
    ClaimsInv /\ WinnersInv /\ UNCHANGED <<ops, claims, winners>> => ClaimsInv' /\ WinnersInv'
BY DEF ClaimsInv, WinnersInv

LEMMA ClockPasses == RetentionInv /\ Passes => RetentionInv'
<1> SUFFICES ASSUME RetentionInv, Passes PROVE RetentionInv'
  OBVIOUS
<1>1. clock \in Nat /\ clock' = clock + 1 /\ clock < LastTick /\ UNCHANGED <<ops, replies, receipts, blockers, job>>
  BY TimeIsNatural DEF RetentionInv, Passes
<1>2. clock' \in Time
  BY <1>1, RetentionAssumption DEF Time
<1>3. JobInv'
  <2>1. job \in JobType /\ (job.step # "idle" => job.cutoff <= clock - Age)
    BY DEF RetentionInv, JobInv
  <2>2. job.cutoff \in Int
    BY <2>1 DEF JobType
  <2>3. job'.step # "idle" => job'.cutoff <= clock' - Age
    BY <1>1, <2>1, <2>2, RetentionAssumption
  <2> QED BY <1>1, <2>1, <2>3 DEF JobInv
<1> QED BY <1>1, <1>2, <1>3, OpsKept, ClaimRowsKept, ReceiptsKept, BlockersKept, RelationsKept
      DEF RetentionInv, replies

(* The operations: a new row is of no claim, and a row keeps its route.     *)
LEMMA OperationsMove ==
    ASSUME RetentionInv, OpsTyped', UNCHANGED <<clock, replies, receipts, blockers, job>>,
           DOMAIN ops \subseteq DOMAIN ops',
           \A o \in DOMAIN ops : ops'[o].route = ops[o].route
    PROVE  RetentionInv'
<1>1. UNCHANGED <<claims, winners, observed>>
  BY DEF replies
<1>2. ClaimsInv'
  BY <1>1 DEF RetentionInv, ClaimsInv
<1>3. WinnersInv'
  BY <1>1 DEF RetentionInv, WinnersInv
<1> QED BY <1>1, <1>2, <1>3, ClaimRowsKept, ReceiptsKept, BlockersKept, JobKept DEF RetentionInv

LEMMA OperationPrepared ==
    ASSUME RetentionInv, NEW o \in OpRow, Prepare(o)
    PROVE  RetentionInv'
<1>1. PICK route \in Route : ops' = Put(ops, o, [state |-> "prepared", route |-> route, at |-> 0])
  BY DEF Prepare
<1>2. 0 \in Time
  BY RetentionAssumption DEF Time
<1>3. [state |-> "prepared", route |-> route, at |-> 0] \in OpType
  BY <1>2 DEF OpType, Undecided
<1> DEFINE r == [state |-> "prepared", route |-> route, at |-> 0]
<1> HIDE DEF r
<1>4. /\ DOMAIN ops' = DOMAIN ops \cup {o}
      /\ \A q \in DOMAIN ops \cup {o} : ops'[q] = IF q = o THEN r ELSE ops[q]
  BY <1>1 DEF Put, r
<1>5. OpsTyped'
  BY <1>3, <1>4 DEF OpsTyped, RetentionInv, r
<1>6. DOMAIN ops \subseteq DOMAIN ops' /\ \A q \in DOMAIN ops : ops'[q] = ops[q]
  BY <1>4 DEF Prepare
<1> QED BY <1>5, <1>6, OperationsMove DEF Prepare

LEMMA OperationAdvances ==
    ASSUME RetentionInv, NEW o \in OpRow, Advance(o)
    PROVE  RetentionInv'
<1>1. PICK m \in Moves : ops' = [ops EXCEPT ![o].state = m[2], ![o].at = clock]
  BY DEF Advance
<1>2. o \in DOMAIN ops /\ ops[o] \in OpType /\ clock \in Time
  BY DEF Advance, RetentionInv, OpsTyped
<1>3. m[2] \in Closed \cup Undecided
  BY DEF Moves, Closed, Undecided
<1> DEFINE r == [ops[o] EXCEPT !.state = m[2], !.at = clock]
<1>4. r \in OpType /\ r.route = ops[o].route
  BY <1>2, <1>3 DEF OpType
<1>5. ops' = [ops EXCEPT ![o] = r]
  BY <1>1
<1> HIDE DEF r
<1>6. DOMAIN ops' = DOMAIN ops /\ \A q \in DOMAIN ops : ops'[q] = IF q = o THEN r ELSE ops[q]
  BY <1>5
<1>7. OpsTyped'
  BY <1>4, <1>6 DEF OpsTyped, RetentionInv
<1>8. \A q \in DOMAIN ops : ops'[q].route = ops[q].route
  BY <1>4, <1>6
<1> QED BY <1>6, <1>7, <1>8, OperationsMove DEF Advance

(* The claims: a row is of an operation that asks for replies, and keeps it; *)
(* a winner is a row of its operation.                                       *)
IsRow(c, v) == c \in ClaimRow /\ v \in ClaimType /\ v.of \in DOMAIN ops /\ ops[v.of].route # "none"

LEMMA RepliesMove ==
    ASSUME RetentionInv, UNCHANGED <<clock, ops, receipts, blockers>>, JobInv', ClaimsTyped',
           ClaimsInv', WinnersInv', observed' \subseteq DOMAIN claims'
    PROVE  RetentionInv'
BY OpsKept, ReceiptsKept, BlockersKept DEF RetentionInv

LEMMA RowsWritten ==
    ASSUME RetentionInv, UNCHANGED <<clock, ops, receipts, blockers, job>>,
           \A c \in DOMAIN claims' : IsRow(c, claims'[c]), WinnersInv', observed' \subseteq DOMAIN claims'
    PROVE  RetentionInv'
<1>1. ClaimsTyped' /\ ClaimsInv'
  BY DEF IsRow, ClaimsTyped, ClaimsInv
<1>2. JobInv'
  BY JobKept DEF RetentionInv
<1> QED BY <1>1, <1>2, RepliesMove

LEMMA RowsAre == RetentionInv => \A c \in DOMAIN claims : IsRow(c, claims[c])
BY DEF RetentionInv, ClaimsTyped, ClaimsInv, IsRow

(* What the writers of one row share.                                       *)
RowsKept ==
    /\ DOMAIN claims \subseteq DOMAIN claims' /\ \A d \in DOMAIN claims' : IsRow(d, claims'[d])
    /\ \A d \in DOMAIN claims : claims'[d].of = claims[d].of

LEMMA RowPut ==
    ASSUME RetentionInv, NEW c, NEW v, IsRow(c, v), claims' = Put(claims, c, v),
           c \in DOMAIN claims => claims[c].of = v.of
    PROVE  RowsKept /\ c \in DOMAIN claims' /\ claims'[c] = v
<1>1. /\ DOMAIN claims' = DOMAIN claims \cup {c}
      /\ \A d \in DOMAIN claims \cup {c} : claims'[d] = IF d = c THEN v ELSE claims[d]
  BY DEF Put
<1> QED BY <1>1, RowsAre DEF RowsKept

LEMMA RowUpdated ==
    ASSUME RetentionInv, NEW c \in DOMAIN claims, NEW v \in ClaimType, v.of = claims[c].of,
           claims' = [claims EXCEPT ![c] = v]
    PROVE  RowsKept /\ c \in DOMAIN claims' /\ claims'[c] = v /\ DOMAIN claims' = DOMAIN claims
<1>1. /\ DOMAIN claims' = DOMAIN claims
      /\ \A d \in DOMAIN claims : claims'[d] = IF d = c THEN v ELSE claims[d]
  OBVIOUS
<1>2. IsRow(c, v)
  BY RowsAre DEF IsRow
<1> QED BY <1>1, <1>2, RowsAre DEF RowsKept

(* A positive reply becomes its operation's winner, unless there is one.    *)
LEMMA WinnerElected ==
    ASSUME RetentionInv, RowsKept, NEW o, NEW c \in DOMAIN claims', claims'[c].of = o, Elect(c, o)
    PROVE  WinnersInv'
<1>1. \A q \in DOMAIN winners : winners[q] \in DOMAIN claims' /\ claims'[winners[q]].of = q
  BY DEF RetentionInv, WinnersInv, RowsKept
<1>2. CASE o \in DOMAIN winners
  BY <1>1, <1>2 DEF Elect, WinnersInv
<1>3. CASE o \notin DOMAIN winners
  <2>1. /\ DOMAIN winners' = DOMAIN winners \cup {o}
        /\ \A q \in DOMAIN winners \cup {o} : winners'[q] = IF q = o THEN c ELSE winners[q]
    BY <1>3 DEF Elect, Put
  <2> QED BY <1>1, <2>1 DEF WinnersInv
<1> QED BY <1>2, <1>3

LEMMA WinnersStay == RetentionInv /\ RowsKept /\ winners' = winners => WinnersInv'
BY DEF RetentionInv, WinnersInv, RowsKept

(* Expiry closes claims and says nothing about winners.                     *)
LEMMA ClaimsExpired ==
    ASSUME RetentionInv, NEW S, NEW time \in Time, claims' = Expired(S, time),
           UNCHANGED <<clock, ops, winners, observed, receipts, blockers>>, JobInv'
    PROVE  RetentionInv'
<1>1. DOMAIN claims' = DOMAIN claims
  BY DEF Expired
<1>2. ASSUME NEW d \in DOMAIN claims
      PROVE  claims'[d] \in ClaimType /\ claims'[d].of = claims[d].of
  <2>1. claims[d] \in ClaimType
    BY DEF RetentionInv, ClaimsTyped
  <2> DEFINE r == [claims[d] EXCEPT !.state = "reply_outcome_unknown", !.at = time]
  <2>2. r \in ClaimType /\ r.of = claims[d].of
    BY <2>1 DEF ClaimType
  <2>3. claims'[d] = IF d \in S THEN r ELSE claims[d]
    BY DEF Expired
  <2> HIDE DEF r
  <2> QED BY <2>1, <2>2, <2>3
<1>3. ClaimsTyped' /\ ClaimsInv' /\ WinnersInv'
  BY <1>1, <1>2 DEF RetentionInv, ClaimsTyped, ClaimsInv, WinnersInv
<1>4. observed' \subseteq DOMAIN claims'
  BY <1>1 DEF RetentionInv
<1> QED BY <1>3, <1>4, RepliesMove

LEMMA OneExpired ==
    ASSUME RetentionInv, NEW c, claims' = Expired({c}, clock),
           UNCHANGED <<clock, ops, winners, observed, receipts, blockers, job>>
    PROVE  RetentionInv'
<1>1. clock \in Time /\ JobInv'
  BY JobKept DEF RetentionInv
<1> QED BY <1>1, ClaimsExpired

LEMMA ReplyClaimed ==
    ASSUME RetentionInv, NEW o \in OpRow, NEW c \in ClaimRow, ClaimReply(c, o)
    PROVE  RetentionInv'
<1> DEFINE r == [of |-> o, state |-> "reply_dispatch_claimed", at |-> clock, lease |-> clock + 1]
<1>1. UNCHANGED <<clock, ops, winners, observed, receipts, blockers, job>>
  BY DEF ClaimReply
<1>2. CASE c \notin DOMAIN claims /\ o \in DOMAIN ops /\ ops[o].route = "here" /\ claims' = Put(claims, c, r)
  <2>1. clock + 1 \in Nat /\ clock \in Time
    BY TimeIsNatural DEF RetentionInv
  <2>2. IsRow(c, r)
    BY <1>2, <2>1 DEF IsRow, ClaimType
  <2> HIDE DEF r
  <2>3. RowsKept
    BY <1>2, <2>2, RowPut
  <2>4. WinnersInv' /\ observed' \subseteq DOMAIN claims'
    BY <1>1, <2>3, WinnersStay DEF RowsKept, RetentionInv
  <2> QED BY <1>1, <2>3, <2>4, RowsWritten DEF RowsKept
<1>3. CASE claims' = Expired({c}, clock)
  BY <1>1, <1>3, OneExpired
<1> QED BY <1>2, <1>3 DEF ClaimReply

LEMMA ClaimHeld ==
    ASSUME RetentionInv, NEW c \in ClaimRow, Heartbeat(c)
    PROVE  RetentionInv'
<1> DEFINE r == [claims[c] EXCEPT !.lease = clock + 1, !.at = clock]
<1>1. c \in DOMAIN claims /\ claims' = [claims EXCEPT ![c] = r]
      /\ UNCHANGED <<clock, ops, winners, observed, receipts, blockers, job>>
  BY DEF Heartbeat
<1>2. claims[c] \in ClaimType /\ clock + 1 \in Nat /\ clock \in Time
  BY <1>1, TimeIsNatural DEF RetentionInv, ClaimsTyped
<1>3. r \in ClaimType /\ r.of = claims[c].of
  BY <1>2 DEF ClaimType
<1> HIDE DEF r
<1>4. RowsKept
  BY <1>1, <1>3, RowUpdated
<1>5. WinnersInv' /\ observed' \subseteq DOMAIN claims'
  BY <1>1, <1>4, WinnersStay DEF RowsKept, RetentionInv
<1> QED BY <1>1, <1>4, <1>5, RowsWritten DEF RowsKept

(* A row becomes positive, beside the winner if there is one.               *)
LEMMA RowElected ==
    ASSUME RetentionInv, NEW c \in DOMAIN claims, NEW s \in Positive, Elect(c, claims[c].of),
           claims' = [claims EXCEPT ![c].state = s, ![c].at = clock]
    PROVE  RowsKept /\ WinnersInv' /\ c \in DOMAIN claims'
<1> DEFINE r == [claims[c] EXCEPT !.state = s, !.at = clock]
<1>1. claims[c] \in ClaimType /\ clock \in Time
  BY DEF RetentionInv, ClaimsTyped
<1>2. r \in ClaimType /\ r.of = claims[c].of
  BY <1>1 DEF ClaimType
<1>3. claims' = [claims EXCEPT ![c] = r]
  OBVIOUS
<1> HIDE DEF r
<1>4. RowsKept /\ c \in DOMAIN claims' /\ claims'[c].of = claims[c].of
  BY <1>2, <1>3, RowUpdated
<1> QED BY <1>4, WinnerElected

LEMMA ReplyCommitted ==
    ASSUME RetentionInv, NEW c \in ClaimRow, CommitReply(c)
    PROVE  RetentionInv'
<1>1. c \in DOMAIN claims /\ UNCHANGED <<clock, ops, observed, receipts, blockers, job>>
  BY DEF CommitReply
<1>2. CASE /\ Elect(c, claims[c].of)
           /\ claims' = [claims EXCEPT ![c].state = "reply_accepted", ![c].at = clock]
  <2>1. "reply_accepted" \in Positive
    BY DEF Positive
  <2>2. RowsKept /\ WinnersInv'
    BY <1>1, <1>2, <2>1, RowElected
  <2>3. observed' \subseteq DOMAIN claims'
    BY <1>1, <2>2 DEF RowsKept, RetentionInv
  <2> QED BY <1>1, <2>2, <2>3, RowsWritten DEF RowsKept
<1>3. CASE claims' = Expired({c}, clock) /\ UNCHANGED winners
  BY <1>1, <1>3, OneExpired
<1> QED BY <1>2, <1>3 DEF CommitReply

LEMMA AcceptanceReconciled ==
    ASSUME RetentionInv, NEW c \in ClaimRow, ReconcileReplyAccepted(c)
    PROVE  RetentionInv'
<1>1. /\ c \in DOMAIN claims /\ Elect(c, claims[c].of)
      /\ claims' = [claims EXCEPT ![c].state = "reply_accepted", ![c].at = clock]
      /\ UNCHANGED <<clock, ops, observed, receipts, blockers, job>>
  BY DEF ReconcileReplyAccepted
<1>2. "reply_accepted" \in Positive
  BY DEF Positive
<1>3. RowsKept /\ WinnersInv'
  BY <1>1, <1>2, RowElected
<1>4. observed' \subseteq DOMAIN claims'
  BY <1>1, <1>3 DEF RowsKept, RetentionInv
<1> QED BY <1>1, <1>3, <1>4, RowsWritten DEF RowsKept

LEMMA ReplyObserved ==
    ASSUME RetentionInv, NEW c \in ClaimRow, ObserveReply(c)
    PROVE  RetentionInv'
<1>1. c \in DOMAIN claims /\ Elect(c, claims[c].of) /\ observed' = observed \cup {c}
      /\ UNCHANGED <<clock, ops, receipts, blockers, job>>
  BY DEF ObserveReply
<1>2. RowsKept /\ WinnersInv' /\ c \in DOMAIN claims'
  <2>1. CASE claims' = claims
    <3>1. RowsKept
      BY <2>1, RowsAre DEF RowsKept
    <3> QED BY <1>1, <2>1, <3>1, WinnerElected
  <2>2. CASE claims' = [claims EXCEPT ![c].state = "reply_observed", ![c].at = clock]
    <3>1. "reply_observed" \in Positive
      BY DEF Positive
    <3> QED BY <1>1, <2>2, <3>1, RowElected
  <2> QED BY <2>1, <2>2 DEF ObserveReply
<1>3. observed' \subseteq DOMAIN claims'
  BY <1>1, <1>2 DEF RowsKept, RetentionInv
<1> QED BY <1>1, <1>2, <1>3, RowsWritten DEF RowsKept

(* The rows of a projection.                                                *)
LEMMA RowIs ==
    ASSUME RetentionInv, NEW c \in ClaimRow, NEW o \in OpRow, Projects(c, o),
           NEW s \in Positive \cup {"reply_outcome_unknown"}
    PROVE  IsRow(c, Row(o, s)) /\ Row(o, s).of = o /\ (c \in DOMAIN claims => claims[c].of = o)
<1>1. clock \in Time /\ ops[o].route # "none" /\ o \in DOMAIN ops
  BY DEF RetentionInv, Projects
<1>2. Row(o, s) \in ClaimType /\ Row(o, s).of = o
  BY <1>1 DEF Row, ClaimType
<1> QED BY <1>1, <1>2 DEF IsRow, Projects

LEMMA UnknownImported ==
    ASSUME RetentionInv, NEW o \in OpRow, NEW c \in ClaimRow, ImportUnknown(c, o)
    PROVE  RetentionInv'
<1>1. Projects(c, o) /\ claims' = Put(claims, c, Row(o, "reply_outcome_unknown"))
      /\ UNCHANGED <<clock, ops, winners, observed, receipts, blockers, job>>
  BY DEF ImportUnknown
<1>2. RowsKept
  BY <1>1, RowIs, RowPut
<1>3. WinnersInv' /\ observed' \subseteq DOMAIN claims'
  BY <1>1, <1>2, WinnersStay DEF RowsKept, RetentionInv
<1> QED BY <1>1, <1>2, <1>3, RowsWritten DEF RowsKept

(* What WithWinner writes is one positive row.                              *)
LEMMA WinnerRow ==
    ASSUME NEW w, NEW o, NEW seen
    PROVE  \E s \in Positive : WithWinner(w, o, seen) = Put(claims, w, Row(o, s))
<1>1. "reply_observed" \in Positive /\ "reply_accepted" \in Positive
  BY DEF Positive
<1>2. CASE seen \/ (w \in DOMAIN claims /\ claims[w].state = "reply_observed")
  BY <1>1, <1>2 DEF WithWinner
<1>3. CASE ~(seen \/ (w \in DOMAIN claims /\ claims[w].state = "reply_observed"))
  BY <1>1, <1>3 DEF WithWinner
<1> QED BY <1>2, <1>3

LEMMA WinnerImported ==
    ASSUME RetentionInv, NEW o \in OpRow, NEW w \in ClaimRow, NEW seen \in BOOLEAN, ImportWinner(w, o, seen)
    PROVE  RetentionInv'
<1>1. Projects(w, o) /\ claims' = WithWinner(w, o, seen) /\ Elect(w, o)
      /\ observed' \subseteq observed \cup {w} /\ UNCHANGED <<clock, ops, receipts, blockers, job>>
  BY DEF ImportWinner
<1>2. PICK s \in Positive : claims' = Put(claims, w, Row(o, s))
  BY <1>1, WinnerRow
<1>3. IsRow(w, Row(o, s)) /\ Row(o, s).of = o /\ (w \in DOMAIN claims => claims[w].of = o)
  BY <1>1, RowIs
<1>4. RowsKept /\ w \in DOMAIN claims' /\ claims'[w].of = o
  BY <1>2, <1>3, RowPut
<1>5. WinnersInv' /\ observed' \subseteq DOMAIN claims'
  BY <1>1, <1>4, WinnerElected DEF RowsKept, RetentionInv
<1> QED BY <1>1, <1>4, <1>5, RowsWritten DEF RowsKept

LEMMA ObservedRecorded ==
    ASSUME RetentionInv, NEW o \in OpRow, NEW c \in ClaimRow, RecordObservedReply(c, o)
    PROVE  RetentionInv'
<1>1. CASE ObserveReply(c)
  BY <1>1, ReplyObserved
<1>2. CASE /\ claims' = Put(claims, c, Row(o, "reply_observed"))
           /\ Elect(c, o) /\ observed' = observed \cup {c} /\ UNCHANGED <<clock, ops, receipts, blockers, job>>
  <2>1. Projects(c, o) /\ "reply_observed" \in Positive
    BY DEF RecordObservedReply, Positive
  <2>2. IsRow(c, Row(o, "reply_observed")) /\ Row(o, "reply_observed").of = o
        /\ (c \in DOMAIN claims => claims[c].of = o)
    BY <2>1, RowIs
  <2>3. RowsKept /\ c \in DOMAIN claims' /\ claims'[c].of = o
    BY <1>2, <2>2, RowPut
  <2>4. WinnersInv' /\ observed' \subseteq DOMAIN claims'
    BY <1>2, <2>3, WinnerElected DEF RowsKept, RetentionInv
  <2> QED BY <1>2, <2>3, <2>4, RowsWritten DEF RowsKept
<1> QED BY <1>1, <1>2 DEF RecordObservedReply

LEMMA ObservedAndWinnerRecorded ==
    ASSUME RetentionInv, NEW o \in OpRow, NEW c \in ClaimRow, NEW w \in ClaimRow, NEW seen \in BOOLEAN,
           RecordObservedReplyAndWinner(c, w, o, seen)
    PROVE  RetentionInv'
<1> DEFINE v == Row(o, "reply_observed")
<1>1. /\ Projects(c, o) /\ Projects(w, o) /\ Elect(w, o) /\ UNCHANGED <<clock, ops, receipts, blockers, job>>
      /\ observed' \subseteq observed \cup {c, w}
      /\ DOMAIN claims' = DOMAIN claims \cup {c, w}
      /\ \A d \in DOMAIN claims' : claims'[d] = IF d = c THEN v ELSE WithWinner(w, o, seen)[d]
  BY DEF RecordObservedReplyAndWinner
<1>2. PICK s \in Positive : WithWinner(w, o, seen) = Put(claims, w, Row(o, s))
  BY WinnerRow
<1> DEFINE u == Row(o, s)
<1>3. /\ IsRow(c, v) /\ v.of = o /\ (c \in DOMAIN claims => claims[c].of = o)
      /\ IsRow(w, u) /\ u.of = o /\ (w \in DOMAIN claims => claims[w].of = o)
  <2>1. "reply_observed" \in Positive
    BY DEF Positive
  <2> QED BY <1>1, <2>1, RowIs
<1> HIDE DEF u, v
<1>4. \A d \in DOMAIN claims \cup {w} : WithWinner(w, o, seen)[d] = IF d = w THEN u ELSE claims[d]
  BY <1>2 DEF Put, u
<1>5. \A d \in DOMAIN claims' : claims'[d] = IF d = c THEN v ELSE IF d = w THEN u ELSE claims[d]
  BY <1>1, <1>4
<1>6. RowsKept /\ w \in DOMAIN claims' /\ claims'[w].of = o
  BY <1>1, <1>3, <1>5, RowsAre DEF RowsKept
<1>7. WinnersInv' /\ observed' \subseteq DOMAIN claims'
  BY <1>1, <1>6, WinnerElected DEF RowsKept, RetentionInv
<1> QED BY <1>1, <1>6, <1>7, RowsWritten DEF RowsKept

LEMMA ReplyAbandoned ==
    ASSUME RetentionInv, NEW c \in ClaimRow, AbandonReply(c)
    PROVE  RetentionInv'
BY OneExpired DEF AbandonReply

LEMMA ReceiptStored ==
    ASSUME RetentionInv, NEW o \in OpRow, NEW r \in ReceiptRow, PutReceipt(r, o)
    PROVE  RetentionInv'
<1>1. UNCHANGED <<clock, ops, claims, winners, observed, blockers, job>>
  BY DEF PutReceipt, replies
<1> DEFINE v == [of |-> o, state |-> ops[o].state, at |-> clock]
<1>2. receipts' = Put(receipts, r, v) /\ v.of = o
  BY DEF PutReceipt
<1> HIDE DEF v
<1>3. /\ DOMAIN receipts' = DOMAIN receipts \cup {r}
      /\ \A q \in DOMAIN receipts \cup {r} : receipts'[q] = IF q = r THEN v ELSE receipts[q]
  BY <1>2 DEF Put
<1>4. ReceiptsTyped'
  BY <1>2, <1>3 DEF RetentionInv, ReceiptsTyped
<1> QED BY <1>1, <1>4, OpsKept, ClaimRowsKept, BlockersKept, JobKept, RelationsKept DEF RetentionInv

LEMMA BlockersMove ==
    ASSUME RetentionInv, BlockersTyped', UNCHANGED <<clock, ops, replies, receipts, job>>
    PROVE  RetentionInv'
BY OpsKept, ClaimRowsKept, ReceiptsKept, JobKept, RelationsKept DEF RetentionInv, replies

LEMMA BlockerSeen ==
    ASSUME RetentionInv, NEW b \in BlockerRow, UpsertBlocker(b)
    PROVE  RetentionInv'
<1> DEFINE v == [seen |-> clock, resolved |-> IF b \in DOMAIN blockers THEN blockers[b].resolved ELSE -1]
<1>1. blockers' = Put(blockers, b, v)
  BY DEF UpsertBlocker
<1>2. (IF b \in DOMAIN blockers THEN blockers[b].resolved ELSE -1) \in Time \cup {-1}
  BY DEF RetentionInv, BlockersTyped
<1>3. v \in [seen : Time, resolved : Time \cup {-1}]
  BY <1>2 DEF RetentionInv
<1> HIDE DEF v
<1>4. /\ DOMAIN blockers' = DOMAIN blockers \cup {b}
      /\ \A q \in DOMAIN blockers \cup {b} : blockers'[q] = IF q = b THEN v ELSE blockers[q]
  BY <1>1 DEF Put
<1>5. BlockersTyped'
  BY <1>3, <1>4 DEF RetentionInv, BlockersTyped
<1> QED BY <1>5, BlockersMove DEF UpsertBlocker

LEMMA BlockerResolved ==
    ASSUME RetentionInv, NEW b \in BlockerRow, ResolveBlocker(b)
    PROVE  RetentionInv'
<1> DEFINE Rows == [seen : Time, resolved : Time \cup {-1}]
           t == IF blockers[b].resolved = -1 THEN clock ELSE blockers[b].resolved
           v == [blockers[b] EXCEPT !.resolved = t]
<1>1. b \in DOMAIN blockers /\ blockers' = [blockers EXCEPT ![b] = v]
  BY DEF ResolveBlocker
<1>2. blockers[b] \in Rows /\ clock \in Time
  BY <1>1 DEF RetentionInv, BlockersTyped
<1>3. v \in Rows
  BY <1>2
<1> HIDE DEF v
<1>4. DOMAIN blockers' = DOMAIN blockers /\ \A d \in DOMAIN blockers : blockers'[d] = IF d = b THEN v ELSE blockers[d]
  BY <1>1
<1>5. BlockersTyped'
  BY <1>3, <1>4 DEF RetentionInv, BlockersTyped
<1> QED BY <1>5, BlockersMove DEF ResolveBlocker

LEMMA JobMoves ==
    ASSUME RetentionInv, JobInv', UNCHANGED <<clock, ops, replies, receipts, blockers>>
    PROVE  RetentionInv'
BY OpsKept, ClaimRowsKept, ReceiptsKept, BlockersKept, RelationsKept DEF RetentionInv, replies

(* The cutoff is at least Age before the clock, whatever the caller asks.   *)
LEMMA MaintenanceBegins == RetentionInv /\ BeginMaintenance => RetentionInv'
<1> SUFFICES ASSUME RetentionInv, BeginMaintenance PROVE RetentionInv'
  OBVIOUS
<1>1. PICK asked \in Time : job' = [step |-> "expire", now |-> clock, cutoff |-> Cutoff(asked)]
  BY DEF BeginMaintenance
<1>2. clock \in Nat /\ asked \in Nat /\ clock \in Time /\ clock' = clock
  BY TimeIsNatural DEF RetentionInv, BeginMaintenance
<1>3. Cutoff(asked) \in Int /\ Cutoff(asked) <= clock - Age
  BY <1>2, RetentionAssumption DEF Cutoff
<1>4. job' \in JobType /\ job'.cutoff = Cutoff(asked)
  BY <1>1, <1>2, <1>3 DEF JobType
<1>5. JobInv'
  BY <1>2, <1>3, <1>4 DEF JobInv
<1> QED BY <1>5, JobMoves DEF BeginMaintenance

LEMMA JobGoes ==
    ASSUME RetentionInv, NEW s \in {"idle", "prune"}, job.step # "idle",
           job' = [job EXCEPT !.step = s], clock' = clock
    PROVE  JobInv'
<1>1. job \in JobType /\ job.cutoff <= clock - Age
  BY DEF RetentionInv, JobInv
<1>2. job' \in JobType /\ job'.cutoff = job.cutoff
  BY <1>1 DEF JobType
<1> QED BY <1>1, <1>2 DEF JobInv

LEMMA MaintenanceFailed == RetentionInv /\ MaintenanceFails => RetentionInv'
<1> SUFFICES ASSUME RetentionInv, MaintenanceFails PROVE RetentionInv'
  OBVIOUS
<1>1. JobInv'
  BY JobGoes DEF MaintenanceFails
<1> QED BY <1>1, JobMoves DEF MaintenanceFails

LEMMA MaintenanceExpires == RetentionInv /\ Expire => RetentionInv'
<1> SUFFICES ASSUME RetentionInv, Expire PROVE RetentionInv'
  OBVIOUS
<1>1. JobInv'
  BY JobGoes DEF Expire
<1>2. job.now \in Time
  BY DEF RetentionInv, JobInv, JobType
<1> QED BY <1>1, <1>2, ClaimsExpired DEF Expire

-----------------------------------------------------------------------------
(* What Prune deletes of the claims of a deleted operation: all of them.    *)
LEMMA AllRelatedGo ==
    ASSUME RetentionInv, NEW o \in OldOps, NEW c \in DOMAIN claims, claims[c].of = o
    PROVE  c \in OldReplies
<1>1. o \in DOMAIN ops /\ (ops[o].route # "none" => Settled(o))
  BY DEF OldOps
<1>2. ops[o].route # "none"
  BY DEF RetentionInv, ClaimsInv
<1>3. c \in Related(o)
  BY DEF Related
<1>4. claims[c].state \in Positive /\ claims[c].at <= job.cutoff
  BY <1>1, <1>2, <1>3 DEF Settled
<1> QED BY <1>4 DEF OldReplies

LEMMA MaintenancePrunes == RetentionInv /\ Prune => RetentionInv'
<1> SUFFICES ASSUME RetentionInv, Prune PROVE RetentionInv'
  OBVIOUS
<1>1. /\ job' = [job EXCEPT !.step = "idle"] /\ clock' = clock /\ job.step = "prune"
      /\ observed' = observed \ OldReplies
  BY DEF Prune
<1>2. /\ DOMAIN ops' = DOMAIN ops \ OldOps
      /\ \A o \in DOMAIN ops' : ops'[o] = ops[o]
  BY DEF Prune, Drop
<1>3. /\ DOMAIN claims' = DOMAIN claims \ OldReplies
      /\ \A c \in DOMAIN claims' : claims'[c] = claims[c]
  BY DEF Prune, Drop
<1>4. /\ DOMAIN winners' = DOMAIN winners \ WinnersOf(OldReplies)
      /\ \A o \in DOMAIN winners' : winners'[o] = winners[o]
  BY DEF Prune, Drop
<1>5. /\ DOMAIN receipts' = DOMAIN receipts \ OldReceipts
      /\ \A r \in DOMAIN receipts' : receipts'[r] = receipts[r]
  BY DEF Prune, Drop
<1>6. /\ DOMAIN blockers' = DOMAIN blockers \ OldBlockers
      /\ \A b \in DOMAIN blockers' : blockers'[b] = blockers[b]
  BY DEF Prune, Drop
<1>7. OpsTyped'
  BY <1>2 DEF RetentionInv, OpsTyped
<1>8. ClaimsTyped'
  BY <1>3 DEF RetentionInv, ClaimsTyped
<1>9. ReceiptsTyped'
  BY <1>5 DEF RetentionInv, ReceiptsTyped
<1>10. BlockersTyped'
  BY <1>6 DEF RetentionInv, BlockersTyped
<1>11. JobInv' /\ clock' \in Time
  BY <1>1, JobGoes DEF RetentionInv
<1>12. ClaimsInv'
  <2>1. ASSUME NEW c \in DOMAIN claims'
        PROVE  claims'[c].of \in DOMAIN ops' /\ ops'[claims'[c].of].route # "none"
    <3>1. c \in DOMAIN claims /\ c \notin OldReplies /\ claims'[c] = claims[c]
      BY <1>3, <2>1
    <3>2. claims[c].of \in DOMAIN ops /\ ops[claims[c].of].route # "none"
      BY <3>1 DEF RetentionInv, ClaimsInv
    <3>3. claims[c].of \notin OldOps
      BY <3>1, AllRelatedGo
    <3> QED BY <1>2, <3>1, <3>2, <3>3
  <2> QED BY <2>1 DEF ClaimsInv
<1>13. WinnersInv'
  <2>1. ASSUME NEW o \in DOMAIN winners'
        PROVE  winners'[o] \in DOMAIN claims' /\ claims'[winners'[o]].of = o
    <3>1. o \in DOMAIN winners /\ winners[o] \notin OldReplies /\ winners'[o] = winners[o]
      BY <1>4, <2>1 DEF WinnersOf
    <3>2. winners[o] \in DOMAIN claims /\ claims[winners[o]].of = o
      BY <3>1 DEF RetentionInv, WinnersInv
    <3> QED BY <1>3, <3>1, <3>2
  <2> QED BY <2>1 DEF WinnersInv
<1>14. observed' \subseteq DOMAIN claims'
  BY <1>1, <1>3 DEF RetentionInv
<1> QED BY <1>7, <1>8, <1>9, <1>10, <1>11, <1>12, <1>13, <1>14 DEF RetentionInv

LEMMA RetentionStutters == RetentionInv /\ UNCHANGED retentionVars => RetentionInv'
BY OpsKept, ClaimRowsKept, ReceiptsKept, BlockersKept, JobKept, RelationsKept
   DEF RetentionInv, retentionVars

LEMMA RetentionSteps == RetentionInv /\ [RetentionNext]_retentionVars => RetentionInv'
<1> SUFFICES ASSUME RetentionInv, [RetentionNext]_retentionVars PROVE RetentionInv'
  OBVIOUS
<1>1. CASE Passes \/ BeginMaintenance \/ Expire \/ Prune \/ MaintenanceFails
  BY <1>1, ClockPasses, MaintenanceBegins, MaintenanceExpires, MaintenancePrunes, MaintenanceFailed
<1>2. ASSUME NEW o \in OpRow, Prepare(o) \/ Advance(o) PROVE RetentionInv'
  BY <1>2, OperationPrepared, OperationAdvances
<1>3. ASSUME NEW o \in OpRow, NEW c \in ClaimRow,
             ClaimReply(c, o) \/ ImportUnknown(c, o) \/ RecordObservedReply(c, o)
      PROVE  RetentionInv'
  BY <1>3, ReplyClaimed, UnknownImported, ObservedRecorded
<1>4. ASSUME NEW o \in OpRow, NEW r \in ReceiptRow, PutReceipt(r, o) PROVE RetentionInv'
  BY <1>4, ReceiptStored
<1>5. ASSUME NEW c \in ClaimRow,
             \/ Heartbeat(c) \/ CommitReply(c) \/ ObserveReply(c)
             \/ ReconcileReplyAccepted(c) \/ AbandonReply(c)
      PROVE  RetentionInv'
  BY <1>5, ClaimHeld, ReplyCommitted, ReplyObserved, AcceptanceReconciled, ReplyAbandoned
<1>6. ASSUME NEW b \in BlockerRow, UpsertBlocker(b) \/ ResolveBlocker(b) PROVE RetentionInv'
  BY <1>6, BlockerSeen, BlockerResolved
<1>7. ASSUME NEW o \in OpRow, NEW w \in ClaimRow, NEW seen \in BOOLEAN, ImportWinner(w, o, seen)
      PROVE  RetentionInv'
  BY <1>7, WinnerImported
<1>8. ASSUME NEW o \in OpRow, NEW w \in ClaimRow, NEW seen \in BOOLEAN, NEW c \in ClaimRow,
             RecordObservedReplyAndWinner(c, w, o, seen)
      PROVE  RetentionInv'
  BY <1>8, ObservedAndWinnerRecorded
<1>9. CASE UNCHANGED retentionVars
  BY <1>9, RetentionStutters
<1> QED BY <1>1, <1>2, <1>3, <1>4, <1>5, <1>6, <1>7, <1>8, <1>9 DEF RetentionNext

LEMMA InvGivesRelations == RetentionInv => RelationsHold /\ RetentionTypeOK
<1> SUFFICES ASSUME RetentionInv PROVE RelationsHold /\ RetentionTypeOK
  OBVIOUS
<1>1. RelationsHold
  BY DEF RetentionInv, RelationsHold, ClaimsInv, WinnersInv
<1>2. DOMAIN winners \subseteq OpRow /\ \A o \in DOMAIN winners : winners[o] \in ClaimRow
  BY <1>1 DEF RelationsHold, RetentionInv, OpsTyped, ClaimsTyped
<1>3. observed \subseteq ClaimRow
  BY DEF RetentionInv, ClaimsTyped
<1>4. job.step \in {"idle", "expire", "prune"} /\ job.now \in Time
  BY DEF RetentionInv, JobInv, JobType
<1> QED BY <1>1, <1>2, <1>3, <1>4 DEF RetentionInv, RetentionTypeOK, OpsTyped, ClaimsTyped, ReceiptsTyped,
      BlockersTyped, OpType, ClaimType

(* Only maintenance deletes an operation, a reply or a blocker.             *)
RowsStay ==
    /\ DOMAIN ops \subseteq DOMAIN ops' /\ DOMAIN claims \subseteq DOMAIN claims'
    /\ DOMAIN blockers \subseteq DOMAIN blockers'

LEMMA OthersKeepRows ==
    ASSUME RetentionInv, [RetentionNext]_retentionVars, ~Prune
    PROVE  RowsStay
<1>1. CASE Passes \/ BeginMaintenance \/ MaintenanceFails
  BY <1>1 DEF Passes, BeginMaintenance, MaintenanceFails, replies, RowsStay
<1>2. CASE Expire
  BY <1>2 DEF Expire, Expired, RowsStay
<1>3. ASSUME NEW o \in OpRow, Prepare(o) \/ Advance(o) PROVE RowsStay
  BY <1>3 DEF Prepare, Advance, Put, replies, RowsStay
<1>4. ASSUME NEW o \in OpRow, NEW c \in ClaimRow, ClaimReply(c, o) \/ ImportUnknown(c, o) PROVE RowsStay
  BY <1>4 DEF ClaimReply, ImportUnknown, Put, Expired, RowsStay
<1>5. ASSUME NEW c \in ClaimRow, Heartbeat(c) \/ AbandonReply(c) PROVE RowsStay
  BY <1>5 DEF Heartbeat, AbandonReply, Expired, RowsStay
<1>6. ASSUME NEW c \in ClaimRow, CommitReply(c) PROVE RowsStay
  BY <1>6 DEF CommitReply, Expired, RowsStay
<1>7. ASSUME NEW c \in ClaimRow, ObserveReply(c) \/ ReconcileReplyAccepted(c) PROVE RowsStay
  BY <1>7 DEF ObserveReply, ReconcileReplyAccepted, RowsStay
<1>8. ASSUME NEW o \in OpRow, NEW c \in ClaimRow, RecordObservedReply(c, o) PROVE RowsStay
  BY <1>7, <1>8 DEF RecordObservedReply, Put, RowsStay
<1>9. ASSUME NEW o \in OpRow, NEW w \in ClaimRow, NEW seen \in BOOLEAN, ImportWinner(w, o, seen)
      PROVE  RowsStay
  BY <1>9 DEF ImportWinner, WithWinner, Put, RowsStay
<1>10. ASSUME NEW o \in OpRow, NEW w \in ClaimRow, NEW seen \in BOOLEAN, NEW c \in ClaimRow,
              RecordObservedReplyAndWinner(c, w, o, seen)
       PROVE  RowsStay
  BY <1>10 DEF RecordObservedReplyAndWinner, RowsStay
<1>11. ASSUME NEW o \in OpRow, NEW r \in ReceiptRow, PutReceipt(r, o) PROVE RowsStay
  BY <1>11 DEF PutReceipt, replies, RowsStay
<1>12. ASSUME NEW b \in BlockerRow, UpsertBlocker(b) \/ ResolveBlocker(b) PROVE RowsStay
  BY <1>12 DEF UpsertBlocker, ResolveBlocker, Put, replies, RowsStay
<1>13. CASE UNCHANGED retentionVars
  BY <1>13 DEF retentionVars, RowsStay
<1> QED BY <1>1, <1>2, <1>3, <1>4, <1>5, <1>6, <1>7, <1>8, <1>9, <1>10, <1>11, <1>12, <1>13 DEF RetentionNext

OldGoes ==
    /\ \A o \in DOMAIN ops \ DOMAIN ops' :
        /\ ops[o].state \in Closed /\ clock - ops[o].at >= Age
        /\ (ops[o].route # "none" /\ ops[o].state = "accepted") => o \in DOMAIN winners
        /\ \A c \in Related(o) : claims[c].state \in Positive /\ clock - claims[c].at >= Age
    /\ \A c \in DOMAIN claims \ DOMAIN claims' : claims[c].of \notin DOMAIN ops'

LEMMA PruneTakesOld == RetentionInv /\ Prune => OldGoes
<1> SUFFICES ASSUME RetentionInv, Prune PROVE OldGoes
  OBVIOUS
<1>0. \A c \in DOMAIN claims \ DOMAIN claims' : claims[c].of \notin DOMAIN ops'
  BY DEF Prune, Drop, OldReplies
<1> SUFFICES ASSUME NEW o \in DOMAIN ops \ DOMAIN ops'
             PROVE  /\ ops[o].state \in Closed /\ clock - ops[o].at >= Age
                    /\ (ops[o].route # "none" /\ ops[o].state = "accepted") => o \in DOMAIN winners
                    /\ \A c \in Related(o) : claims[c].state \in Positive /\ clock - claims[c].at >= Age
  BY <1>0 DEF OldGoes
<1>1. o \in OldOps
  BY DEF Prune, Drop
<1>2. job.cutoff \in Int /\ job.cutoff <= clock - Age /\ clock \in Nat
  BY TimeIsNatural DEF Prune, RetentionInv, JobInv, JobType
<1>3. ops[o].at \in Nat
  BY TimeIsNatural DEF RetentionInv, OpsTyped, OpType
<1>4. ops[o].state \in Closed /\ ops[o].at <= job.cutoff /\ (ops[o].route # "none" => Settled(o))
  BY <1>1 DEF OldOps
<1>5. clock - ops[o].at >= Age
  BY <1>2, <1>3, <1>4, RetentionAssumption
<1>6. ASSUME NEW c \in Related(o) PROVE claims[c].state \in Positive /\ clock - claims[c].at >= Age
  <2>1. c \in DOMAIN claims /\ claims[c].of = o
    BY <1>6 DEF Related
  <2>2. c \in OldReplies
    BY <1>1, <2>1, AllRelatedGo
  <2>3. claims[c].state \in Positive /\ claims[c].at <= job.cutoff
    BY <2>2 DEF OldReplies
  <2>4. claims[c].at \in Nat
    BY <2>1, TimeIsNatural DEF RetentionInv, ClaimsTyped, ClaimType
  <2> QED BY <1>2, <2>3, <2>4, RetentionAssumption
<1>7. (ops[o].route # "none" /\ ops[o].state = "accepted") => o \in DOMAIN winners
  BY <1>4 DEF Settled
<1> QED BY <1>4, <1>5, <1>6, <1>7

HonestStep ==
    \A b \in DOMAIN blockers :
        /\ (blockers[b].resolved # -1 /\ b \in DOMAIN blockers') => blockers'[b].resolved = blockers[b].resolved
        /\ blockers[b].resolved = -1 => b \in DOMAIN blockers'

LEMMA BlockersStayHonest == RetentionInv /\ [RetentionNext]_retentionVars => HonestStep
<1> SUFFICES ASSUME RetentionInv, [RetentionNext]_retentionVars PROVE HonestStep
  OBVIOUS
<1>1. CASE Prune
  BY <1>1 DEF Prune, Drop, OldBlockers, HonestStep
<1>2. CASE blockers' = blockers
  BY <1>2 DEF HonestStep
<1>3. ASSUME NEW b \in BlockerRow, UpsertBlocker(b) PROVE HonestStep
  BY <1>3 DEF UpsertBlocker, Put, HonestStep
<1>4. ASSUME NEW b \in BlockerRow, ResolveBlocker(b) PROVE HonestStep
  <2>1. /\ DOMAIN blockers' = DOMAIN blockers
        /\ \A d \in DOMAIN blockers : d # b => blockers'[d] = blockers[d]
    BY <1>4 DEF ResolveBlocker
  <2> DEFINE t == IF blockers[b].resolved = -1 THEN clock ELSE blockers[b].resolved
  <2>2. b \in DOMAIN blockers /\ blockers'[b] = [blockers[b] EXCEPT !.resolved = t]
    BY <1>4 DEF ResolveBlocker
  <2>3. blockers[b] \in [seen : Time, resolved : Time \cup {-1}]
    BY <2>2 DEF RetentionInv, BlockersTyped
  <2>4. blockers'[b].resolved = t
    BY <2>2, <2>3
  <2>5. blockers[b].resolved # -1 => blockers'[b].resolved = blockers[b].resolved
    BY <2>4
  <2> QED BY <2>1, <2>5 DEF HonestStep
<1>5. Prune \/ blockers' = blockers \/ \E b \in BlockerRow : UpsertBlocker(b) \/ ResolveBlocker(b)
  BY DEF RetentionNext, retentionVars, Passes, BeginMaintenance, Expire, MaintenanceFails, Prepare, Advance,
     ClaimReply, Heartbeat, CommitReply, ObserveReply, ReconcileReplyAccepted, AbandonReply, PutReceipt,
     ImportUnknown, ImportWinner, RecordObservedReply, RecordObservedReplyAndWinner
<1> QED BY <1>1, <1>2, <1>3, <1>4, <1>5

(* Maintenance, beside every other writer of the rows and failing anywhere, *)
(* leaves no claim without its operation and no winner or observation       *)
(* without its claim, deletes nothing before RetentionAge and nothing a     *)
(* reply may still be owed for, and brings no blocker back (storage.go      *)
(* StorageMaintain and StorageCheck): for any rows and any RetentionAge.    *)
THEOREM PruningSafe == RetentionSpec => PruningIsSafe
<1>1. RetentionSpec => []RetentionInv
  BY RetentionBegins, RetentionSteps, PTL DEF RetentionSpec
<1>2. RetentionInv /\ [RetentionNext]_retentionVars => OldGoes
  BY PruneTakesOld, OthersKeepRows DEF OldGoes, RowsStay
<1>3. RetentionSpec => [][OldGoes]_retentionVars
  BY <1>1, <1>2, PTL DEF RetentionSpec
<1>4. RetentionSpec => [][HonestStep]_retentionVars
  BY <1>1, BlockersStayHonest, PTL DEF RetentionSpec
<1>5. RetentionSpec => OnlyOldGoes
  BY <1>3 DEF OnlyOldGoes, OldGoes
<1>6. RetentionSpec => BlockersAreHonest
  BY <1>4 DEF BlockersAreHonest, HonestStep
<1>7. RetentionSpec => []RelationsHold
  BY <1>1, InvGivesRelations, PTL
<1> QED BY <1>5, <1>6, <1>7 DEF PruningIsSafe

(* Every row keeps the columns its writers give it, and the job its place.  *)
THEOREM RetentionTyped == RetentionSpec => []RetentionTypeOK
<1>1. RetentionSpec => []RetentionInv
  BY RetentionBegins, RetentionSteps, PTL DEF RetentionSpec
<1> QED BY <1>1, InvGivesRelations, PTL

(***************************************************************************)
(* ReceiptStore: a copy of a receipt that is true stays true, however old. *)
(***************************************************************************)

Kinds == {"none", "show", "reconcile", "resolve", "wait"}
Process == [kind : Kinds, step : Steps, ref : {SentReceipt} \cup Command, held : Document,
            prev : Document, owes : BOOLEAN]
ReceiptTypes ==
    /\ op \in OpStates /\ row \in Assertions \cup {"none"} /\ reply \in ReplyStates \cup {"none"}
    /\ history \subseteq Item /\ replied \in BOOLEAN /\ delivered \in BOOLEAN
    /\ DOMAIN store \subseteq {SentReceipt} \cup Command /\ store \in [DOMAIN store -> Document]
    /\ run \in [Command -> Process]

(* What a document claims of thread, reply and resolution. *)
Bears(d, answer, assertion) ==
    /\ "accepted" \in d.evidence => delivered
    /\ d.content => answer = "reply_observed"
    /\ d.resolution \in {"none", assertion}
Holds(d) == Bears(d, reply, row)

(* A body under the message's ID is the message's; the operation and its resolution agree. *)
WorldInv ==
    /\ "again" \in history => "genuine" \in history
    /\ "genuine" \in history => delivered
    /\ op = "accepted" => delivered
    /\ row # "none" => op = "manually_resolved"

DocsInv == \A r \in DOMAIN store : Holds(store[r])

Reconciling == {"history", "custody", "strengthen", "put", "transition", "rollback", "observe"}
Resolving == {"gate", "decide", "repair", "resolve"}
KnownOutcome == {"accepted", "manually_resolved"}

(* What a command knows at each of its steps. *)
Knows(p) ==
    /\ p.step # "idle" => Holds(p.held)
    /\ p.step \in Reconciling \cup Resolving => Holds(p.prev) /\ p.ref \in DOMAIN store
    /\ p.step \in Reconciling => p.kind = "reconcile"
    /\ p.step \in Resolving => p.kind = "resolve"
    /\ p.step \in {"strengthen", "put", "transition"} /\ ~p.held.content => delivered
    /\ p.step = "put" /\ ~p.owes => op \in KnownOutcome
    /\ p.step = "repair" => op = "manually_resolved"
    /\ p.step \in {"close", "done"} /\ p.kind = "reconcile" /\ ~p.held.content => op \in KnownOutcome
    /\ p.step \in {"close", "done"} /\ p.kind = "resolve" => op = "manually_resolved"

ReceiptInv == ReceiptTypes /\ WorldInv /\ DocsInv /\ \A c \in Command : Knows(run[c])

(* What no step takes back. *)
JournalStays ==
    /\ UNCHANGED threads
    /\ reply = "reply_observed" => reply' = reply
    /\ row # "none" => row' = row
    /\ op \in KnownOutcome => op' = op
StoreGrows == \A r \in DOMAIN store :
    /\ r \in DOMAIN store'
    /\ store[r].evidence \subseteq store'[r].evidence
    /\ store[r].content => store'[r].content
    /\ store[r].resolution # "none" => store'[r].resolution = store[r].resolution

(* A step of c, which may write the journal and one receipt. *)
CommandSteps(c) ==
    /\ ReceiptTypes' /\ WorldInv' /\ DocsInv' /\ JournalStays /\ StoreGrows
    /\ \A d \in Command \ {c} : run'[d] = run[d]
    /\ Knows(run[c])'

LEMMA KnowledgeStays ==
    ASSUME JournalStays, StoreGrows, NEW c \in Command, Knows(run[c]), run'[c] = run[c]
    PROVE  Knows(run[c])'
  BY DEF JournalStays, StoreGrows, Knows, Holds, Bears, threads, KnownOutcome

LEMMA StepKeepsInv ==
    ASSUME ReceiptInv, NEW c \in Command, CommandSteps(c)
    PROVE  ReceiptInv'
  <1>1. ASSUME NEW d \in Command, d # c PROVE Knows(run[d])'
    BY <1>1, KnowledgeStays DEF ReceiptInv, CommandSteps
  <1> QED
    BY <1>1 DEF ReceiptInv, CommandSteps

(* Writing a document that holds, as the step leaves the journal. *)
LEMMA PutKeeps ==
    ASSUME ReceiptTypes, DocsInv, JournalStays, NEW r \in {SentReceipt} \cup Command, NEW document \in Document,
           Bears(document, reply', row'), PutReceiptTx(r, document)
    PROVE  /\ DocsInv' /\ StoreGrows /\ r \in DOMAIN store'
           /\ DOMAIN store' \subseteq {SentReceipt} \cup Command /\ store' \in [DOMAIN store' -> Document]
  <1>1. ASSUME NEW old \in Document, Holds(old)
        PROVE  /\ Merge(old, document) \in Document /\ Bears(Merge(old, document), reply', row')
               /\ old.evidence \subseteq Merge(old, document).evidence
               /\ old.content => Merge(old, document).content
               /\ old.resolution # "none" => Merge(old, document).resolution = old.resolution
    <2>1. Merge(old, document) \in Document
      BY DEF Merge, Document
    <2>2. /\ Merge(old, document).evidence = document.evidence \cup old.evidence
          /\ Merge(old, document).content = (document.content \/ old.content)
          /\ Merge(old, document).resolution = IF document.resolution = "none" THEN old.resolution ELSE document.resolution
      BY DEF Merge, Document
    <2> QED
      BY <1>1, <2>1, <2>2 DEF Holds, Bears, JournalStays, threads
  <1>2. /\ DOMAIN store' = DOMAIN store \cup {r}
        /\ \A x \in DOMAIN store' : store'[x] = IF x # r THEN store[x]
                                                ELSE IF r \in DOMAIN store THEN Merge(store[r], document) ELSE document
        /\ store' = [x \in DOMAIN store' |-> store'[x]]
    BY DEF PutReceiptTx
  <1>3. ASSUME NEW x \in DOMAIN store' PROVE store'[x] \in Document /\ Bears(store'[x], reply', row')
    <2>1. CASE x # r
      <3>1. x \in DOMAIN store /\ store'[x] = store[x] /\ store[x] \in Document /\ Holds(store[x])
        BY <1>2, <2>1 DEF ReceiptTypes, DocsInv
      <3> QED
        BY <3>1 DEF Holds, Bears, JournalStays
    <2>2. CASE x = r /\ r \in DOMAIN store
      BY <1>1, <1>2, <2>2 DEF ReceiptTypes, DocsInv
    <2>3. CASE x = r /\ r \notin DOMAIN store
      BY <1>2, <2>3
    <2> QED
      BY <2>1, <2>2, <2>3
  <1>4. DocsInv'
    BY <1>3 DEF DocsInv, Holds, Bears, JournalStays, threads
  <1>5. ASSUME NEW x \in DOMAIN store
        PROVE  /\ x \in DOMAIN store' /\ store[x].evidence \subseteq store'[x].evidence
               /\ store[x].content => store'[x].content
               /\ store[x].resolution # "none" => store'[x].resolution = store[x].resolution
    <2>1. CASE x = r
      BY <1>1, <1>2, <2>1 DEF ReceiptTypes, DocsInv
    <2>2. CASE x # r
      BY <1>2, <2>2
    <2> QED
      BY <2>1, <2>2
  <1>6. store' \in [DOMAIN store' -> Document]
    BY <1>2, <1>3
  <1> QED
    BY <1>2, <1>4, <1>5, <1>6 DEF StoreGrows, ReceiptTypes

(* Steps that write nothing, and steps that write one receipt. *)
LEMMA QuietStep ==
    ASSUME ReceiptInv, NEW c \in Command, NEW q \in Process, run' = [run EXCEPT ![c] = q],
           UNCHANGED <<journal, threads, store>>, Knows(q)
    PROVE  CommandSteps(c)
  <1>1. run' \in [Command -> Process] /\ run'[c] = q /\ \A d \in Command \ {c} : run'[d] = run[d]
    BY DEF ReceiptInv, ReceiptTypes
  <1>2. Knows(run[c])'
    BY <1>1 DEF Knows, Holds, Bears, journal, threads
  <1> QED
    BY <1>1, <1>2 DEF CommandSteps, ReceiptInv, ReceiptTypes, WorldInv, DocsInv, Holds, Bears, JournalStays, StoreGrows, journal, threads

LEMMA WritingStep ==
    ASSUME ReceiptInv, NEW c \in Command, NEW q \in Process, run' = [run EXCEPT ![c] = q], JournalStays,
           op' \in OpStates, row' \in Assertions \cup {"none"}, reply' \in ReplyStates \cup {"none"}, WorldInv',
           \/ UNCHANGED store
           \/ \E r \in {SentReceipt} \cup Command, document \in Document : Bears(document, reply', row') /\ PutReceiptTx(r, document),
           Knows(run[c])'
    PROVE  CommandSteps(c)
  <1>1. run' \in [Command -> Process] /\ run'[c] = q /\ \A d \in Command \ {c} : run'[d] = run[d]
    BY DEF ReceiptInv, ReceiptTypes
  <1>2. /\ DocsInv' /\ StoreGrows
        /\ DOMAIN store' \subseteq {SentReceipt} \cup Command /\ store' \in [DOMAIN store' -> Document]
    <2>1. CASE UNCHANGED store
      BY <2>1 DEF ReceiptInv, ReceiptTypes, DocsInv, Holds, Bears, JournalStays, StoreGrows, threads
    <2>2. ASSUME NEW r \in {SentReceipt} \cup Command, NEW document \in Document, Bears(document, reply', row'), PutReceiptTx(r, document)
          PROVE  /\ DocsInv' /\ StoreGrows
                 /\ DOMAIN store' \subseteq {SentReceipt} \cup Command /\ store' \in [DOMAIN store' -> Document]
      BY <2>2, PutKeeps DEF ReceiptInv
    <2> QED
      BY <2>1, <2>2
  <1> QED
    BY <1>1, <1>2 DEF CommandSteps, ReceiptInv, ReceiptTypes, JournalStays, threads

LEMMA LoadMoves ==
    ASSUME ReceiptInv, NEW c \in Command, NEW kind \in {"show", "reconcile", "resolve"},
           NEW r \in {SentReceipt} \cup Command, LoadReceipt(c, kind, r)
    PROVE  CommandSteps(c)
  <1> DEFINE q == [kind |-> kind, ref |-> r, held |-> store[r], prev |-> store[r], owes |-> FALSE,
                   step |-> Begins(kind, r)]
  <1>1. store[r] \in Document /\ Holds(store[r]) /\ r \in DOMAIN store
    BY DEF LoadReceipt, ReceiptInv, ReceiptTypes, DocsInv
  <1>2. /\ kind = "show" => Begins(kind, r) = "close"
        /\ kind = "resolve" => Begins(kind, r) = "gate"
        /\ kind = "reconcile" => Begins(kind, r) \in {"custody", "history"}
    BY DEF Begins
  <1>3. q \in Process
    BY <1>1, <1>2 DEF Process, Kinds, Steps
  <1>4. Knows(q)
    BY <1>1, <1>2 DEF Knows, Reconciling, Resolving
  <1>5. run' = [run EXCEPT ![c] = q] /\ UNCHANGED <<journal, threads, store>>
    BY DEF LoadReceipt
  <1> QED
    BY <1>3, <1>4, <1>5, QuietStep

LEMMA WaitedMoves ==
    ASSUME ReceiptInv, NEW c \in Command, Waited(c)
    PROVE  CommandSteps(c)
  <1> DEFINE d == [Doc(reply) EXCEPT !.content = reply = "reply_observed"]
             q == [NoCommand EXCEPT !.kind = "wait", !.step = "close", !.ref = c, !.held = d]
  <1>1. reply \in ReplyStates
    BY DEF Waited, ReceiptInv, ReceiptTypes
  <1>2. d = [state |-> reply, evidence |-> {reply}, resolution |-> "none", content |-> (reply = "reply_observed")]
    BY DEF Doc
  <1>3. d \in Document /\ Holds(d)
    <2>1. d \in Document
      <3>1. CASE reply = "reply_observed"
        <4>1. d = [state |-> reply, evidence |-> {reply}, resolution |-> "none", content |-> TRUE]
          BY <1>2, <3>1, Zenon
        <4> HIDE DEF d
        <4> QED
          BY <1>1, <4>1 DEF Document
      <3>2. CASE reply # "reply_observed"
        <4>1. d = [state |-> reply, evidence |-> {reply}, resolution |-> "none", content |-> FALSE]
          BY <1>2, <3>2, Zenon
        <4> HIDE DEF d
        <4> QED
          BY <1>1, <4>1 DEF Document
      <3> QED
        BY <3>1, <3>2
    <2>2. d.evidence = {reply} /\ d.resolution = "none" /\ (d.content <=> reply = "reply_observed")
      BY <1>2
    <2>3. reply # "accepted"
      BY <1>1 DEF ReplyStates
    <2> QED
      BY <2>1, <2>2, <2>3 DEF Holds, Bears
  <1> HIDE DEF d
  <1>4. NoCommand \in Process
    <2>1. Doc("accepted") \in Document
      BY DEF Doc, Document, OpStates
    <2> QED
      BY <2>1 DEF NoCommand, Process, Kinds, Steps
  <1>5. q \in Process /\ q.kind = "wait" /\ q.step = "close" /\ q.held = d
    BY <1>3, <1>4 DEF Process, Kinds, Steps
  <1>6. Knows(q)
    BY <1>3, <1>5 DEF Knows, Reconciling, Resolving
  <1>7. run' = [run EXCEPT ![c] = q] /\ UNCHANGED <<journal, threads, store>>
    BY DEF Waited, d
  <1> QED
    BY <1>5, <1>6, <1>7, QuietStep

(* A command that only goes on to another step. *)
LEMMA GoesOn ==
    ASSUME ReceiptInv, NEW c \in Command, NEW step \in Steps, StepTo(c, step)
    PROVE  /\ run' = [run EXCEPT ![c] = [run[c] EXCEPT !.step = step]]
           /\ [run[c] EXCEPT !.step = step] \in Process
           /\ run'[c] = [run[c] EXCEPT !.step = step]
           /\ run[c] \in Process
  BY DEF ReceiptInv, ReceiptTypes, StepTo, Process

LEMMA QuietGo ==
    ASSUME ReceiptInv, NEW c \in Command, NEW step \in Steps, StepTo(c, step),
           Knows([run[c] EXCEPT !.step = step]), UNCHANGED <<journal, threads, store>>
    PROVE  CommandSteps(c)
  BY GoesOn, QuietStep

LEMMA HistoryMoves ==
    ASSUME ReceiptInv, NEW c \in Command, History(c)
    PROVE  CommandSteps(c)
  <1> DEFINE found == IF run[c].held.content THEN replied ELSE Cardinality(Carriers) = 1
             step == IF found THEN "strengthen" ELSE "failed"
  <1>1. found /\ ~run[c].held.content => delivered
    <2>1. ASSUME Cardinality(Carriers) = 1 PROVE Carriers # {}
      BY <2>1, FS_EmptySet
    <2> QED
      BY <2>1 DEF Carriers, ReceiptInv, WorldInv
  <1>2. step \in Steps /\ StepTo(c, step) /\ UNCHANGED <<journal, threads, store>> /\ run[c].step = "history"
    BY DEF History, CommandAt, Steps
  <1>3. Knows(run[c]) /\ run[c] \in Process
    BY DEF ReceiptInv, ReceiptTypes
  <1>4. Knows([run[c] EXCEPT !.step = step])
    BY <1>1, <1>2, <1>3 DEF Knows, Reconciling, Resolving, Process
  <1> QED
    BY <1>2, <1>4, QuietGo

LEMMA EndMoves ==
    ASSUME ReceiptInv, NEW c \in Command, CommandFails(c) \/ CommandDies(c)
    PROVE  CommandSteps(c)
  <1>1. PICK step \in {"failed", "crashed"} :
          step \in Steps /\ StepTo(c, step) /\ UNCHANGED <<journal, threads, store>> /\ run[c].step # "idle"
    BY DEF CommandFails, CommandDies, Steps
  <1>2. Knows(run[c]) /\ run[c] \in Process
    BY DEF ReceiptInv, ReceiptTypes
  <1>3. Knows([run[c] EXCEPT !.step = step])
    BY <1>1, <1>2 DEF Knows, Reconciling, Resolving, Process
  <1> QED
    BY <1>1, <1>3, QuietGo

LEMMA CustodyMoves ==
    ASSUME ReceiptInv, NEW c \in Command, Custody(c)
    PROVE  CommandSteps(c)
  <1>1. PICK step \in {"observe", "failed"} :
          step \in Steps /\ StepTo(c, step) /\ UNCHANGED <<journal, threads, store>> /\ run[c].step = "custody"
    BY DEF Custody, CommandAt, Steps
  <1>2. Knows(run[c]) /\ run[c] \in Process
    BY DEF ReceiptInv, ReceiptTypes
  <1>3. Knows([run[c] EXCEPT !.step = step])
    BY <1>1, <1>2 DEF Knows, Reconciling, Resolving, Process
  <1> QED
    BY <1>1, <1>3, QuietGo

LEMMA GateMoves ==
    ASSUME ReceiptInv, NEW c \in Command, Authorize(c) \/ Decide(c)
    PROVE  CommandSteps(c)
  <1>1. PICK step \in {"decide", "failed", "repair", "resolve"} :
          /\ step \in Steps /\ StepTo(c, step) /\ UNCHANGED <<journal, threads, store>>
          /\ run[c].step \in {"gate", "decide"} /\ (step = "repair" => op = "manually_resolved")
    BY DEF Authorize, Decide, CommandAt, Steps
  <1>2. Knows(run[c]) /\ run[c] \in Process
    BY DEF ReceiptInv, ReceiptTypes
  <1>3. Knows([run[c] EXCEPT !.step = step])
    BY <1>1, <1>2 DEF Knows, Reconciling, Resolving, Process
  <1> QED
    BY <1>1, <1>3, QuietGo

LEMMA StrengthenMoves ==
    ASSUME ReceiptInv, NEW c \in Command, Strengthen(c)
    PROVE  CommandSteps(c)
  <1> DEFINE document == run[c].held
             state == IF document.content THEN "reply_observed"
                      ELSE IF document.state = "outcome_unknown" THEN "accepted" ELSE document.state
             d == [document EXCEPT !.state = state, !.evidence = @ \cup {state}]
             owes == document.content \/ op \in {"outcome_unknown", "dispatch_started"}
             q == [run[c] EXCEPT !.step = "put", !.owes = owes, !.held = d]
  <1>1. Knows(run[c]) /\ run[c] \in Process /\ run[c].step = "strengthen" /\ document \in Document
    BY DEF ReceiptInv, ReceiptTypes, Strengthen, CommandAt, Process
  <1>2. state \in OpStates \cup ReplyStates
    BY <1>1 DEF Document, OpStates, ReplyStates
  <1>3. Holds(document) /\ (~document.content => delivered) /\ run[c].kind = "reconcile"
    BY <1>1 DEF Knows, Reconciling
  <1>4. d \in Document /\ d.evidence = document.evidence \cup {state} /\ d.content = document.content /\ d.resolution = document.resolution
    BY <1>1, <1>2 DEF Document
  <1>5. Holds(d)
    BY <1>3, <1>4 DEF Holds, Bears
  <1>6. /\ q \in Process /\ q.step = "put" /\ q.owes = owes /\ q.held = d /\ q.prev = run[c].prev
        /\ q.ref = run[c].ref /\ q.kind = "reconcile"
    BY <1>1, <1>3, <1>4 DEF Process, Steps
  <1>7. ~owes => op \in KnownOutcome
    BY DEF ReceiptInv, ReceiptTypes, OpStates, KnownOutcome
  <1>8. Knows(q)
    BY <1>1, <1>3, <1>4, <1>5, <1>6, <1>7 DEF Knows, Reconciling, Resolving
  <1>9. run' = [run EXCEPT ![c] = q] /\ UNCHANGED <<journal, threads, store>>
    BY DEF Strengthen, ReceiptInv, ReceiptTypes, Process
  <1> QED
    BY <1>6, <1>8, <1>9, QuietStep

(* A command that goes on to another step and writes on its way. *)
LEMMA WritingGo ==
    ASSUME ReceiptInv, NEW c \in Command, NEW step \in Steps, StepTo(c, step), JournalStays,
           op' \in OpStates, row' \in Assertions \cup {"none"}, reply' \in ReplyStates \cup {"none"}, WorldInv',
           \/ UNCHANGED store
           \/ \E r \in {SentReceipt} \cup Command, document \in Document : Bears(document, reply', row') /\ PutReceiptTx(r, document),
           Knows(run[c])'
    PROVE  CommandSteps(c)
  BY GoesOn, WritingStep

LEMMA PutProjectionMoves ==
    ASSUME ReceiptInv, NEW c \in Command, PutProjection(c)
    PROVE  CommandSteps(c)
  <1> DEFINE p == run[c]
  <1>1. p \in Process /\ p.step = "put" /\ Knows(p) /\ UNCHANGED <<journal, threads>>
    BY DEF ReceiptInv, ReceiptTypes, PutProjection, CommandAt
  <1>2. JournalStays /\ WorldInv' /\ op' = op /\ row' = row /\ reply' = reply
    BY <1>1 DEF JournalStays, ReceiptInv, WorldInv, journal, threads
  <1>3. Holds(p.held) /\ p.held \in Document /\ p.ref \in {SentReceipt} \cup Command
    BY <1>1 DEF Knows, Process
  <1>4. PICK step \in {"transition", "close", "failed"} :
          /\ StepTo(c, step) /\ (step = "close" => ~p.owes)
          /\ \/ PutReceiptTx(p.ref, p.held)
             \/ UNCHANGED store /\ step = "failed"
    BY DEF PutProjection
  <1>5. run'[c] = [p EXCEPT !.step = step] /\ step \in Steps
    <2>1. step \in Steps
      BY DEF Steps
    <2> QED
      BY <1>4, <2>1, GoesOn
  <1>6. p.ref \in DOMAIN store /\ p.kind = "reconcile" /\ Holds(p.prev)
    BY <1>1 DEF Knows, Reconciling
  <1>7. p.ref \in DOMAIN store'
    BY <1>4, <1>6 DEF PutReceiptTx
  <1>8. Knows(run[c])'
    BY <1>1, <1>2, <1>3, <1>4, <1>5, <1>6, <1>7 DEF Knows, Holds, Bears, Reconciling, Resolving, Process, journal, threads
  <1>9. Bears(p.held, reply', row')
    BY <1>2, <1>3 DEF Holds
  <1> QED
    BY <1>1, <1>2, <1>3, <1>4, <1>5, <1>8, <1>9, WritingGo DEF ReceiptInv, ReceiptTypes

LEMMA TransitionMoves ==
    ASSUME ReceiptInv, NEW c \in Command, Transition(c)
    PROVE  CommandSteps(c)
  <1> DEFINE p == run[c]
  <1>1. p \in Process /\ p.step = "transition" /\ Knows(p) /\ UNCHANGED <<row, threads, store>>
    BY DEF ReceiptInv, ReceiptTypes, Transition, CommandAt
  <1>2. Holds(p.held) /\ p.kind = "reconcile" /\ (~p.held.content => delivered) /\ p.held.content \in BOOLEAN
        /\ Holds(p.prev) /\ p.ref \in DOMAIN store
    BY <1>1 DEF Knows, Reconciling, Process, Document
  <1>3. PICK step \in {"close", "rollback"} :
          /\ StepTo(c, step)
          /\ \/ step = "close" /\ p.held.content /\ reply' = "reply_observed" /\ op' = op
             \/ step = "close" /\ ~p.held.content /\ op \in {"dispatch_started", "outcome_unknown"}
                /\ op' = "accepted" /\ reply' = reply
             \/ step = "rollback" /\ op' = op /\ reply' = reply
    BY DEF Transition
  <1>4. run'[c] = [p EXCEPT !.step = step] /\ step \in Steps
    <2>1. step \in Steps
      BY DEF Steps
    <2> QED
      BY <1>3, <2>1, GoesOn
  <1>5. JournalStays /\ WorldInv'
    BY <1>1, <1>2, <1>3 DEF JournalStays, ReceiptInv, WorldInv, threads, KnownOutcome
  <1>6. op' \in OpStates /\ row' = row /\ reply' \in ReplyStates \cup {"none"}
    BY <1>1, <1>3 DEF ReceiptInv, ReceiptTypes, OpStates, ReplyStates
  <1>7. Knows(run[c])'
    BY <1>1, <1>2, <1>3, <1>4 DEF Knows, Holds, Bears, Reconciling, Resolving, KnownOutcome, Process, threads
  <1> QED
    BY <1>1, <1>3, <1>4, <1>5, <1>6, <1>7, WritingGo DEF ReceiptInv, ReceiptTypes

(* The two steps that store a document the command holds and change nothing else. *)
LEMMA StoringMoves ==
    ASSUME ReceiptInv, NEW c \in Command, Rollback(c) \/ Close(c)
    PROVE  CommandSteps(c)
  <1> DEFINE p == run[c]
  <1>1. p \in Process /\ Knows(p) /\ UNCHANGED <<journal, threads>>
    BY DEF ReceiptInv, ReceiptTypes, Rollback, Close
  <1>2. PICK step \in {"failed", "done"}, document \in Document :
          /\ StepTo(c, step) /\ Holds(document) /\ (step = "done" => p.step = "close")
          /\ PutReceiptTx(p.ref, document) \/ UNCHANGED store
          /\ p.step \in {"rollback", "close"}
    <2>1. p.held \in Document /\ p.prev \in Document
      BY <1>1 DEF Process
    <2>2. CASE Rollback(c)
      <3>1. p.step = "rollback" /\ StepTo(c, "failed") /\ (PutReceiptTx(p.ref, p.prev) \/ UNCHANGED store)
        BY <2>2 DEF Rollback, CommandAt
      <3>2. Holds(p.prev)
        BY <1>1, <3>1 DEF Knows, Reconciling
      <3> QED
        BY <2>1, <3>1, <3>2
    <2>3. CASE Close(c)
      <3>1. p.step = "close" /\ StepTo(c, "done") /\ (PutReceiptTx(p.ref, p.held) \/ UNCHANGED store)
        BY <2>3 DEF Close, CommandAt
      <3>2. Holds(p.held)
        BY <1>1, <3>1 DEF Knows
      <3> QED
        BY <2>1, <3>1, <3>2
    <2> QED
      BY <2>2, <2>3
  <1>3. JournalStays /\ WorldInv' /\ op' = op /\ row' = row /\ reply' = reply
    BY <1>1 DEF JournalStays, ReceiptInv, WorldInv, journal, threads
  <1>4. run'[c] = [p EXCEPT !.step = step] /\ step \in Steps
    <2>1. step \in Steps
      BY DEF Steps
    <2> QED
      BY <1>2, <2>1, GoesOn
  <1>5. Knows(run[c])'
    BY <1>1, <1>2, <1>3, <1>4 DEF Knows, Holds, Bears, Reconciling, Resolving, Process, journal, threads
  <1>6. Bears(document, reply', row') /\ p.ref \in {SentReceipt} \cup Command
    BY <1>1, <1>2, <1>3 DEF Holds, Process
  <1> QED
    BY <1>2, <1>3, <1>4, <1>5, <1>6, WritingGo DEF ReceiptInv, ReceiptTypes

(* A command that takes over a document of its own and goes on to the close. *)
LEMMA Closes ==
    ASSUME ReceiptInv, NEW c \in Command, NEW document \in Document, StepWith(c, "close", document)
    PROVE  LET q == [run[c] EXCEPT !.step = "close", !.held = document]
           IN  /\ run' = [run EXCEPT ![c] = q] /\ q \in Process /\ run'[c] = q
               /\ q.step = "close" /\ q.held = document /\ q.kind = run[c].kind
  <1> DEFINE q == [run[c] EXCEPT !.step = "close", !.held = document]
             there == [run EXCEPT ![c] = [run[c] EXCEPT !.step = "close"]]
  <1>1. run \in [Command -> Process] /\ run[c] \in Process
    BY DEF ReceiptInv, ReceiptTypes
  <1>2. there[c] = [run[c] EXCEPT !.step = "close"]
    BY <1>1
  <1>3. run' = [there EXCEPT ![c] = [there[c] EXCEPT !.held = document]]
    BY DEF StepWith
  <1>4. [there[c] EXCEPT !.held = document] = q
    BY <1>2
  <1>5. q \in Process /\ q.step = "close" /\ q.held = document /\ q.kind = run[c].kind
    BY <1>1 DEF Process, Steps
  <1> HIDE DEF q
  <1>6. run' = [run EXCEPT ![c] = q] /\ run'[c] = q
    BY <1>1, <1>3, <1>4
  <1> QED
    BY <1>5, <1>6 DEF q

LEMMA ClosingMoves ==
    ASSUME ReceiptInv, NEW c \in Command, NEW document \in Document, StepWith(c, "close", document), JournalStays,
           op' \in OpStates, row' \in Assertions \cup {"none"}, reply' \in ReplyStates \cup {"none"}, WorldInv',
           Bears(document, reply', row'), run[c].step # "idle",
           UNCHANGED store \/ PutReceiptTx(run[c].ref, document),
           run[c].kind = "reconcile" /\ ~document.content => op' \in KnownOutcome,
           run[c].kind = "resolve" => op' = "manually_resolved"
    PROVE  CommandSteps(c)
  <1> DEFINE q == [run[c] EXCEPT !.step = "close", !.held = document]
  <1>1. run' = [run EXCEPT ![c] = q] /\ q \in Process /\ run'[c] = q
        /\ q.step = "close" /\ q.held = document /\ q.kind = run[c].kind
    BY Closes
  <1> HIDE DEF q
  <1>2. Knows(run[c])'
    BY <1>1 DEF Knows, Holds, Bears, Reconciling, Resolving, JournalStays, threads
  <1>3. run[c].ref \in {SentReceipt} \cup Command
    BY DEF ReceiptInv, ReceiptTypes, Process
  <1> QED
    BY <1>1, <1>2, <1>3, WritingStep

LEMMA ObserveMoves ==
    ASSUME ReceiptInv, NEW c \in Command, Observe(c)
    PROVE  CommandSteps(c)
  <1> DEFINE p == run[c]
             document == [p.held EXCEPT !.state = "reply_observed", !.content = TRUE, !.evidence = @ \cup {"reply_observed"}]
  <1>1. p \in Process /\ p.step = "observe" /\ Knows(p) /\ UNCHANGED <<op, row, threads>>
    BY DEF ReceiptInv, ReceiptTypes, Observe, CommandAt
  <1>2. Holds(p.held) /\ p.held \in Document /\ p.kind = "reconcile"
    BY <1>1 DEF Knows, Reconciling, Process
  <1>3. document \in Document /\ document.content /\ document.resolution = p.held.resolution
        /\ document.evidence = p.held.evidence \cup {"reply_observed"}
    BY <1>2 DEF Document, ReplyStates
  <1>4. CASE reply' = "reply_observed" /\ PutReceiptTx(p.ref, document) /\ StepWith(c, "close", document)
    <2>1. JournalStays /\ WorldInv'
      BY <1>1, <1>4 DEF JournalStays, ReceiptInv, WorldInv, threads
    <2>2. Bears(document, reply', row')
      BY <1>1, <1>2, <1>3, <1>4 DEF Holds, Bears
    <2>3. op' \in OpStates /\ row' \in Assertions \cup {"none"} /\ reply' \in ReplyStates \cup {"none"}
      BY <1>1, <1>4 DEF ReceiptInv, ReceiptTypes, ReplyStates
    <2> HIDE DEF document
    <2> QED
      BY <1>1, <1>2, <1>3, <1>4, <2>1, <2>2, <2>3, ClosingMoves
  <1>5. CASE StepTo(c, "failed") /\ UNCHANGED <<reply, store>>
    <2>1. Knows([p EXCEPT !.step = "failed"])
      BY <1>1, <1>2 DEF Knows, Reconciling, Resolving, Process
    <2> QED
      BY <1>1, <1>5, <2>1, QuietGo DEF Steps, journal
  <1> QED
    BY <1>4, <1>5 DEF Observe

LEMMA RepairMoves ==
    ASSUME ReceiptInv, NEW c \in Command, Repair(c)
    PROVE  CommandSteps(c)
  <1> DEFINE p == run[c]
             document == [p.held EXCEPT !.state = "manually_resolved", !.resolution = row]
  <1>1. p \in Process /\ p.step = "repair" /\ Knows(p) /\ UNCHANGED <<journal, threads>>
    BY DEF ReceiptInv, ReceiptTypes, Repair, CommandAt
  <1>2. Holds(p.held) /\ p.held \in Document /\ p.kind = "resolve" /\ op = "manually_resolved"
    BY <1>1 DEF Knows, Resolving, Process
  <1>3. document \in Document /\ document.content = p.held.content /\ document.resolution = row /\ document.evidence = p.held.evidence
    BY <1>2 DEF Document, OpStates, ReceiptInv, ReceiptTypes
  <1>4. CASE PutReceiptTx(p.ref, document) /\ StepWith(c, "close", document)
    <2>1. JournalStays /\ WorldInv' /\ op' = op /\ row' = row /\ reply' = reply
      BY <1>1 DEF JournalStays, ReceiptInv, WorldInv, journal, threads
    <2>2. Bears(document, reply', row')
      BY <1>2, <1>3, <2>1 DEF Holds, Bears
    <2>3. op' \in OpStates /\ row' \in Assertions \cup {"none"} /\ reply' \in ReplyStates \cup {"none"}
      BY <2>1 DEF ReceiptInv, ReceiptTypes
    <2> HIDE DEF document
    <2> QED
      BY <1>1, <1>2, <1>3, <1>4, <2>1, <2>2, <2>3, ClosingMoves
  <1>5. CASE StepTo(c, "failed") /\ UNCHANGED store
    <2>1. Knows([p EXCEPT !.step = "failed"])
      BY <1>1, <1>2 DEF Knows, Reconciling, Resolving, Process
    <2> QED
      BY <1>1, <1>5, <2>1, QuietGo DEF Steps
  <1> QED
    BY <1>4, <1>5 DEF Repair

LEMMA ResolveMoves ==
    ASSUME ReceiptInv, NEW c \in Command, ResolveReceipt(c)
    PROVE  CommandSteps(c)
  <1> DEFINE p == run[c]
             document(a) == [p.held EXCEPT !.state = "manually_resolved", !.resolution = a]
  <1>1. p \in Process /\ p.step = "resolve" /\ Knows(p) /\ UNCHANGED <<reply, threads>>
    BY DEF ReceiptInv, ReceiptTypes, ResolveReceipt, CommandAt
  <1>2. Holds(p.held) /\ p.held \in Document /\ p.kind = "resolve" /\ p.ref \in DOMAIN store
    BY <1>1 DEF Knows, Resolving, Process
  <1>3. ASSUME NEW a \in Assertions, op = "outcome_unknown", op' = "manually_resolved", row' = a,
               PutReceiptTx(p.ref, document(a)), StepWith(c, "close", document(a))
        PROVE  CommandSteps(c)
    <2>1. document(a) \in Document /\ document(a).content = p.held.content /\ document(a).resolution = a
          /\ document(a).evidence = p.held.evidence
      BY <1>2 DEF Document, OpStates
    <2>2. JournalStays /\ WorldInv'
      BY <1>1, <1>3 DEF JournalStays, ReceiptInv, WorldInv, threads, KnownOutcome
    <2>3. Bears(document(a), reply', row')
      BY <1>1, <1>2, <1>3, <2>1 DEF Holds, Bears
    <2>4. op' \in OpStates /\ row' \in Assertions \cup {"none"} /\ reply' \in ReplyStates \cup {"none"}
      BY <1>1, <1>3 DEF ReceiptInv, ReceiptTypes, OpStates
    <2> HIDE DEF document
    <2> QED
      BY <1>1, <1>2, <1>3, <2>1, <2>2, <2>3, <2>4, ClosingMoves
  <1>4. CASE op = "manually_resolved" /\ StepWith(c, "close", store[p.ref]) /\ UNCHANGED <<op, row, store>>
    <2>1. store[p.ref] \in Document /\ Holds(store[p.ref])
      BY <1>2 DEF ReceiptInv, ReceiptTypes, DocsInv
    <2>2. JournalStays /\ WorldInv'
      BY <1>1, <1>4 DEF JournalStays, ReceiptInv, WorldInv, threads
    <2>3. Bears(store[p.ref], reply', row')
      BY <1>1, <1>4, <2>1 DEF Holds
    <2>4. op' \in OpStates /\ row' \in Assertions \cup {"none"} /\ reply' \in ReplyStates \cup {"none"}
      BY <1>1, <1>4 DEF ReceiptInv, ReceiptTypes
    <2> QED
      BY <1>1, <1>2, <1>4, <2>1, <2>2, <2>3, <2>4, ClosingMoves
  <1>5. CASE StepTo(c, "failed") /\ UNCHANGED <<op, row, store>>
    <2>1. Knows([p EXCEPT !.step = "failed"])
      BY <1>1, <1>2 DEF Knows, Reconciling, Resolving, Process
    <2> QED
      BY <1>1, <1>5, <2>1, QuietGo DEF Steps, journal
  <1> QED
    BY <1>3, <1>4, <1>5 DEF ResolveReceipt

LEMMA ReplyMovesKeeps ==
    ASSUME ReceiptInv, ReplyMoves
    PROVE  ReceiptInv' /\ StoreGrows
  <1>1. UNCHANGED <<op, row, threads, store, run>> /\ reply # "reply_observed" /\ reply' \in ReplyStates
    BY DEF ReplyMoves, ReplyStates
  <1>2. ReceiptTypes' /\ WorldInv' /\ JournalStays /\ StoreGrows
    BY <1>1 DEF ReceiptInv, ReceiptTypes, WorldInv, JournalStays, StoreGrows, threads
  <1>3. DocsInv'
    BY <1>1 DEF ReceiptInv, DocsInv, Holds, Bears, threads
  <1>4. ASSUME NEW c \in Command PROVE Knows(run[c])'
    BY <1>1, <1>2, KnowledgeStays DEF ReceiptInv
  <1> QED
    BY <1>2, <1>3, <1>4 DEF ReceiptInv

LEMMA NextKeepsReceipts ==
    ASSUME ReceiptInv, [ReceiptNext]_receiptVars
    PROVE  ReceiptInv' /\ StoreGrows
  <1>1. ASSUME NEW c \in Command, CommandSteps(c) PROVE ReceiptInv' /\ StoreGrows
    BY <1>1, StepKeepsInv DEF CommandSteps
  <1>2. ASSUME NEW c \in Command, NEW kind \in {"show", "reconcile", "resolve"},
               NEW r \in {SentReceipt} \cup Command, LoadReceipt(c, kind, r)
        PROVE  ReceiptInv' /\ StoreGrows
    BY <1>1, <1>2, LoadMoves
  <1>3. ASSUME NEW c \in Command,
               \/ Waited(c) \/ History(c) \/ CommandFails(c) \/ Strengthen(c) \/ PutProjection(c) \/ Transition(c)
               \/ Rollback(c) \/ Custody(c) \/ Observe(c) \/ Authorize(c) \/ Decide(c) \/ Repair(c)
               \/ ResolveReceipt(c) \/ Close(c) \/ CommandDies(c)
        PROVE  ReceiptInv' /\ StoreGrows
    <2>1. CommandSteps(c)
      BY <1>3, WaitedMoves, HistoryMoves, EndMoves, StrengthenMoves, PutProjectionMoves, TransitionMoves,
         StoringMoves, CustodyMoves, ObserveMoves, GateMoves, RepairMoves, ResolveMoves
    <2> QED
      BY <2>1, <1>1
  <1>4. CASE UNCHANGED receiptVars
    <2>1. ReceiptTypes' /\ WorldInv' /\ DocsInv' /\ JournalStays /\ StoreGrows
      BY <1>4 DEF receiptVars, ReceiptInv, ReceiptTypes, WorldInv, DocsInv, Holds, Bears, JournalStays, StoreGrows, threads
    <2>2. ASSUME NEW c \in Command PROVE Knows(run[c])'
      BY <1>4, <2>1, KnowledgeStays DEF ReceiptInv, receiptVars
    <2> QED
      BY <2>1, <2>2 DEF ReceiptInv
  <1> QED
    BY <1>2, <1>3, <1>4, ReplyMovesKeeps DEF ReceiptNext

LEMMA InitReceipts == ReceiptInit => ReceiptInv
  <1> SUFFICES ASSUME ReceiptInit PROVE ReceiptInv
    OBVIOUS
  <1>1. PICK start \in {<<"accepted", "accepted">>, <<"outcome_unknown", "outcome_unknown">>,
                        <<"dispatch_started", "outcome_unknown">>, <<"dispatch_started", "accepted">>} :
          /\ op = start[1] /\ store = [r \in {SentReceipt} |-> Doc(start[2])] /\ history \in SUBSET Item
          /\ "again" \in history => "genuine" \in history
          /\ delivered \in BOOLEAN /\ ("genuine" \in history \/ "accepted" \in {start[1], start[2]} => delivered)
    BY DEF ReceiptInit
  <1>2. row = "none" /\ reply = "none" /\ replied \in BOOLEAN /\ run = [c \in Command |-> NoCommand]
    BY DEF ReceiptInit
  <1>3. /\ start[1] \in OpStates /\ start[2] \in OpStates
        /\ op = start[1] /\ DOMAIN store = {SentReceipt} /\ store[SentReceipt] = Doc(start[2])
    BY <1>1 DEF OpStates
  <1>4. \A s \in OpStates : Doc(s) \in Document /\ Doc(s).evidence = {s} /\ ~Doc(s).content /\ Doc(s).resolution = "none"
    BY DEF Doc, Document
  <1>5. NoCommand \in Process /\ NoCommand.step = "idle"
    <2>1. Doc("accepted") \in Document
      BY <1>4 DEF OpStates
    <2> QED
      BY <2>1 DEF NoCommand, Process, Kinds, Steps
  <1>6. ReceiptTypes
    BY <1>1, <1>2, <1>3, <1>4, <1>5 DEF ReceiptTypes
  <1>7. WorldInv
    BY <1>1, <1>2, <1>3 DEF WorldInv
  <1>8. DocsInv
    BY <1>1, <1>2, <1>3, <1>4 DEF DocsInv, Holds, Bears
  <1>9. ASSUME NEW c \in Command PROVE Knows(run[c])
    BY <1>2, <1>5 DEF Knows, Reconciling, Resolving
  <1> QED
    BY <1>6, <1>7, <1>8, <1>9 DEF ReceiptInv

(* A receipt is accepted only with the body in the thread, two resolvers leave one assertion,    *)
(* success is in the journal, and no writer takes away what another one added (receipts.go).     *)
THEOREM ReceiptsSound == ReceiptSpec => ReceiptsAreTrue
  <1>1. ReceiptInv => AcceptedIsProven /\ OneResolution /\ SuccessIsDurable
    <2> SUFFICES ASSUME ReceiptInv PROVE AcceptedIsProven /\ OneResolution /\ SuccessIsDurable
      OBVIOUS
    <2>1. AcceptedIsProven /\ OneResolution
      BY DEF ReceiptInv, WorldInv, DocsInv, Holds, Bears, AcceptedIsProven, OneResolution
    <2>2. ASSUME NEW c \in Command, run[c].step \in {"close", "done"}
          PROVE  /\ run[c].kind = "reconcile" => IF run[c].held.content THEN reply = "reply_observed"
                                                  ELSE op \in {"accepted", "manually_resolved"}
                 /\ run[c].kind = "resolve" => op = "manually_resolved"
      <3>1. Knows(run[c]) /\ run[c].held.content \in BOOLEAN
        BY DEF ReceiptInv, ReceiptTypes, Process, Document
      <3> QED
        BY <2>2, <3>1 DEF Knows, Holds, Bears, KnownOutcome
    <2> QED
      BY <2>1, <2>2 DEF SuccessIsDurable
  <1>2. StoreGrows => [\A r \in DOMAIN store :
            /\ r \in DOMAIN store'
            /\ store[r].evidence \subseteq store'[r].evidence
            /\ store[r].content => store'[r].content
            /\ store[r].resolution # "none" => store'[r].resolution = store[r].resolution]_receiptVars
    BY DEF StoreGrows
  <1> QED
    BY <1>1, <1>2, InitReceipts, NextKeepsReceipts, PTL DEF ReceiptSpec, ReceiptsAreTrue, NothingIsLost

(* The receipts and the commands have the shape TypeOK names (receipts/, journal/receipts.go).   *)
THEOREM ReceiptStoreTyped == ReceiptSpec => []ReceiptTypeOK
  <1>1. ReceiptInv => ReceiptTypeOK
    BY DEF ReceiptInv, ReceiptTypes, ReceiptTypeOK, Process
  <1> QED
    BY <1>1, InitReceipts, NextKeepsReceipts, PTL DEF ReceiptSpec

(***************************************************************************)
(* PortableWait: what exports and receipts name was selected by custody.   *)
(***************************************************************************)

USE PortableAssumption

(* A reply that custody has named by now: while it is unknown, no other. *)
Named(r) == custody.sel # "pending" /\ (custody.sel = "terminal_unknown" => r = custody.reply)
AllNamed(records) == \A c \in records : Named(c.reply)
SelNamed(s) == s.sel # "pending" => Named(s.reply)

(* A receipt is kept where its operation is, and names what custody selected. *)
OpHere(m) == projected[m].op \/ custodian = m
PlacesInv ==
    /\ \A m \in Machine : SelNamed(projected[m].sel)
    /\ \A id \in Id : doc[id] # Absent => OpHere(Home(id)) /\ AllNamed(doc[id].records)

(* An export is an earlier state of a receipt there is. *)
Genuine(id, exported) ==
    /\ doc[id] # Absent /\ AllNamed(exported.records)
    /\ exported.ref # "none" => doc[id].ref = exported.ref
ExportInv == export # Absent => Genuine(export.id, export.doc)

(* Why an import was refused, in terms that stay true. *)
Cause(q) ==
    \/ Malformed(q.file.records)
    \/ Home(q.id) = q.at /\ Malformed(doc[q.id].records)
    \/ custody.sel = "winner" /\ \E c \in q.claims : c.reply # custody.reply
    \/ projected[q.at].sel.sel = "winner" /\ q.answer.sel = "terminal_unknown"
    \/ /\ projected[q.at].sel.sel = "winner" /\ q.answer.sel = "winner"
       /\ projected[q.at].sel.reply # q.answer.reply

(* What an import holds: a genuine export, claims and an answer that custody made; a winner it   *)
(* was answered is the winner for good.                                                          *)
Grounded(q) ==
    /\ q.step # "idle" => Genuine(q.id, q.file)
    /\ AllNamed(q.claims) /\ SelNamed(q.answer)
    /\ q.answer.sel = "winner" => custody.sel = "winner" /\ custody.reply = q.answer.reply
    /\ q.stored => Home(q.id) = q.at
    /\ q.step = "reference" => OpHere(q.at)
    /\ q.step \in {"conflict", "malformed"} => Cause(q)

Imported == [step : {"idle", "lookup", "status", "persist"} \cup ImportResults, at : Machine, id : Id,
             file : Receipt, claims : SUBSET Record, stored : BOOLEAN, answer : Selection]
PlaceTypes ==
    /\ custodian \in Machine \cup {"third"} /\ custody \in Selection
    /\ projected \in [Machine -> [op : BOOLEAN, sel : Selection]]
    /\ doc \in [Id -> Receipt \cup {Absent}]
ImportTypes == export \in [id : Id, doc : Receipt] \cup {Absent} /\ import \in [Importer -> Imported]

PortableInv == /\ PlaceTypes /\ ImportTypes /\ PlacesInv /\ ExportInv
               /\ \A p \in Importer : Grounded(import[p])

(* What no step takes back: a selection is final once it is a winner, a row keeps its winner and *)
(* a receipt its records and its reference.                                                      *)
Advances ==
    /\ custodian' = custodian
    /\ custody.sel = "winner" => custody'.sel = "winner" /\ custody'.reply = custody.reply
    /\ custody.sel = "terminal_unknown" => custody' = custody \/ custody'.sel = "winner"
    /\ \A m \in Machine :
          /\ projected[m].op => projected'[m].op
          /\ projected[m].sel.sel = "winner" =>
                projected'[m].sel.sel = "winner" /\ projected'[m].sel.reply = projected[m].sel.reply
    /\ \A id \in Id : doc[id] # Absent =>
          /\ doc'[id] # Absent /\ doc[id].records \subseteq doc'[id].records
          /\ doc[id].ref # "none" => doc'[id].ref = doc[id].ref

(* No journal takes a winner that the custodian did not select, but by its own reconciliation. *)
SelectsNone == \A m \in Machine : TakesAWinner(m) =>
    \/ SameWinner(projected'[m].sel, custody)
    \/ Reconcile(m) /\ projected'[m].sel.reply = projected[m].sel.reply

LEMMA RowsAlone == UNCHANGED projected => SelectsNone
  BY DEF SelectsNone, TakesAWinner, SameWinner

LEMMA Selections ==
    /\ Pending \in Selection
    /\ \A r \in Reply, seen \in BOOLEAN :
          Winner(r, seen) \in Selection /\ Winner(r, seen).sel = "winner" /\ Winner(r, seen).reply = r
    /\ \A r \in Reply :
          Unknown(r) \in Selection /\ Unknown(r).sel = "terminal_unknown" /\ Unknown(r).reply = r
  BY DEF Selection, Pending, Winner, Unknown

LEMMA SelectionFields ==
    ASSUME NEW s \in Selection
    PROVE  /\ s.sel \in {"pending", "winner", "terminal_unknown"}
           /\ s.sel # "pending" => s.reply \in Reply
           /\ s.sel = "pending" => s = Pending
  BY DEF Selection, Pending

LEMMA ImportedSelection ==
    ASSUME NEW old \in Selection, NEW new \in Selection
    PROVE  /\ Import(old, new) \in Selection
           /\ \/ Import(old, new) = old
              \/ /\ new.sel # "pending" /\ Import(old, new).sel = new.sel
                 /\ Import(old, new).reply = new.reply
           /\ old.sel = "winner" => Import(old, new).sel = "winner"
  BY DEF Selection, Import

(* What an import knows stays true while others move. *)
LEMMA NamesStay ==
    ASSUME PlaceTypes, PlaceTypes', Advances
    PROVE  /\ \A r \in Reply : Named(r) => Named(r)'
           /\ \A records \in SUBSET Record : AllNamed(records) => AllNamed(records)'
           /\ \A s \in Selection : SelNamed(s) => SelNamed(s)'
  <1>1. \A r \in Reply : Named(r) => Named(r)'
    <2> SUFFICES ASSUME NEW r \in Reply, Named(r) PROVE Named(r)'
      OBVIOUS
    <2>1. custody.sel \in {"winner", "terminal_unknown"}
      BY SelectionFields DEF Named, PlaceTypes
    <2> QED
      BY <2>1 DEF Named, Advances
  <1>2. ASSUME NEW records \in SUBSET Record, AllNamed(records) PROVE AllNamed(records)'
    BY <1>1, <1>2 DEF AllNamed, Record
  <1>3. ASSUME NEW s \in Selection, SelNamed(s) PROVE SelNamed(s)'
    BY <1>1, <1>3, SelectionFields DEF SelNamed
  <1> QED
    BY <1>1, <1>2, <1>3

LEMMA GenuineStays ==
    ASSUME PlaceTypes, PlaceTypes', Advances, NEW id \in Id, NEW exported \in Receipt, Genuine(id, exported)
    PROVE  Genuine(id, exported)'
  BY NamesStay DEF Genuine, Advances, Receipt

LEMMA GroundedStays ==
    ASSUME PlaceTypes, PlaceTypes', Advances, NEW q \in Imported, Grounded(q)
    PROVE  Grounded(q)'
  <1>1. q.step # "idle" => Genuine(q.id, q.file)'
    BY GenuineStays DEF Grounded, Imported
  <1>2. AllNamed(q.claims)' /\ SelNamed(q.answer)'
    BY NamesStay DEF Grounded, Imported
  <1>3. q.at \in Machine /\ q.id \in Id
    BY DEF Imported
  <1>4. q.answer.sel = "winner" => (custody.sel = "winner" /\ custody.reply = q.answer.reply)'
    BY DEF Grounded, Advances
  <1>5. q.step = "reference" => OpHere(q.at)'
    BY <1>3 DEF Grounded, Advances, OpHere
  <1>6. ASSUME Cause(q), q.step # "idle" PROVE Cause(q)'
    <2>1. doc[q.id] # Absent
      BY <1>6 DEF Grounded, Genuine
    <2> QED
      BY <1>3, <1>6, <2>1 DEF Cause, Advances, Malformed
  <1> QED
    BY <1>1, <1>2, <1>4, <1>5, <1>6 DEF Grounded

(* What the custodian and the commands of one machine do to the places; the imports stand still. *)
LEMMA SelectionMoves ==
    ASSUME PlaceTypes, PlacesInv,
           CustodyObserves \/ \E r \in Reply : CustodyExpires(r) \/ CustodyCommits(r)
    PROVE  PlaceTypes' /\ PlacesInv' /\ Advances /\ SelectsNone
  <1>1. PICK r \in Reply :
          \/ custody = Pending /\ custody' = Unknown(r)
          \/ custody.sel # "winner" /\ custody' = Winner(r, FALSE)
          \/ custody.sel # "pending" /\ r = custody.reply /\ custody' = Winner(r, TRUE)
    BY SelectionFields DEF CustodyObserves, CustodyExpires, CustodyCommits, PlaceTypes
  <1>2. UNCHANGED <<custodian, projected, doc>>
    BY DEF CustodyObserves, CustodyExpires, CustodyCommits
  <1>3. PlaceTypes'
    <2>1. Unknown(r) \in Selection /\ Winner(r, TRUE) \in Selection /\ Winner(r, FALSE) \in Selection
      BY Selections
    <2>2. custody' \in Selection
      BY <1>1, <2>1
    <2> QED
      BY <1>2, <2>2 DEF PlaceTypes
  <1>4. Advances /\ SelectsNone
    <2>1. custody.sel = "winner" => custody'.sel = "winner" /\ custody'.reply = custody.reply
      BY <1>1 DEF Pending, Winner, Unknown
    <2>2. custody.sel = "terminal_unknown" => custody' = custody \/ custody'.sel = "winner"
      BY <1>1 DEF Pending, Winner, Unknown
    <2> QED
      BY <1>2, <2>1, <2>2, RowsAlone DEF Advances
  <1>5. PlacesInv'
    <2>1. ASSUME NEW m \in Machine PROVE SelNamed(projected[m].sel)'
      BY <1>2, <1>3, <1>4, NamesStay DEF PlacesInv, PlaceTypes
    <2>2. ASSUME NEW id \in Id, doc[id] # Absent PROVE OpHere(Home(id))' /\ AllNamed(doc[id].records)'
      <3>1. doc[id].records \in SUBSET Record
        BY <2>2 DEF PlaceTypes, Receipt
      <3> QED
        BY <1>2, <1>3, <1>4, <2>2, <3>1, NamesStay DEF PlacesInv, OpHere
    <2> QED
      BY <1>2, <2>1, <2>2 DEF PlacesInv
  <1> QED
    BY <1>3, <1>4, <1>5

(* A projection that takes a selection of custody. *)
LEMMA PersistKeeps ==
    ASSUME PlaceTypes, PlacesInv, NEW m \in Machine, NEW s \in Selection,
           SelNamed(s), s.sel = "winner" => custody.sel = "winner" /\ s.reply = custody.reply,
           ~Conflicts(projected[m].sel, s), Persist(m, s), UNCHANGED <<custodian, custody, doc>>
    PROVE  PlaceTypes' /\ PlacesInv' /\ Advances /\ SelectsNone /\ projected'[m].op
  <1> DEFINE new == Import(projected[m].sel, s)
  <1>1. /\ projected' = [projected EXCEPT ![m] = [op |-> TRUE, sel |-> new]]
        /\ new \in Selection
        /\ new = projected[m].sel \/ (s.sel # "pending" /\ new.sel = s.sel /\ new.reply = s.reply)
        /\ projected[m].sel.sel = "winner" => new.sel = "winner"
    BY ImportedSelection DEF Persist, PlaceTypes
  <1> HIDE DEF new
  <1>2. /\ projected'[m] = [op |-> TRUE, sel |-> new]
        /\ \A n \in Machine \ {m} : projected'[n] = projected[n]
        /\ projected' \in [Machine -> [op : BOOLEAN, sel : Selection]]
    BY <1>1 DEF PlaceTypes
  <1>3. projected'[m].op /\ projected'[m].sel = new
    BY <1>2
  <1>4. PlaceTypes'
    BY <1>2 DEF PlaceTypes
  <1>5. Advances
    BY <1>1, <1>2, <1>3 DEF Advances, Conflicts
  <1>6. SelectsNone
    <2>1. new.sel = "winner" => SameWinner(projected[m].sel, new) \/ SameWinner(new, custody)
      BY <1>1 DEF SameWinner
    <2>2. \A n \in Machine \ {m} : ~TakesAWinner(n)
      BY <1>2 DEF TakesAWinner, SameWinner
    <2> QED
      BY <1>3, <2>1, <2>2 DEF SelectsNone, TakesAWinner
  <1>7. PlacesInv'
    BY <1>1, <1>2, <1>3 DEF PlacesInv, SelNamed, OpHere, AllNamed, Named
  <1> QED
    BY <1>3, <1>4, <1>5, <1>6, <1>7

LEMMA WaitMoves ==
    ASSUME PlaceTypes, PlacesInv, NEW m \in Machine, Wait(m)
    PROVE  PlaceTypes' /\ PlacesInv' /\ Advances /\ SelectsNone
  <1>1. UNCHANGED <<custodian, custody>>
    BY DEF Wait
  (* The projection. *)
  <1>2. /\ projected' \in [Machine -> [op : BOOLEAN, sel : Selection]]
        /\ \A n \in Machine : /\ SelNamed(projected[n].sel)'
                              /\ projected[n].op => projected'[n].op
                              /\ projected[n].sel.sel = "winner" =>
                                    projected'[n].sel.sel = "winner" /\ projected'[n].sel.reply = projected[n].sel.reply
        /\ SelectsNone /\ (projected'[m].op \/ custodian = m)
    <2>1. CASE custodian = m /\ UNCHANGED projected
      BY <1>1, <2>1, RowsAlone DEF PlaceTypes, PlacesInv, SelNamed, Named
    <2>2. CASE custodian # m /\ ~Conflicts(projected[m].sel, custody) /\ Persist(m, custody)
      <3> DEFINE new == Import(projected[m].sel, custody)
      <3>1. /\ projected' = [projected EXCEPT ![m] = [op |-> TRUE, sel |-> new]]
            /\ new \in Selection
            /\ new = projected[m].sel \/ (custody.sel # "pending" /\ new.sel = custody.sel /\ new.reply = custody.reply)
            /\ projected[m].sel.sel = "winner" => new.sel = "winner"
        BY <2>2, ImportedSelection DEF Persist, PlaceTypes
      <3> HIDE DEF new
      <3>2. /\ projected'[m] = [op |-> TRUE, sel |-> new]
            /\ \A n \in Machine \ {m} : projected'[n] = projected[n]
            /\ projected' \in [Machine -> [op : BOOLEAN, sel : Selection]]
        BY <3>1 DEF PlaceTypes
      <3>3. projected'[m].op /\ projected'[m].sel = new
        BY <3>2
      <3>4. new.sel = "winner" => SameWinner(projected[m].sel, new) \/ SameWinner(new, custody)
        BY <3>1 DEF SameWinner
      <3>5. \A n \in Machine \ {m} : ~TakesAWinner(n)
        BY <3>2 DEF TakesAWinner, SameWinner
      <3>6. SelectsNone
        BY <3>3, <3>4, <3>5 DEF SelectsNone, TakesAWinner
      <3> QED
        BY <1>1, <2>2, <3>1, <3>2, <3>3, <3>6 DEF PlacesInv, SelNamed, Named, Conflicts
    <2> QED
      BY <2>1, <2>2 DEF Wait
  (* The receipt of the wait. *)
  <1>3. /\ doc' \in [Id -> Receipt \cup {Absent}]
        /\ \A id \in Id : doc'[id] = doc[id] \/ (id = m /\ doc[id] = Absent /\ AllNamed(doc'[id].records))
    <2>1. CASE UNCHANGED doc
      BY <2>1 DEF PlaceTypes
    <2>2. CASE /\ custody.sel # "pending" /\ doc[m] = Absent
               /\ doc' = [doc EXCEPT ![m] = WaitDocument(custody)]
      <3> DEFINE b == custody.reply \in ErrorReply
                 d == WaitDocument(custody)
      <3>1. custody.reply \in Reply
        BY <2>2, SelectionFields DEF PlaceTypes
      <3>2. d.records = {[reply |-> custody.reply, code |-> b]} /\ d.ref \in {"none", "item"}
            /\ d = [records |-> d.records, ref |-> d.ref]
        BY <2>2 DEF WaitDocument
      <3>3. [reply |-> custody.reply, code |-> b] \in Record
        BY <3>1 DEF Record
      <3> HIDE DEF d, b
      <3>4. d \in Receipt
        BY <3>2, <3>3 DEF Receipt
      <3>5. AllNamed(d.records)
        BY <2>2, <3>2 DEF AllNamed, Named
      <3>6. m \in Id /\ doc' = [doc EXCEPT ![m] = d]
        BY <2>2 DEF Id, d
      <3> QED
        BY <2>2, <3>4, <3>5, <3>6 DEF PlaceTypes
    <2> QED
      BY <2>1, <2>2 DEF Wait
  <1>4. PlaceTypes'
    BY <1>1, <1>2, <1>3 DEF PlaceTypes
  <1>5. Advances
    BY <1>1, <1>2, <1>3 DEF Advances
  <1>6. PlacesInv'
    <2>1. ASSUME NEW id \in Id, doc'[id] # Absent PROVE OpHere(Home(id))' /\ AllNamed(doc[id].records)'
      <3>1. Home(id) \in Machine /\ (id = m => Home(id) = m)
        BY DEF Home, Id, Machine
      <3>2. CASE doc'[id] = doc[id]
        BY <1>1, <1>2, <2>1, <3>1, <3>2 DEF PlacesInv, OpHere, AllNamed, Named
      <3>3. CASE id = m /\ AllNamed(doc'[id].records)
        BY <1>1, <1>2, <3>1, <3>3 DEF OpHere, AllNamed, Named
      <3> QED
        BY <1>3, <3>2, <3>3
    <2> QED
      BY <1>2, <2>1 DEF PlacesInv
  <1> QED
    BY <1>2, <1>4, <1>5, <1>6

LEMMA ReconcileMoves ==
    ASSUME PlaceTypes, PlacesInv, NEW m \in Machine, Reconcile(m)
    PROVE  PlaceTypes' /\ PlacesInv' /\ Advances /\ SelectsNone
  <1>1. m \in Id /\ doc[m] \in Receipt /\ doc[m].ref = "none" /\ doc[m] # Absent
    BY DEF Reconcile, PlaceTypes, Id
  <1>2. PICK r \in Reply : r = Local(m).reply /\ Named(r) /\ Local(m).sel # "pending"
    BY SelectionFields DEF Reconcile, Local, PlaceTypes, PlacesInv, SelNamed, Named
  <1> DEFINE d == [doc[m] EXCEPT !.records = @ \cup {[reply |-> r, code |-> FALSE]}, !.ref = "turn"]
  <1>3. d \in Receipt /\ d.records = doc[m].records \cup {[reply |-> r, code |-> FALSE]}
    <2> DEFINE c == [reply |-> r, code |-> FALSE]
    <2>1. c \in Record
      BY DEF Record
    <2> HIDE DEF c
    <2>2. [doc[m] EXCEPT !.records = @ \cup {c}, !.ref = "turn"] \in Receipt
          /\ [doc[m] EXCEPT !.records = @ \cup {c}, !.ref = "turn"].records = doc[m].records \cup {c}
      BY <1>1, <2>1 DEF Receipt
    <2> QED
      BY <2>2 DEF c
  <1>4. doc' = [doc EXCEPT ![m] = d]
    <2> DEFINE added == [doc[m] EXCEPT !.records = @ \cup {[reply |-> r, code |-> FALSE]}]
    <2>1. doc' = [doc EXCEPT ![m] = added, ![m].ref = "turn"]
      BY <1>2 DEF Reconcile
    <2> QED
      BY <1>1, <2>1 DEF PlaceTypes
  <1>5. custodian' = custodian
    BY DEF Reconcile
  <1> HIDE DEF d
  <1>6. /\ doc' \in [Id -> Receipt \cup {Absent}] /\ doc'[m] = d
        /\ \A id \in Id \ {m} : doc'[id] = doc[id]
    BY <1>1, <1>3, <1>4 DEF PlaceTypes
  <1>7. /\ custody' \in Selection /\ projected' \in [Machine -> [op : BOOLEAN, sel : Selection]]
        /\ custody.sel = "winner" => custody'.sel = "winner" /\ custody'.reply = custody.reply
        /\ custody.sel = "terminal_unknown" => custody' = custody \/ custody'.sel = "winner"
        /\ \A n \in Machine :
              /\ projected[n].op => projected'[n].op
              /\ projected'[n].sel = projected[n].sel \/ (projected[n].sel.sel # "pending" /\ projected'[n].sel.reply = projected[n].sel.reply
                                                 /\ projected'[n].sel.sel = "winner")
    <2>1. Winner(r, TRUE) \in Selection /\ Winner(r, TRUE).sel = "winner" /\ Winner(r, TRUE).reply = r
      BY <1>2, Selections
    <2>2. CASE custodian = m /\ custody' = Winner(r, TRUE) /\ UNCHANGED projected
      BY <1>2, <2>1, <2>2 DEF Local, PlaceTypes
    <2>3. CASE custodian # m /\ UNCHANGED custody /\ projected' = [projected EXCEPT ![m].sel = Winner(r, TRUE)]
      BY <1>2, <2>1, <2>3 DEF Local, PlaceTypes
    <2> QED
      BY <1>2, <2>2, <2>3 DEF Reconcile
  <1>8. PlaceTypes'
    BY <1>5, <1>6, <1>7 DEF PlaceTypes
  <1>9. Advances
    BY <1>1, <1>3, <1>5, <1>6, <1>7 DEF Advances
  <1>10. SelectsNone
    <2>1. \A n \in Machine \ {m} : projected'[n] = projected[n]
      BY DEF Reconcile, PlaceTypes
    <2>2. \A n \in Machine \ {m} : ~TakesAWinner(n)
      BY <2>1 DEF TakesAWinner, SameWinner
    <2>3. TakesAWinner(m) => projected'[m].sel.reply = projected[m].sel.reply
      BY <1>7 DEF TakesAWinner, SameWinner
    <2> QED
      BY <2>2, <2>3 DEF SelectsNone
  <1>11. PlacesInv'
    <2>1. ASSUME NEW n \in Machine PROVE SelNamed(projected[n].sel)'
      <3>1. CASE projected[n].sel.sel # "pending"
        <4>1. PICK x \in Reply : x = projected[n].sel.reply /\ Named(x)
          BY <3>1, SelectionFields DEF PlacesInv, PlaceTypes, SelNamed
        <4>2. Named(x)'
          BY <1>8, <1>9, <4>1, NamesStay
        <4> QED
          BY <1>7, <3>1, <4>1, <4>2 DEF SelNamed, Named
      <3>2. CASE projected[n].sel.sel = "pending"
        BY <1>7, <3>2 DEF SelNamed
      <3> QED
        BY <3>1, <3>2
    <2>2. ASSUME NEW id \in Id, doc'[id] # Absent PROVE OpHere(Home(id))' /\ AllNamed(doc[id].records)'
      <3>1. doc[id] # Absent /\ Home(id) \in Machine
        BY <1>1, <1>6, <2>2 DEF Home, Id, Machine
      <3>2. OpHere(Home(id))'
        BY <1>5, <1>7, <3>1 DEF PlacesInv, OpHere
      <3>3. \A c \in doc[id].records : Named(c.reply)' /\ c.reply \in Reply
        <4>1. doc[id].records \in SUBSET Record
          BY <3>1 DEF PlaceTypes, Receipt
        <4> QED
          BY <1>8, <1>9, <3>1, <4>1, NamesStay DEF PlacesInv, AllNamed, Record
      <3>4. Named(r)'
        BY <1>2, <1>8, <1>9, NamesStay
      <3>5. doc'[id].records \subseteq doc[id].records \cup {[reply |-> r, code |-> FALSE]}
        BY <1>3, <1>6
      <3>6. \A c \in doc'[id].records : Named(c.reply)'
        BY <3>3, <3>4, <3>5 DEF Named
      <3> QED
        BY <3>2, <3>6 DEF AllNamed
    <2> QED
      BY <2>1, <2>2 DEF PlacesInv
  <1> QED
    BY <1>8, <1>9, <1>10, <1>11

(* Import actions: the places stand still but for the projection of PersistOriginalStatus. *)
LEMMA GroundedThere ==
    ASSUME NEW o \in Importer, NEW x, import'[o] = x, Grounded(x)'
    PROVE  Grounded(import[o])'
  <1>1. (import[o].step # "idle" => Genuine(import[o].id, import[o].file))'
    BY DEF Grounded, Genuine
  <1>2. (import[o].step \in {"conflict", "malformed"} => Cause(import[o]))'
    BY DEF Grounded, Cause
  <1> QED
    BY <1>1, <1>2 DEF Grounded

LEMMA ImportMoves ==
    ASSUME PortableInv, NEW p \in Importer, NEW q \in Imported, Move(p, q), Grounded(q)',
           UNCHANGED export, PlaceTypes', PlacesInv', Advances
    PROVE  PortableInv'
  <1>1. import' \in [Importer -> Imported] /\ import'[p] = q /\ \A o \in Importer \ {p} : import'[o] = import[o]
    BY DEF PortableInv, ImportTypes, Move
  <1>2. ImportTypes'
    BY <1>1 DEF PortableInv, ImportTypes
  <1>3. ExportInv'
    BY GenuineStays DEF PortableInv, ImportTypes, ExportInv
  <1>4. ASSUME NEW o \in Importer PROVE Grounded(import[o])'
    <2>1. CASE o = p
      BY <1>1, <2>1, GroundedThere
    <2>2. CASE o # p
      <3>1. PICK x \in Imported : x = import[o] /\ Grounded(x)
        BY DEF PortableInv, ImportTypes
      <3>2. Grounded(x)'
        BY <3>1, GroundedStays DEF PortableInv
      <3> QED
        BY <1>1, <2>2, <3>1, <3>2, GroundedThere
    <2> QED
      BY <2>1, <2>2
  <1> QED
    BY <1>2, <1>3, <1>4 DEF PortableInv

LEMMA QuietImport ==
    ASSUME PortableInv, NEW p \in Importer, NEW q \in Imported, Move(p, q), Grounded(q),
           UNCHANGED <<custodian, custody, projected, doc, export>>
    PROVE  PortableInv' /\ SelectsNone
  <1>1. PlaceTypes' /\ PlacesInv' /\ Advances
    BY DEF PortableInv, PlaceTypes, PlacesInv, SelNamed, AllNamed, Named, OpHere, Advances
  <1>2. SelectsNone
    BY RowsAlone
  <1>3. Grounded(q)'
    BY <1>1, GroundedStays DEF PortableInv
  <1> QED
    BY <1>1, <1>2, <1>3, ImportMoves

LEMMA BlankImport ==
    /\ Unstarted.step = "idle" /\ Unstarted.claims = {} /\ Unstarted.answer = Pending /\ ~Unstarted.stored
    /\ Unstarted \in Imported
  <1>1. Pending \in Selection
    BY DEF Pending, Selection
  <1>2. NoRecords \in Receipt
    BY DEF NoRecords, Receipt
  <1> QED
    BY <1>1, <1>2 DEF Unstarted, Imported, Machine, Id

LEMMA StartImportKeeps ==
    ASSUME PortableInv, NEW p \in Importer, NEW m \in Machine, StartImport(p, m)
    PROVE  PortableInv' /\ SelectsNone
  <1> DEFINE q == [Unstarted EXCEPT !.step = "lookup", !.at = m, !.id = export.id, !.file = export.doc]
  <1>1. export.id \in Id /\ export.doc \in Receipt /\ Genuine(export.id, export.doc)
    BY DEF StartImport, PortableInv, ImportTypes, ExportInv
  <1>2. /\ Unstarted.claims = {} /\ Unstarted.answer = Pending /\ ~Unstarted.stored
        /\ Unstarted \in Imported
    BY BlankImport
  <1>3. Pending.sel = "pending"
    BY DEF Pending
  <1>4. /\ q \in Imported /\ q.step = "lookup" /\ q.at = m /\ q.id = export.id /\ q.file = export.doc
        /\ q.claims = {} /\ q.answer = Pending /\ ~q.stored
    BY <1>1, <1>2 DEF Imported
  <1> HIDE DEF q
  <1>5. Grounded(q)
    BY <1>1, <1>3, <1>4 DEF Grounded, AllNamed, SelNamed
  <1>6. Move(p, q) /\ UNCHANGED <<custodian, custody, projected, doc, export>>
    BY DEF StartImport, q
  <1> QED
    BY <1>4, <1>5, <1>6, QuietImport

LEMMA EndIs ==
    ASSUME NEW q \in Imported, NEW result \in ImportResults
    PROVE  LET r == [q EXCEPT !.step = result]
           IN  /\ r \in Imported /\ r.step = result /\ r.at = q.at /\ r.id = q.id /\ r.file = q.file
               /\ r.claims = q.claims /\ (r.stored <=> q.stored) /\ r.answer = q.answer
  BY DEF Imported

(* An import that ends, with what its end says. *)
LEMMA EndKeeps ==
    ASSUME PortableInv, NEW p \in Importer, NEW result \in ImportResults, End(p, result), import[p].step # "idle",
           result = "reference" => OpHere(import[p].at),
           result \in {"conflict", "malformed"} => Cause(import[p]),
           UNCHANGED <<custodian, custody, projected, doc, export>>
    PROVE  PortableInv' /\ SelectsNone
  <1> DEFINE r == [import[p] EXCEPT !.step = result]
  <1>1. import[p] \in Imported /\ Grounded(import[p])
    BY DEF PortableInv, ImportTypes
  <1>2. /\ r \in Imported /\ r.step = result /\ r.at = import[p].at /\ r.id = import[p].id /\ r.file = import[p].file
        /\ r.claims = import[p].claims /\ (r.stored <=> import[p].stored) /\ r.answer = import[p].answer
    BY <1>1, EndIs
  <1>3. Move(p, r)
    BY DEF End
  <1> HIDE DEF r
  <1>4. Grounded(r)
    BY <1>1, <1>2 DEF Grounded, Cause
  <1> QED
    BY <1>2, <1>3, <1>4, QuietImport

LEMMA NoRouteKeeps ==
    ASSUME PortableInv, NEW p \in Importer, NoRoute(p)
    PROVE  PortableInv' /\ SelectsNone
  BY EndKeeps DEF NoRoute, ImportResults

LEMMA LookupStoredKeeps ==
    ASSUME PortableInv, NEW p \in Importer, LookupStored(p)
    PROVE  PortableInv' /\ SelectsNone
  <1> DEFINE q == import[p]
             stored == doc[q.id]
             named == q.file.records \cup stored.records
             next == IF custodian = q.at THEN "reference" ELSE "status"
             r == [q EXCEPT !.step = next, !.claims = named, !.stored = TRUE]
  <1>1. /\ q \in Imported /\ Grounded(q) /\ q.step = "lookup" /\ Home(q.id) = q.at
        /\ UNCHANGED <<custodian, custody, projected, doc, export>>
    BY DEF LookupStored, PortableInv, ImportTypes
  <1>2. Genuine(q.id, q.file) /\ stored \in Receipt /\ q.id \in Id /\ q.file \in Receipt
    BY <1>1 DEF Grounded, Genuine, PortableInv, PlaceTypes, Imported
  <1>3. RefsAgree(q.file.ref, stored.ref)
    BY <1>2 DEF Genuine, RefsAgree
  <1>4. CASE (Malformed(q.file.records) \/ Malformed(stored.records)) /\ End(p, "malformed")
    BY <1>1, <1>4, EndKeeps DEF ImportResults, Cause
  <1>5. CASE Move(p, r)
    <2>1. named \in SUBSET Record /\ AllNamed(named)
      BY <1>2 DEF Receipt, Genuine, PortableInv, PlacesInv, AllNamed
    <2> HIDE DEF named
    <2>2. /\ r \in Imported /\ r.step = next /\ r.at = q.at /\ r.id = q.id /\ r.file = q.file
          /\ r.claims = named /\ r.stored /\ r.answer = q.answer
      BY <1>1, <2>1 DEF Imported, ImportResults
    <2>3. Grounded(r)
      BY <1>1, <1>2, <2>1, <2>2 DEF Grounded, OpHere
    <2> QED
      BY <1>1, <1>5, <2>2, <2>3, QuietImport
  <1> QED
    BY <1>3, <1>4, <1>5 DEF LookupStored

LEMMA LookupImportedKeeps ==
    ASSUME PortableInv, NEW p \in Importer, LookupImported(p)
    PROVE  PortableInv' /\ SelectsNone
  <1> DEFINE q == import[p]
             r == [q EXCEPT !.step = "status", !.claims = q.file.records]
  <1>1. /\ q \in Imported /\ Grounded(q) /\ q.step = "lookup"
        /\ UNCHANGED <<custodian, custody, projected, doc, export>>
    BY DEF LookupImported, PortableInv, ImportTypes
  <1>2. Genuine(q.id, q.file) /\ q.file.records \in SUBSET Record
    BY <1>1 DEF Grounded, Imported, Receipt
  <1>3. CASE Malformed(q.file.records) /\ End(p, "malformed")
    BY <1>1, <1>3, EndKeeps DEF ImportResults, Cause
  <1>4. CASE End(p, "unavailable")
    BY <1>1, <1>4, EndKeeps DEF ImportResults
  <1>5. CASE Move(p, r)
    <2>1. /\ r \in Imported /\ r.step = "status" /\ r.at = q.at /\ r.id = q.id /\ r.file = q.file
          /\ r.claims = q.file.records /\ (r.stored <=> q.stored) /\ r.answer = q.answer
      BY <1>1, <1>2 DEF Imported
    <2>2. Grounded(r)
      BY <1>1, <1>2, <2>1 DEF Grounded, Genuine
    <2> QED
      BY <1>1, <1>5, <2>1, <2>2, QuietImport
  <1> QED
    BY <1>3, <1>4, <1>5 DEF LookupImported

LEMMA AskStatusKeeps ==
    ASSUME PortableInv, NEW p \in Importer, AskStatus(p)
    PROVE  PortableInv' /\ SelectsNone
  <1> DEFINE q == import[p]
             agrees == \A c \in q.claims : Agrees(c, custody)
             r == [q EXCEPT !.step = "persist", !.answer = custody]
  <1>1. /\ q \in Imported /\ Grounded(q) /\ q.step = "status" /\ custody \in Selection
        /\ UNCHANGED <<custodian, custody, projected, doc, export>>
    BY DEF AskStatus, PortableInv, PlaceTypes, ImportTypes
  <1>2. CASE End(p, "unavailable")
    BY <1>1, <1>2, EndKeeps DEF ImportResults
  <1>3. CASE custody # Pending /\ ~agrees /\ End(p, "conflict")
    <2>1. PICK c \in q.claims : c.reply # custody.reply
      BY <1>3 DEF Agrees
    <2>2. Named(c.reply)
      BY <1>1 DEF Grounded, AllNamed
    <2>3. custody.sel = "winner"
      BY <1>1, <1>3, <2>1, <2>2, SelectionFields DEF Named
    <2>4. Cause(q)
      BY <2>1, <2>3 DEF Cause
    <2> QED
      BY <1>1, <1>3, <2>4, EndKeeps DEF ImportResults
  <1>4. CASE q.stored /\ End(p, "reference")
    <2>1. OpHere(q.at)
      BY <1>1, <1>4 DEF Grounded, Genuine, PortableInv, PlacesInv, Imported
    <2> QED
      BY <1>1, <1>4, <2>1, EndKeeps DEF ImportResults
  <1>5. CASE Move(p, r)
    <2>1. /\ r \in Imported /\ r.step = "persist" /\ r.at = q.at /\ r.id = q.id /\ r.file = q.file
          /\ r.claims = q.claims /\ (r.stored <=> q.stored) /\ r.answer = custody
      BY <1>1 DEF Imported
    <2>2. SelNamed(custody)
      BY DEF SelNamed, Named
    <2>3. Grounded(r)
      BY <1>1, <2>1, <2>2 DEF Grounded
    <2> QED
      BY <1>1, <1>5, <2>1, <2>3, QuietImport
  <1> QED
    BY <1>2, <1>3, <1>4, <1>5 DEF AskStatus

LEMMA PersistOriginalStatusKeeps ==
    ASSUME PortableInv, NEW p \in Importer, PersistOriginalStatus(p)
    PROVE  PortableInv' /\ SelectsNone
  <1> DEFINE q == import[p]
             r == [q EXCEPT !.step = "reference"]
  <1>1. /\ q \in Imported /\ Grounded(q) /\ q.step = "persist" /\ q.at \in Machine /\ q.answer \in Selection
        /\ UNCHANGED <<custodian, custody, doc, export>>
    BY DEF PersistOriginalStatus, PortableInv, ImportTypes, Imported
  <1>2. CASE Conflicts(projected[q.at].sel, q.answer) /\ End(p, "conflict") /\ UNCHANGED projected
    BY <1>1, <1>2, EndKeeps DEF ImportResults, Cause, Conflicts
  <1>3. CASE ~Conflicts(projected[q.at].sel, q.answer) /\ Persist(q.at, q.answer) /\ End(p, "reference")
    <2>1. PlaceTypes' /\ PlacesInv' /\ Advances /\ SelectsNone /\ projected'[q.at].op
      BY <1>1, <1>3, PersistKeeps DEF PortableInv, Grounded
    <2>2. PICK x \in Imported : x = r
      BY <1>1, EndIs DEF ImportResults
    <2>3. /\ x.step = "reference" /\ x.at = q.at /\ x.id = q.id /\ x.file = q.file
          /\ x.claims = q.claims /\ (x.stored <=> q.stored) /\ x.answer = q.answer
      BY <1>1, <2>2, EndIs DEF ImportResults
    <2>4. PICK y \in Imported : y = q /\ Grounded(y)
      BY <1>1
    <2>5. Grounded(y)'
      BY <2>1, <2>4, GroundedStays DEF PortableInv
    <2>6. Grounded(x)'
      BY <1>1, <2>1, <2>3, <2>4, <2>5 DEF Grounded, OpHere
    <2>7. Move(p, x)
      BY <1>3, <2>2 DEF End
    <2> QED
      BY <1>1, <2>1, <2>6, <2>7, ImportMoves
  <1> QED
    BY <1>2, <1>3 DEF PersistOriginalStatus

LEMMA ExportKeeps ==
    ASSUME PortableInv, NEW id \in Id, Export(id)
    PROVE  PortableInv' /\ SelectsNone
  <1>1. export' = [id |-> id, doc |-> doc[id]] /\ UNCHANGED <<custodian, custody, projected, doc, import>> /\ doc[id] # Absent
    BY DEF Export
  <1>2. doc[id] \in Receipt
    BY <1>1 DEF PortableInv, PlaceTypes
  <1>3. ImportTypes' /\ export'.id = id /\ export'.doc = doc[id]
    BY <1>1, <1>2 DEF PortableInv, ImportTypes
  <1>4. ExportInv'
    BY <1>1, <1>3 DEF PortableInv, PlacesInv, ExportInv, Genuine, AllNamed, Named
  <1>5. PlaceTypes' /\ PlacesInv' /\ Advances /\ SelectsNone
    BY <1>1, RowsAlone DEF PortableInv, PlaceTypes, PlacesInv, SelNamed, AllNamed, Named, OpHere, Advances
  <1>6. ASSUME NEW p \in Importer PROVE Grounded(import[p])'
    BY <1>1 DEF PortableInv, Grounded, Genuine, Cause, AllNamed, SelNamed, Named, OpHere
  <1> QED
    BY <1>3, <1>4, <1>5, <1>6 DEF PortableInv

LEMMA PlacesMove ==
    ASSUME PortableInv, PlaceTypes', PlacesInv', Advances, UNCHANGED <<export, import>>
    PROVE  PortableInv'
  <1>1. ImportTypes' /\ ExportInv'
    BY GenuineStays DEF PortableInv, ImportTypes, ExportInv
  <1>2. ASSUME NEW p \in Importer PROVE Grounded(import[p])'
    <2>1. PICK x \in Imported : x = import[p] /\ Grounded(x)
      BY DEF PortableInv, ImportTypes
    <2>2. Grounded(x)' /\ import'[p] = x
      BY <2>1, GroundedStays DEF PortableInv
    <2> QED
      BY <2>2, GroundedThere
  <1> QED
    BY <1>1, <1>2 DEF PortableInv

LEMMA NextKeepsImports ==
    ASSUME PortableInv, [PortableNext]_portableVars
    PROVE  PortableInv' /\ (SelectsNone \/ UNCHANGED portableVars)
  <1>1. CASE CustodyObserves \/ \E r \in Reply : CustodyExpires(r) \/ CustodyCommits(r)
    <2>1. UNCHANGED <<export, import>>
      BY <1>1 DEF CustodyObserves, CustodyExpires, CustodyCommits
    <2> QED
      BY <1>1, <2>1, SelectionMoves, PlacesMove DEF PortableInv
  <1>2. ASSUME NEW m \in Machine, Wait(m) \/ Reconcile(m) PROVE PortableInv' /\ SelectsNone
    <2>1. UNCHANGED <<export, import>>
      BY <1>2 DEF Wait, Reconcile
    <2> QED
      BY <1>2, <2>1, WaitMoves, ReconcileMoves, PlacesMove DEF PortableInv
  <1>3. ASSUME NEW p \in Importer, ResolveWaitReference(p) PROVE PortableInv' /\ SelectsNone
    BY <1>3, StartImportKeeps, NoRouteKeeps, LookupStoredKeeps, LookupImportedKeeps, AskStatusKeeps,
       PersistOriginalStatusKeeps DEF ResolveWaitReference
  <1>4. CASE UNCHANGED portableVars
    <2>1. UNCHANGED <<custodian, custody, projected, doc, export, import>>
      BY <1>4 DEF portableVars
    <2>2. PlaceTypes' /\ PlacesInv' /\ Advances
      BY <2>1 DEF PortableInv, PlaceTypes, PlacesInv, SelNamed, AllNamed, Named, OpHere, Advances
    <2> QED
      BY <1>4, <2>1, <2>2, PlacesMove
  <1> QED
    BY <1>1, <1>2, <1>3, <1>4, ExportKeeps DEF PortableNext

LEMMA InitImports == PortableInit => PortableInv
  <1> SUFFICES ASSUME PortableInit PROVE PortableInv
    OBVIOUS
  <1>1. Pending \in Selection /\ Pending.sel = "pending"
    BY DEF Pending, Selection
  <1>2. NoRecords \in Receipt /\ NoRecords.records = {}
    BY DEF NoRecords, Receipt
  <1>3. /\ Unstarted.step = "idle" /\ Unstarted.claims = {} /\ Unstarted.answer = Pending /\ ~Unstarted.stored
        /\ Unstarted \in Imported
    BY BlankImport
  <1>4. PlaceTypes /\ ImportTypes
    BY <1>1, <1>2, <1>3 DEF PortableInit, PlaceTypes, ImportTypes
  <1>5. PlacesInv
    BY <1>1, <1>2 DEF PortableInit, PlacesInv, SelNamed, AllNamed, OpHere, Home, Id, Machine
  <1>6. ExportInv
    BY DEF PortableInit, ExportInv
  <1>7. ASSUME NEW p \in Importer PROVE Grounded(import[p])
    BY <1>1, <1>3 DEF PortableInit, Grounded, AllNamed, SelNamed
  <1> QED
    BY <1>4, <1>5, <1>6, <1>7 DEF PortableInv

(* An import is refused only where the export, a receipt, custody or the projection disagree, a  *)
(* reference has its row, and no import and no wait makes a reply a journal's winner unless      *)
(* custody selects it; only a reconciliation in the journal itself does, of the reply its row    *)
(* names already (application.go:1011-1064).                                                     *)
THEOREM ImportsSound == PortableSpec => ImportsAreSound
  <1>1. PortableInv => RefusedForCause /\ ReferenceHasItsRow
    <2> SUFFICES ASSUME PortableInv, NEW p \in Importer
                 PROVE  /\ import[p].step \in {"conflict", "malformed"} =>
                            \/ Malformed(import[p].file.records)
                            \/ Home(import[p].id) = import[p].at
                               /\ (\/ Malformed(doc[import[p].id].records)
                                   \/ import[p].file.ref # "none" /\ doc[import[p].id].ref # import[p].file.ref)
                            \/ \E c \in import[p].claims : c.reply # custody.reply
                            \/ import[p].answer # Pending /\ import[p].answer # custody
                            \/ /\ projected[import[p].at].sel.sel = "winner"
                               /\ ~SameWinner(projected[import[p].at].sel, custody)
                        /\ import[p].step = "reference" => projected[import[p].at].op \/ custodian = import[p].at
      BY DEF RefusedForCause, ReferenceHasItsRow
    <2>1. Grounded(import[p])
      BY DEF PortableInv
    <2>2. Pending.sel = "pending"
      BY DEF Pending
    <2> QED
      BY <2>1, <2>2 DEF Grounded, Cause, SameWinner, OpHere
  <1>2. PortableInv /\ [PortableNext]_portableVars =>
          PortableInv' /\ [\A m \in Machine : TakesAWinner(m) =>
                \/ SameWinner(projected'[m].sel, custody)
                \/ Reconcile(m) /\ projected'[m].sel.reply = projected[m].sel.reply]_portableVars
    BY NextKeepsImports DEF SelectsNone
  <1> QED
    BY <1>1, <1>2, InitImports, PTL DEF PortableSpec, ImportsAreSound, ExportNeverSelects

(* Places, projections, receipts and imports have the shape PortableTypeOK names (application.go). *)
THEOREM ImportsTyped == PortableSpec => []PortableTypeOK
  <1>1. PortableInv => PortableTypeOK
    BY DEF PortableInv, PlaceTypes, ImportTypes, PortableTypeOK, Imported
  <1>2. PortableInv /\ [PortableNext]_portableVars => PortableInv'
    BY NextKeepsImports
  <1> QED
    BY <1>1, <1>2, InitImports, PTL DEF PortableSpec
=============================================================================
