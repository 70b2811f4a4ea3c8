------------------------------ MODULE Registries ------------------------------
(***************************************************************************)
(* The three small files every mektup process of a user shares: the        *)
(* endpoint configuration, the identities of built-in endpoints (one per   *)
(* Codex home) and the control receiver's registry of custody stores.      *)
(* Each is read, changed and replaced by rename under a file lock of its   *)
(* own; readers take no lock.  A process may fail or die at any step.      *)
(***************************************************************************)
EXTENDS FiniteSets

CONSTANTS
    Proc,
    Alias, EndpointID,      \* names of configured endpoints; stable endpoint IDs, each taken once
    CodexHome, Store, Dir,  \* Codex homes, custody stores, state directories
    Places,                 \* what may become of a home: subset of {"real", "linked", "vanished"}
    First                   \* the configuration at the start: at most one [alias, id]

ASSUME RegistryAssumption ==
    /\ "none" \notin Proc
    /\ First \subseteq [alias : Alias, id : EndpointID] /\ \A x, y \in First : x = y

VARIABLES
    files,      \* "config", "idents", "stores" -> set of entries
    default,    \* config.Default: an alias, an ID or "none"
    lock,       \* the same files -> the process that holds the lock, or "none"
    place,      \* where each home is
    holds,      \* Dir -> the store whose journal lies there
    used,       \* IDs generated so far
    proc,       \* Proc -> [op, entry, at, doc, ok]
    acked,      \* what processes have been told is stored, as <<file, entry>>
    found       \* what Resolve returned: <<store asked for, store opened>>
registryVars == <<files, default, lock, place, holds, used, proc, acked, found>>

File == {"config", "idents", "stores"}
FileOf == [add |-> "config", remove |-> "config", ensure |-> "idents", register |-> "stores", resolve |-> "stores"]
Idle == [op |-> "idle", entry |-> <<>>, at |-> "idle", doc |-> {}, ok |-> FALSE]
Configured == [alias : Alias, id : EndpointID]
Identity == [home : CodexHome, id : EndpointID]
Registered == [store : Store, ep : EndpointID, dir : Dir]

RegistryInit ==
    /\ files = [config |-> First, idents |-> {}, stores |-> {}]
    /\ default \in {"none"} \cup {e.alias : e \in First} \cup {e.id : e \in First}
    /\ lock = [f \in File |-> "none"] /\ place = [h \in CodexHome |-> "real"]
    /\ holds \in [Dir -> Store] /\ used = {e.id : e \in First}
    /\ proc = [p \in Proc |-> Idle] /\ acked = {<<"config", e>> : e \in First} /\ found = {}

ValidConfig(doc, def) ==
    /\ \A x, y \in doc : (x.alias = y.alias \/ x.id = y.id) => x = y
    /\ def = "none" \/ \E x \in doc : def \in {x.alias, x.id}
ValidRegistry(doc) == \A x, y \in doc : x.store = y.store => x = y
ValidIdentities(doc) == \A x, y \in doc : (x.home = y.home \/ x.id = y.id) => x = y
Valid == ValidConfig(files["config"], default) /\ ValidRegistry(files["stores"]) /\ ValidIdentities(files["idents"])

(* loadBuiltinIdentities leaves out a home that vanished behind a link, and *)
(* refuses the whole document for one that is now reached through a link.   *)
Usable(f) == IF f = "idents" THEN {x \in files[f] : place[x.home] # "vanished"} ELSE files[f]
Loads(f) ==
    /\ f = "config" => ValidConfig(files[f], default)
    /\ f = "stores" => ValidRegistry(files[f])
    /\ f = "idents" => ValidIdentities(files[f]) /\ \A x \in files[f] : place[x.home] # "linked"

To(p, at) == proc' = [proc EXCEPT ![p].at = at]
-----------------------------------------------------------------------------
(* Add, Remove, EnsureBuiltinLocal, Register and Resolve begin.  An ID is   *)
(* generated before the lock is taken or after it; it is new either way.    *)
Begin(p, op, entry) ==
    /\ proc[p].op = "idle"
    /\ proc' = [proc EXCEPT ![p] = [Idle EXCEPT !.op = op, !.entry = entry, !.at = IF op = "resolve" THEN "read" ELSE "lock"]]

Fresh == EndpointID \ used
Add(p) == \E a \in Alias, i \in Fresh : Begin(p, "add", [alias |-> a, id |-> i]) /\ used' = used \cup {i}
EnsureBuiltinLocal(p) == \E h \in CodexHome, i \in Fresh :
    place[h] = "real" /\ Begin(p, "ensure", [home |-> h, id |-> i]) /\ used' = used \cup {i}
(* The alias "local" and the IDs of built-in endpoints are not removable. *)
Remove(p) == \E e \in files["config"] :
    /\ Loads("idents") /\ e.id \notin {x.id : x \in Usable("idents")}
    /\ \E selector \in {e.alias, e.id} : Begin(p, "remove", [alias |-> e.alias, id |-> e.id, by |-> selector])
    /\ UNCHANGED used
(* RegisterLocalJournal: the endpoint exists and the journal is open where its state directory says. *)
Register(p) == \E d \in Dir :
    /\ Loads("idents") /\ \E x \in Usable("idents") \cup files["config"] :
            Begin(p, "register", [store |-> holds[d], ep |-> x.id, dir |-> d])
    /\ UNCHANGED used
Resolve(p) == \E s \in Store, i \in used : Begin(p, "resolve", [store |-> s, ep |-> i]) /\ UNCHANGED used

Starts(p) ==
    /\ (Add(p) \/ EnsureBuiltinLocal(p) \/ Remove(p) \/ Register(p) \/ Resolve(p))
    /\ UNCHANGED <<files, default, lock, place, holds, acked, found>>

(* withExclusiveLock, withRegistryLock. *)
Lock(p) ==
    /\ proc[p].at = "lock" /\ lock[FileOf[proc[p].op]] = "none"
    /\ lock' = [lock EXCEPT ![FileOf[proc[p].op]] = p] /\ To(p, "load")
    /\ UNCHANGED <<files, default, place, holds, used, acked, found>>

Load(p) ==
    /\ proc[p].at = "load"
    /\ IF Loads(FileOf[proc[p].op]) THEN proc' = [proc EXCEPT ![p].doc = Usable(FileOf[proc[p].op]), ![p].at = "save"]
       ELSE To(p, "unlock")
    /\ UNCHANGED <<files, default, lock, place, holds, used, acked, found>>

(* Already there: an identity is returned, an equal registration is accepted. *)
Same(op, x, e) == \/ op = "ensure" /\ x.home = e.home
                  \/ op = "register" /\ x = e
Clashes_ByEntry(op, x, e) == op = "add" /\ (x.alias = e.alias \/ x.id = e.id)
Clashes(op, x, e) == \/ op = "add" /\ (x.alias = e.alias \/ x.id = e.id)
                     \/ op = "register" /\ x.store = e.store /\ x # e
Changed(op, doc, e) == IF op = "remove" THEN {x \in doc : x.id # e.id} ELSE doc \cup {e}
Default(op, e) == IF op = "remove" /\ default = e.by THEN "none" ELSE default

Returns(p, S) == acked' = (IF proc[p].op = "remove" THEN acked \ {<<"config", x>> : x \in S}
                           ELSE acked \cup {<<FileOf[proc[p].op], x>> : x \in S})

(* The temporary file is renamed over the document.  What follows the       *)
(* rename may still fail: the change is made and reported as an error.      *)
Save(p) ==
    LET op == proc[p].op  e == proc[p].entry  doc == proc[p].doc  f == FileOf[op]
        new == Changed(op, doc, e)  there == {x \in doc : Same(op, x, e)}
    IN  /\ proc[p].at = "save" /\ To(p, "unlock")
        /\ \/ there # {} /\ Returns(p, there) /\ UNCHANGED <<files, default>>
           \/ there = {} /\ UNCHANGED <<files, default, acked>>                \* a clash, a document that would not load, a write that fails
           \/ /\ there = {} /\ ~\E x \in doc : Clashes(op, x, e)
              /\ op = "remove" => \E x \in doc : x.id = e.id
              /\ f = "config" => ValidConfig(new, Default(op, e))
              /\ files' = [files EXCEPT ![f] = new] /\ default' = Default(op, e)
              /\ \/ Returns(p, {IF op = "remove" THEN [alias |-> e.alias, id |-> e.id] ELSE e})
                 \/ acked' = (IF op = "remove" THEN acked \ {<<"config", [alias |-> e.alias, id |-> e.id]>>} ELSE acked)
        /\ UNCHANGED <<lock, place, holds, used, found>>

Unlock(p) ==
    /\ proc[p].at = "unlock" /\ proc' = [proc EXCEPT ![p] = Idle]
    /\ lock' = [f \in File |-> IF lock[f] = p THEN "none" ELSE lock[f]]
    /\ UNCHANGED <<files, default, place, holds, used, acked, found>>

(* FileRegistry.Resolve: the document is read, then the journal opened where it points. *)
ReadRegistry(p) ==
    LET hits == {x \in files["stores"] : x.store = proc[p].entry.store /\ x.ep = proc[p].entry.ep}
    IN  /\ proc[p].at = "read"
        /\ proc' = [proc EXCEPT ![p] = IF hits = {} THEN Idle ELSE [@ EXCEPT !.doc = hits, !.at = "open"]]
        /\ UNCHANGED <<files, default, lock, place, holds, used, acked, found>>

Opened(store, asked) == IF store = asked THEN {<<asked, store>>} ELSE {}    \* ResolveStoreID in the opened journal
OpenRegistered(p) ==
    /\ proc[p].at = "open" /\ proc' = [proc EXCEPT ![p] = Idle]
    /\ \E x \in proc[p].doc : found' = found \cup Opened(holds[x.dir], proc[p].entry.store)
    /\ UNCHANGED <<files, default, lock, place, holds, used, acked>>

Dies(p) ==
    /\ proc[p].op # "idle" /\ proc' = [proc EXCEPT ![p] = Idle]
    /\ lock' = [f \in File |-> IF lock[f] = p THEN "none" ELSE lock[f]]
    /\ UNCHANGED <<files, default, place, holds, used, acked, found>>

(* The user moves a home behind a link, or back; a state directory is replaced. *)
HomeMoves(h) == \E where \in Places : place' = [place EXCEPT ![h] = where]
                /\ UNCHANGED <<files, default, lock, holds, used, proc, acked, found>>
DirReplaced(d) == \E s \in Store : holds' = [holds EXCEPT ![d] = s]
                /\ UNCHANGED <<files, default, lock, place, used, proc, acked, found>>

Step(p) == Lock(p) \/ Load(p) \/ Save(p) \/ Unlock(p) \/ ReadRegistry(p) \/ OpenRegistered(p)
RegistryNext ==
    \/ \E p \in Proc : Starts(p) \/ Step(p) \/ Dies(p)
    \/ \E h \in CodexHome : HomeMoves(h)
    \/ \E d \in Dir : DirReplaced(d)
RegistrySpec == RegistryInit /\ [][RegistryNext]_registryVars
(* The operating system runs every process, and hands a lock that is freed again and again to whoever waits. *)
FairRegistrySpec == RegistrySpec /\ \A p \in Proc : WF_registryVars(Step(p)) /\ SF_registryVars(Lock(p))
-----------------------------------------------------------------------------
(* PROPERTIES *)

RegistryTypeOK ==
    /\ files["config"] \subseteq Configured /\ files["idents"] \subseteq Identity /\ files["stores"] \subseteq Registered
    /\ lock \in [File -> Proc \cup {"none"}]
    /\ \A f \in File : lock[f] # "none" => FileOf[proc[lock[f]].op] = f /\ proc[lock[f]].at \in {"load", "save", "unlock"}

(* Processes that write the same document at once do not undo each other: an endpoint added and not *)
(* removed, an identity handed out and a registered store are still in the file.                  *)
NothingOverwritten == \A a \in acked : a[2] \in files[a[1]]

(* No process can leave a document the next one refuses to load. *)
DocumentsLoad == Valid

(* A Codex home keeps the one identity it was given, and a store the endpoint and directory it was  *)
(* registered with, whichever processes asked and however they raced.                              *)
NamesAreFixed == \A a, b \in acked :
    /\ (a[1] = "idents" /\ b[1] = "idents" /\ a[2].home = b[2].home) => a = b
    /\ (a[1] = "stores" /\ b[1] = "stores" /\ a[2].store = b[2].store) => a = b

(* The journal a registration leads to is the one asked for, though its directory may be replaced. *)
ResolvesTheStore == \A f \in found : f[1] = f[2]

(* A process that dies or fails leaves no lock behind: everybody who asks gets an answer. *)
EveryoneReturns == \A p \in Proc : proc[p].op # "idle" ~> proc[p].op = "idle"

(* The three documents lose nothing, load again, name each thing once and lead to the right store. *)
RegistriesAreSound == NothingOverwritten /\ DocumentsLoad /\ NamesAreFixed /\ ResolvesTheStore
=============================================================================
