------------------------------- MODULE Artifacts -------------------------------
(***************************************************************************)
(* Several processes write one name of the artifact store: spills, which   *)
(* share a file that already holds the same bytes, and explicit RPC output, *)
(* which refuses or (Force) replaces what is there.  Each writes a         *)
(* temporary file of its own and publishes it by link or rename; any of    *)
(* them may fail or die between two system calls.                          *)
(***************************************************************************)
EXTENDS Naturals

CONSTANTS
    Writer,
    Body,           \* what may be written
    Hows            \* subset of {"spill", "rpc", "force"}

ASSUME SpillAssumption == Writer \cap {"old", "none"} = {} /\ Hows \subseteq {"spill", "rpc", "force"}

VARIABLES
    task,       \* Writer -> [how, body]
    pc,         \* where each writer stands, or what it returned
    name,       \* the file the name leads to: a writer's, "old" or "none"
    file,       \* each file: [body, chunks, kind, ctime]
    temp,       \* writers whose temporary name still exists
    look        \* Writer -> [opened, ctime, attempt], the verification of reuseExisting
spillVars == <<task, pc, name, file, temp, look>>

Chunks == 2
MaxAttempts == 3
Inode == Writer \cup {"old"}
Ended == {"receipt", "published", "refused", "conflict", "failed", "canceled", "crashed"}

SpillInit ==
    /\ task \in [Writer -> [how : Hows, body : Body]]
    /\ pc = [w \in Writer |-> "check"] /\ name \in {"none", "old"} /\ temp = {}
    /\ \E b \in Body, k \in {"regular", "wrongMode", "symlink"} :
          file = [i \in Inode |-> IF i = "old" THEN [body |-> b, chunks |-> Chunks, kind |-> k, ctime |-> 0]
                                  ELSE [body |-> task[i].body, chunks |-> 0, kind |-> "regular", ctime |-> 0]]
    /\ look = [w \in Writer |-> [opened |-> "none", ctime |-> 0, attempt |-> 0]]

How(w) == task[w].how
WriterGoes(w, l) == pc' = [pc EXCEPT ![w] = l]
(* An error return runs the deferred removal of the temporary file.        *)
GivesUp(w, l) == WriterGoes(w, l) /\ temp' = temp \ {w}

(* checkSpillTarget, checkRootTarget, checkTarget                          *)
Admits(w) ==
    \/ name = "none"
    \/ How(w) = "spill" /\ file[name].kind = "regular"
    \/ How(w) = "force" /\ file[name].kind # "symlink"

Check(w) ==
    /\ pc[w] \in {"check", "recheck"}
    /\ IF Admits(w) THEN WriterGoes(w, IF pc[w] = "check" THEN "create" ELSE "publish") /\ UNCHANGED temp
       ELSE GivesUp(w, "refused")
    /\ UNCHANGED <<task, name, file, look>>

CreateTemp(w) ==
    /\ pc[w] = "create" /\ temp' = temp \cup {w} /\ WriterGoes(w, "copy")
    /\ UNCHANGED <<task, name, file, look>>

(* copyBounded; a read error, the size limit or the context end it.        *)
Copy(w) ==
    /\ pc[w] = "copy" /\ file[w].chunks < Chunks
    /\ file' = [file EXCEPT ![w].chunks = @ + 1] /\ UNCHANGED <<task, pc, name, temp, look>>
CopyEnds(w) ==
    /\ pc[w] = "copy" /\ file[w].chunks = Chunks /\ WriterGoes(w, "recheck")
    /\ UNCHANGED <<task, name, file, temp, look>>
CopyFails(w) == pc[w] = "copy" /\ GivesUp(w, "failed") /\ UNCHANGED <<task, name, file, look>>

Bump(f, is) == [i \in Inode |-> IF i \in is THEN [f[i] EXCEPT !.ctime = @ + 1] ELSE f[i]]

(* Rename replaces; Link fails when the name has appeared since.           *)
Publish(w) ==
    /\ pc[w] = "publish"
    /\ \/ /\ How(w) = "force"
          /\ name' = w /\ file' = Bump(file, {w, name}) /\ GivesUp(w, "receipt")
       \/ /\ How(w) # "force" /\ name = "none"
          /\ name' = w /\ file' = Bump(file, {w}) /\ WriterGoes(w, "unlink") /\ UNCHANGED temp
       \/ /\ How(w) # "force" /\ name # "none" /\ UNCHANGED <<name, file>>
          /\ IF How(w) = "spill" THEN WriterGoes(w, "open") /\ UNCHANGED temp ELSE GivesUp(w, "refused")
    /\ UNCHANGED <<task, look>>

(* Removing the temporary link changes the published file's ctime.         *)
Unlink(w) ==
    /\ pc[w] = "unlink" /\ UNCHANGED <<task, name, look>>
    /\ \/ GivesUp(w, "receipt") /\ file' = Bump(file, {w})
       \/ WriterGoes(w, "published") /\ UNCHANGED <<temp, file>>

-----------------------------------------------------------------------------
(* reuseExisting: is what is there, and stays there, what I would publish?  *)
OpenExisting(w) ==
    /\ pc[w] = "open" /\ UNCHANGED <<task, name, file>>
    /\ IF file[name].kind = "symlink" THEN GivesUp(w, "failed") /\ UNCHANGED look
       ELSE WriterGoes(w, "stat") /\ look' = [look EXCEPT ![w].opened = name] /\ UNCHANGED temp

Stat(w) ==
    /\ pc[w] = "stat" /\ UNCHANGED <<task, name, file>>
    /\ IF file[look[w].opened].kind = "wrongMode" THEN GivesUp(w, "failed") /\ UNCHANGED look
       ELSE WriterGoes(w, "hash") /\ look' = [look EXCEPT ![w].ctime = file[look[w].opened].ctime] /\ UNCHANGED temp

Hash(w) ==
    /\ pc[w] = "hash" /\ UNCHANGED <<task, name, file, look>>
    /\ LET f == file[look[w].opened]
       IN  IF f.body = task[w].body /\ f.chunks = Chunks THEN WriterGoes(w, "restat") /\ UNCHANGED temp
           ELSE GivesUp(w, "conflict")

(* Drift is looked at again; the context is checked before each new attempt. *)
Again(w) ==
    \/ /\ look[w].attempt + 1 < MaxAttempts
       /\ WriterGoes(w, "stat") /\ look' = [look EXCEPT ![w].attempt = @ + 1] /\ UNCHANGED temp
    \/ look[w].attempt + 1 < MaxAttempts /\ GivesUp(w, "canceled") /\ UNCHANGED look
    \/ look[w].attempt + 1 = MaxAttempts /\ GivesUp(w, "conflict") /\ UNCHANGED look
Drifted(w) == file[look[w].opened].ctime # look[w].ctime

Restat(w) ==
    /\ pc[w] = "restat" /\ UNCHANGED <<task, name, file>>
    /\ IF Drifted(w) THEN Again(w) ELSE WriterGoes(w, "confirm") /\ UNCHANGED <<temp, look>>

Confirm_AnyFile(w) ==
    /\ pc[w] = "confirm" /\ UNCHANGED <<task, name, file>>
    /\ IF file[name].kind # "regular" THEN GivesUp(w, "failed") /\ UNCHANGED look
       ELSE GivesUp(w, "receipt") /\ UNCHANGED look
Confirm(w) ==
    /\ pc[w] = "confirm" /\ UNCHANGED <<task, name, file>>
    /\ IF file[name].kind # "regular" THEN GivesUp(w, "failed") /\ UNCHANGED look
       ELSE IF name # look[w].opened THEN GivesUp(w, "conflict") /\ UNCHANGED look
       ELSE IF Drifted(w) THEN Again(w)
       ELSE GivesUp(w, "receipt") /\ UNCHANGED look

Crash(w) == pc[w] \notin Ended \cup {"check"} /\ WriterGoes(w, "crashed") /\ UNCHANGED <<task, name, file, temp, look>>

SpillNext == \E w \in Writer :
    \/ Check(w) \/ CreateTemp(w) \/ Copy(w) \/ CopyEnds(w) \/ CopyFails(w) \/ Publish(w) \/ Unlink(w)
    \/ OpenExisting(w) \/ Stat(w) \/ Hash(w) \/ Restat(w) \/ Confirm(w) \/ Crash(w)
SpillSpec == SpillInit /\ [][SpillNext]_spillVars
-----------------------------------------------------------------------------
(* Only a writer that died or could not remove it leaves a temporary file, *)
(* and the verification keeps its number of attempts.                      *)
SpillTypeOK ==
    /\ \A w \in Writer : look[w].attempt < MaxAttempts /\ file[w].chunks <= Chunks
    /\ \A w \in temp : pc[w] \notin Ended \/ pc[w] \in {"published", "crashed"}

(* Spill "atomically publishes a complete artifact": whatever fails or dies *)
(* where, the name never leads to part of a body.                          *)
PublishedIsWhole == name # "none" => file[name].chunks = Chunks

(* A spill that found the name taken is answered with a receipt only while  *)
(* the name leads to a whole file of exactly its bytes, whoever replaces    *)
(* the file during the verification.                                       *)
ReusedIsMine ==
    [][\A w \in Writer : pc[w] = "confirm" /\ pc'[w] = "receipt" =>
          name' # "none" /\ file'[name'].body = task[w].body /\ file'[name'].chunks = Chunks]_spillVars

(* Without Force nothing that has a name is ever replaced, although the    *)
(* destination is checked long before it is linked.                        *)
NoClobber ==
    [][name # "none" /\ name' # name => \E w \in Writer : name' = w /\ How(w) = "force"]_spillVars

(* Processes that spill the same bytes at once all succeed: the one that   *)
(* publishes removes its temporary link during the others' verification.   *)
SameBytesAreShared ==
    (\A v, w \in Writer : task[v] = task[w] /\ How(w) = "spill")
        /\ (name = "old" => file["old"].kind = "regular" /\ \A w \in Writer : file["old"].body = task[w].body)
    => \A w \in Writer : pc[w] # "conflict"

(* A name leads to a whole body, is shared by writers of the same bytes and *)
(* taken from nobody without Force.                                        *)
SpillsAreWhole == [](PublishedIsWhole /\ SameBytesAreShared) /\ ReusedIsMine /\ NoClobber
=============================================================================
