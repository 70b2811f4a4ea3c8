---------------------------- MODULE OriginalLookup ----------------------------
(***************************************************************************)
(* How a reply finds its original: OriginalResolver (runtime/original.go), *)
(* the indexed search it prefers (runtime/original_search.go) and the      *)
(* bounded page-by-page scan it falls back to (codexapi/api.go), over a    *)
(* thread that grows, and whose index may lag, while the lookup runs.      *)
(*                                                                         *)
(* A turn holds one item.  All items but "other" carry the reference as    *)
(* message ID, client ID or digest: the original and a second, different   *)
(* envelope of the same name, one addressed by an older name of the        *)
(* thread, and one that was copied from an ancestor by a fork.             *)
(***************************************************************************)
EXTENDS Naturals, Sequences, FiniteSets

CONSTANTS MaxTurns,   \* turns the thread grows to
          PageSize,   \* turns of one page
          MaxPages,   \* MaxReconciliationPages
          MaxHits,    \* maxOriginalSearchHits
          MaxReads    \* maxOriginalCandidateReads

ASSUME LookupAssumption ==
    /\ {MaxTurns, MaxPages, MaxHits, MaxReads} \subseteq Nat
    /\ PageSize \in Nat \ {0}

Kind == {"original", "twin", "renamed", "ancestor", "other"}

VARIABLES
    thread,    \* the turns
    indexed,   \* the turns the search index knows
    renames,   \* does ValidateURI accept the older name?
    step, hits, read, items, result,
    began,     \* the length of the thread when it was first read
    horizon    \* the turns the lookup was able to see then

world == <<thread, indexed, renames>>
seen  == <<began, horizon>>
lookupVars == <<world, step, hits, read, items, result, seen>>

Results == {"none", "conflict", "incomplete", "notFound"} \cup Kind

LookupTypeOK ==
    /\ thread \in Seq(Kind) /\ Len(thread) <= MaxTurns
    /\ indexed \subseteq 1 .. Len(thread)
    /\ renames \in BOOLEAN
    /\ step \in {"search", "read", "resolve", "history", "done"}
    /\ hits \in Seq(1 .. MaxTurns) /\ Len(hits) <= MaxHits
    /\ read \subseteq 1 .. MaxTurns /\ Cardinality(read) <= MaxReads
    /\ items \in Seq(Kind)
    /\ began \in 0 .. MaxTurns /\ horizon \subseteq 1 .. MaxTurns
    /\ result \in Results

LookupInit ==
    /\ thread = <<>> /\ indexed = {} /\ renames \in BOOLEAN
    /\ step \in {"search", "history"}   \* CandidateLookup may be absent
    /\ hits = <<>> /\ read = {} /\ items = <<>>
    /\ began = 0 /\ horizon = {}
    /\ result = "none"

lookup == <<step, hits, read, items, result, seen>>
Grow == /\ Len(thread) < MaxTurns
        /\ \E k \in Kind : thread' = Append(thread, k)
        /\ UNCHANGED <<indexed, renames, lookup>>
Index == /\ \E i \in DOMAIN thread : indexed' = indexed \cup {i}
         /\ UNCHANGED <<thread, renames, lookup>>

Answer(what) ==
    /\ step' = "done" /\ result' = what
    /\ UNCHANGED <<world, hits, read, items, seen>>

-----------------------------------------------------------------------------
(* resolveItems: the URI and the thread of an item both have to be those   *)
(* of the pinned thread, and all that are left must be one envelope.       *)

Addressed(k) == k \in {"original", "twin"} \/ (k = "renamed" /\ renames)
Found(is) == { k \in { is[i] : i \in DOMAIN is } : Addressed(k) }

-----------------------------------------------------------------------------
(* The indexed search: occurrences, so an item may be hit more than once.  *)

Matches == { i \in indexed : thread[i] # "other" }
SearchFails == step = "search" /\ Answer("incomplete")
SearchUnsupported ==
    /\ step = "search"
    /\ step' = "history"
    /\ UNCHANGED <<world, hits, read, items, result, seen>>
Hits == { h \in UNION { [1 .. n -> Matches] : n \in 0 .. MaxHits } :
             \A i \in Matches : \E n \in DOMAIN h : h[n] = i }
\* A page that has a next one is refused, not read.
Search ==
    /\ step = "search"
    /\ hits' \in Hits
    /\ step' = "read" /\ began' = Len(thread) /\ horizon' = Matches
    /\ UNCHANGED <<world, read, items, result>>
SearchTooMany == step = "search" /\ Matches # {} /\ Answer("incomplete")

\* Every candidate is read back as a full turn.  Its turn may have gone.
ReadCandidate_StopsAtLimit ==
    LET i == Head(hits)
    IN /\ step = "read" /\ hits # <<>>
       /\ \/ /\ i \in read \/ Cardinality(read) = MaxReads
             /\ UNCHANGED <<read, items>>
          \/ /\ i \notin read /\ Cardinality(read) < MaxReads
             /\ read' = read \cup {i} /\ items' = Append(items, thread[i])
       /\ hits' = Tail(hits)
       /\ UNCHANGED <<world, step, result, seen>>
ReadCandidate ==
    LET i == Head(hits)
    IN /\ step = "read" /\ hits # <<>>
       /\ \/ i \in read /\ UNCHANGED <<read, items>>
          \/ /\ i \notin read /\ Cardinality(read) < MaxReads
             /\ read' = read \cup {i} /\ items' = Append(items, thread[i])
       /\ hits' = Tail(hits)
       /\ UNCHANGED <<world, step, result, seen>>
ReadFails ==
    /\ step = "read" /\ hits # <<>> /\ Head(hits) \notin read
    /\ Answer("incomplete")

\* No hit, or none that verifies, is no proof of absence.
ResolveCandidates ==
    /\ step = "read" /\ hits = <<>>
    /\ \/ Cardinality(Found(items)) = 1 /\ \E k \in Found(items) : Answer(k)
       \/ Cardinality(Found(items)) > 1 /\ Answer("conflict")
       \/ Found(items) = {} /\ Answer("incomplete")

-----------------------------------------------------------------------------
(* ReadFullTurnsWithLimit: a partial history is never an answer.           *)

ReadPage ==
    LET to == Len(items) + PageSize
    IN /\ step = "history"
       /\ to <= PageSize * MaxPages
       /\ items' = SubSeq(thread, 1, IF to < Len(thread) THEN to ELSE Len(thread))
       /\ IF items = <<>> THEN began' = Len(thread) /\ horizon' = DOMAIN thread
                          ELSE UNCHANGED seen
       /\ step' = IF to >= Len(thread) THEN "resolve" ELSE "history"
       /\ UNCHANGED <<world, hits, read, result>>
HistoryFails == step = "history" /\ Answer("incomplete")

ResolveHistory ==
    /\ step = "resolve"
    /\ \/ Cardinality(Found(items)) = 1 /\ \E k \in Found(items) : Answer(k)
       \/ Cardinality(Found(items)) > 1 /\ Answer("conflict")
       \/ Found(items) = {} /\ Answer("notFound")

LookupNext ==
    \/ Grow \/ Index
    \/ SearchFails \/ SearchUnsupported \/ Search \/ SearchTooMany
    \/ ReadCandidate \/ ReadFails \/ ResolveCandidates
    \/ ReadPage \/ HistoryFails \/ ResolveHistory

LookupSpec == LookupInit /\ [][LookupNext]_lookupVars

-----------------------------------------------------------------------------
(* "Not found" is said only when the thread, as it was when the lookup     *)
(* began, holds no such original: never because an index lags, a hit could *)
(* not be read, or a bound was met (original.go:38-55).                    *)
NotFoundIsProof ==
    result = "notFound" => \A i \in 1 .. began : ~Addressed(thread[i])

(* An envelope that was picked is the only one: of what the thread held,   *)
(* or the index knew, when the lookup began, nothing else that answers to  *)
(* the reference is addressed to this thread (original.go:90-95,           *)
(* original_search.go:38-52).                                              *)
PickedIsTheOnlyOne ==
    result \in Kind => \A i \in horizon : Addressed(thread[i]) => thread[i] = result

(* What a lookup answers is proved by what it read, whatever it could not   *)
(* read and however the index lags.                                        *)
LookupIsSound == NotFoundIsProof /\ PickedIsTheOnlyOne
=============================================================================
