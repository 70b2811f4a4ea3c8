----------------------------- MODULE MC_Records -----------------------------
(***************************************************************************)
(* The durable records of one machine other than reply custody:            *)
(* operations, receipts and imports, the listing of receipts, the shared   *)
(* files, the search for an original, the opening of a store, retention    *)
(* and artifacts.  The parts share nothing.  One run checks them all:      *)
(* "which" names the part whose steps a behaviour takes, and the others    *)
(* stay in one fixed initial state, where their properties hold.           *)
(***************************************************************************)
EXTENDS OperationJournal, ReceiptStore, ReceiptListing, Registries, OriginalLookup, StoreOpening, Retention,
        Artifacts, PortableWait

VARIABLE which

(* The shared files at the start: one endpoint is configured. *)
MCFirst == {[alias |-> "a1", id |-> "i1"]}

Parts == {"operations", "retention", "blockers", "receipts", "listing", "files", "opening", "spills", "portable", "search"}
Part(parts) == which \in parts

MCInit ==
    /\ which \in Parts
    /\ Init /\ RetentionInit
    /\ ReceiptInit /\ (Part({"receipts"}) \/ (op = "accepted" /\ history = {} /\ ~replied /\ delivered))
    /\ ListingInit /\ (Part({"listing"}) \/ rows = {})
    /\ RegistryInit /\ (Part({"files"}) \/ default = "none")
    /\ OpeningInit /\ (Part({"opening"}) \/ dir = "none")
    /\ SpillInit
    /\ Part({"spills"}) \/ (\A w \in {"w1", "w2"} : task[w] = [how |-> "spill", body |-> "a"])
    /\ Part({"spills"}) \/ (name = "none" /\ file["old"].body = "a" /\ file["old"].kind = "regular")
    /\ PortableInit /\ (Part({"portable"}) \/ custodian = "third")
    /\ LookupInit /\ (Part({"search"}) \/ (~renames /\ step = "search"))

(* Bounds: the clock runs to 2 where operations are retained, and to 3 where blockers are; there is *)
(* a receipt or a second claim; a database with replies is opened by one process.                  *)
RetainedNext ==
    /\ which = "retention" /\ RetentionNext /\ blockers' = <<>> /\ clock' <= 2
    /\ "c2" \in DOMAIN claims' => receipts' = <<>>
BlockersNext ==
    /\ which = "blockers" /\ RetentionNext /\ ops' = <<>>

others(part) ==
    /\ UNCHANGED which
    /\ part # "operations" => UNCHANGED vars
    /\ part # "retained" => UNCHANGED retentionVars
    /\ part # "receipts" => UNCHANGED receiptVars
    /\ part # "listing" => UNCHANGED listingVars
    /\ part # "files" => UNCHANGED registryVars
    /\ part # "opening" => UNCHANGED openingVars
    /\ part # "spills" => UNCHANGED spillVars
    /\ part # "portable" => UNCHANGED portableVars
    /\ part # "search" => UNCHANGED lookupVars

MCNext ==
    \/ which = "operations" /\ Next /\ others("operations")
    \/ RetainedNext /\ others("retained")
    \/ BlockersNext /\ others("retained")
    \/ which = "receipts" /\ ReceiptNext /\ others("receipts")
    \/ which = "listing" /\ ListingNext /\ others("listing")
    \/ which = "files" /\ RegistryNext /\ others("files")
    \/ which = "opening" /\ OpeningNext /\ others("opening") /\ (disk[1].claims # {} => opener'["p2"] = Unopened)
    \/ which = "spills" /\ SpillNext /\ others("spills")
    \/ which = "portable" /\ PortableNext /\ others("portable")
    \/ which = "search" /\ LookupNext /\ others("search")

allVars == <<which, vars, retentionVars, receiptVars, listingVars, registryVars, openingVars, spillVars, portableVars, lookupVars>>
MCSpec == MCInit /\ [][MCNext]_allVars
-----------------------------------------------------------------------------
(* Every part keeps its variables in the values the code can produce. *)
TypesOK ==
    /\ Part({"operations"}) => TypeOK
    /\ Part({"retention", "blockers"}) => RetentionTypeOK
    /\ Part({"receipts"}) => ReceiptTypeOK
    /\ Part({"listing"}) => ListingTypeOK
    /\ Part({"files"}) => RegistryTypeOK
    /\ Part({"opening"}) => OpeningTypeOK
    /\ Part({"spills"}) => SpillTypeOK
    /\ Part({"portable"}) => PortableTypeOK
    /\ Part({"search"}) => LookupTypeOK
=============================================================================
