--------------------------- MODULE ReceiptListing ---------------------------
(***************************************************************************)
(* receipts.Store.ListPage over journal.ListReceipts: a caller walks       *)
(* through the receipts page by page, each page a query of its own, while  *)
(* other commands store receipts.  Receipts are ordered by creation time,  *)
(* then ID, newest first; a receipt is numbered by its place in that order *)
(* and may be stored long after it was created.  The first page fixes an   *)
(* anchor and every page ends in a cursor.                                 *)
(***************************************************************************)
EXTENDS Naturals, FiniteSets

CONSTANTS
    Last,       \* bound: receipts ever created are numbered 1..Last, the oldest first
    Limit       \* receipts on a page

ASSUME ListingAssumption == Last \in Nat /\ Limit \in Nat \ {0}

VARIABLES
    rows,       \* receipts stored so far
    before,     \* those that were stored when the walk began
    cursor,     \* [anchor, last], both 0 before the first page
    shown,      \* receipts shown
    twice,      \* one was shown again
    walking
listingVars == <<rows, before, cursor, shown, twice, walking>>

ListingTypeOK ==
    /\ before \subseteq rows /\ rows \subseteq 1..Last
    /\ cursor \in [anchor : 0..Last, last : 0..Last]
    /\ shown \subseteq rows /\ twice \in BOOLEAN /\ walking \in BOOLEAN

ListingInit ==
    /\ rows \in SUBSET (1..Last) /\ before = rows
    /\ cursor = [anchor |-> 0, last |-> 0] /\ shown = {} /\ twice = FALSE /\ walking = TRUE

(* PutReceipt of a receipt with a new ID.  Putting one that exists keeps its creation time. *)
StoreAnother ==
    /\ \E n \in (1..Last) \ rows : rows' = rows \cup {n}
    /\ UNCHANGED <<before, cursor, shown, twice, walking>>

(* receiptPredicates: not above the anchor, and below the last receipt shown. *)
Selected_Offset(c) == {n \in rows : Cardinality({m \in rows : m > n}) >= Cardinality(shown)}
Selected(c) == {n \in rows : c.last # 0 => n <= c.anchor /\ n < c.last}

(* ORDER BY created_at DESC, receipt_id DESC LIMIT. *)
Page(S) == {n \in S : Cardinality({m \in S : m > n}) < Limit}
Newest(S) == CHOOSE n \in S : \A m \in S : m <= n
Oldest(S) == CHOOSE n \in S : \A m \in S : m >= n

(* A full page is followed by a probe for more, from its last receipt down. *)
HasMore(page, c) == Cardinality(page) = Limit /\ Selected(c) # {}

ListPage ==
    /\ walking
    /\ LET page == Page(Selected(cursor))
           next == IF page = {} THEN cursor
                   ELSE [anchor |-> IF cursor.anchor = 0 THEN Newest(page) ELSE cursor.anchor, last |-> Oldest(page)]
           more == page # {} /\ HasMore(page, next)
       IN  /\ shown' = shown \cup page /\ twice' = (twice \/ page \cap shown # {})
           /\ walking' = more
           /\ cursor' = IF more THEN next ELSE cursor
    /\ UNCHANGED <<rows, before>>

ListingNext == StoreAnother \/ ListPage
ListingSpec == ListingInit /\ [][ListingNext]_listingVars

(* A walk shows every receipt that was stored when it began and none twice, does not chase the   *)
(* ones that are newer than its first page, although each page is a query of its own, and gets a  *)
(* cursor only when another page has something to show.                                          *)
WalkIsASnapshot ==
    /\ ~twice
    /\ cursor.anchor # 0 => \A n \in shown : n <= cursor.anchor
    /\ ~walking => before \subseteq shown
    /\ walking /\ shown # {} => Selected(cursor) # {}
=============================================================================
