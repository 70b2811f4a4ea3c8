--------------------------- MODULE Records_proofs ---------------------------
(***************************************************************************)
(* The safety properties of what is read or written in several steps while *)
(* others change it:                                                       *)
(*   ReceiptListing   a walk through the receipts, page by page            *)
(*   OriginalLookup   the search of a thread that grows                    *)
(*   Registries       the files several processes read, change and replace *)
(*   Artifacts        the file several writers publish under one name      *)
(* Each has an inductive invariant of its own.                             *)
(***************************************************************************)
EXTENDS ReceiptListing, OriginalLookup, Registries, Artifacts, FiniteSetTheorems,
        SequenceTheorems, WellFoundedInduction, TLAPS

(* ReceiptListing: what a page of a finite set of receipts is.              *)

LEMMA LeastExists ==
    ASSUME NEW T, T \subseteq Nat, T # {}
    PROVE  \E x \in T : \A y \in T : x <= y
  <1>1. \E x \in T : \A y \in T : ~ (<<y, x>> \in OpToRel(<, Nat))
    <2>1. IsWellFoundedOn(OpToRel(<, Nat), Nat)
      BY NatLessThanWellFounded
    <2> QED
      BY <2>1, WFMin
  <1>2. PICK x \in T : \A y \in T : ~ (y < x)
    BY <1>1 DEF OpToRel
  <1> QED
    BY <1>2

LEMMA NumbersAreNatural ==
    ASSUME NEW S, S \subseteq 1..Last
    PROVE  S \subseteq Nat /\ \A n \in S : n \in Nat
  <1>1. ASSUME NEW n \in 1..Last PROVE n \in Nat
    BY ListingAssumption
  <1> QED
    BY <1>1

LEMMA GreatestExists ==
    ASSUME NEW S, S \subseteq 1..Last, S # {}
    PROVE  \E x \in S : \A y \in S : y <= x
  <1> DEFINE T == { Last - n : n \in S }
  <1>1. T \subseteq Nat /\ T # {}
    <2>1. \A n \in 1..Last : Last - n \in Nat
      BY ListingAssumption
    <2>2. \A n \in S : Last - n \in Nat
      BY <2>1
    <2> QED
      BY <2>2
  <1>2. PICK t \in T : \A y \in T : t <= y
    BY <1>1, LeastExists
  <1>3. PICK x \in S : t = Last - x
    BY <1>2
  <1>4. ASSUME NEW y \in S PROVE y <= x
    <2>1. t <= Last - y
      BY <1>2
    <2>2. x \in Int /\ y \in Int /\ Last \in Int
      BY ListingAssumption
    <2> QED
      BY <2>1, <2>2, <1>3
  <1> QED
    BY <1>4

LEMMA PartFinite ==
    ASSUME NEW S, S \subseteq 1..Last
    PROVE  IsFiniteSet(S) /\ Cardinality(S) \in Nat
  <1>1. IsFiniteSet(1..Last)
    BY FS_Interval, ListingAssumption
  <1> QED
    BY <1>1, FS_Subset, FS_CardinalityType

Above(S, n) == { m \in S : m > n }

\* A page is taken from the top: what is above one of its receipts is on it too.
LEMMA PageFromTop ==
    ASSUME NEW S, S \subseteq 1..Last, NEW n \in Page(S), NEW m \in S, m > n
    PROVE  m \in Page(S)
  <1>1. Above(S, m) \subseteq Above(S, n)
    <2>1. n \in S
      BY DEF Page
    <2>2. \A k \in S : k \in Nat
      BY ListingAssumption
    <2>3. \A k \in S : k > m => k > n
      BY <2>1, <2>2
    <2> QED
      BY <2>3 DEF Above
  <1>2. IsFiniteSet(Above(S, n)) /\ Cardinality(Above(S, n)) \in Nat
    BY PartFinite DEF Above
  <1>3. Cardinality(Above(S, m)) <= Cardinality(Above(S, n)) /\ Cardinality(Above(S, m)) \in Nat
    BY <1>1, <1>2, FS_Subset, FS_CardinalityType
  <1>4. Cardinality(Above(S, n)) < Limit
    BY DEF Page, Above
  <1>5. Cardinality(Above(S, m)) < Limit
    BY <1>2, <1>3, <1>4, ListingAssumption
  <1> QED
    BY <1>5 DEF Page, Above

LEMMA PageNotEmpty ==
    ASSUME NEW S, S \subseteq 1..Last, S # {}
    PROVE  Page(S) # {} /\ Page(S) \subseteq S
  <1>1. PICK x \in S : \A y \in S : y <= x
    BY GreatestExists
  <1>2. { m \in S : m > x } = {}
    <2>1. \A y \in S : y \in Nat
      BY ListingAssumption
    <2>2. \A y \in S : ~ (y > x)
      BY <1>1, <2>1
    <2> QED
      BY <2>2
  <1>3. Cardinality({ m \in S : m > x }) < Limit
    BY <1>2, FS_EmptySet, ListingAssumption
  <1> QED
    BY <1>3 DEF Page

\* A page never has more than Limit receipts ...
LEMMA PageFits ==
    ASSUME NEW S, S \subseteq 1..Last
    PROVE  Cardinality(Page(S)) \in Nat /\ Cardinality(Page(S)) <= Limit
  <1>1. Page(S) \subseteq 1..Last
    BY DEF Page
  <1>2. CASE Page(S) = {}
    BY <1>2, FS_EmptySet, ListingAssumption
  <1>3. CASE Page(S) # {}
    <2>1. PICK x \in Page(S) : \A y \in Page(S) : x <= y
      <3>1. Page(S) \subseteq Nat
        BY <1>1
      <3> QED
        BY <3>1, <1>3, LeastExists
    <2>2. Page(S) \ {x} \subseteq Above(S, x)
      BY <2>1, <1>1 DEF Above, Page
    <2>3. Above(S, x) \subseteq 1..Last
      BY DEF Above
    <2>4. Cardinality(Page(S) \ {x}) <= Cardinality(Above(S, x))
      BY <2>2, <2>3, PartFinite, FS_Subset
    <2>5. Cardinality(Above(S, x)) < Limit
      BY <2>1 DEF Page, Above
    <2>6. Cardinality(Page(S) \ {x}) = Cardinality(Page(S)) - 1
      BY <2>1, <1>1, PartFinite, FS_RemoveElement
    <2>7. Cardinality(Page(S)) \in Nat /\ Cardinality(Above(S, x)) \in Nat
      BY <1>1, <2>3, PartFinite
    <2> QED
      BY <2>4, <2>5, <2>6, <2>7, ListingAssumption
  <1> QED
    BY <1>2, <1>3

\* ... and one with fewer is all there is.
LEMMA ShortPageIsAll ==
    ASSUME NEW S, S \subseteq 1..Last, Cardinality(Page(S)) # Limit
    PROVE  Page(S) = S
  <1>1. Page(S) \subseteq S
    BY DEF Page
  <1>2. SUFFICES ASSUME S \ Page(S) # {} PROVE FALSE
    BY <1>1
  <1>3. PICK x \in S \ Page(S) : \A y \in S \ Page(S) : y <= x
    <2>1. S \ Page(S) \subseteq 1..Last
      OBVIOUS
    <2> QED
      BY <2>1, <1>2, GreatestExists
  <1>4. Above(S, x) \subseteq Page(S)
    <2> SUFFICES ASSUME NEW m \in S, m > x PROVE m \in Page(S)
      BY DEF Above
    <2>1. ~ (m <= x)
      BY ListingAssumption
    <2> QED
      BY <2>1, <1>3
  <1>5. Cardinality(Above(S, x)) <= Cardinality(Page(S))
    BY <1>1, <1>4, PartFinite, FS_Subset
  <1>6. Above(S, x) \subseteq 1..Last
    BY DEF Above
  <1>7. ~ (Cardinality(Above(S, x)) < Limit)
    BY <1>3 DEF Page, Above
  <1>8. Cardinality(Above(S, x)) \in Nat
    BY <1>6, PartFinite
  <1> QED
    <2>1. Cardinality(Page(S)) \in Nat /\ Cardinality(Page(S)) < Limit
      <3>1. Cardinality(Page(S)) \in Nat /\ Cardinality(Page(S)) <= Limit
        BY PageFits
      <3> QED
        BY <3>1, ListingAssumption
    <2> QED
      BY <1>5, <1>7, <1>8, <2>1, ListingAssumption

LEMMA PageEnds ==
    ASSUME NEW S, S \subseteq 1..Last, S # {}
    PROVE  /\ Newest(Page(S)) \in Page(S) /\ \A m \in S : m <= Newest(Page(S))
           /\ Oldest(Page(S)) \in Page(S) /\ \A m \in Page(S) : m >= Oldest(Page(S))
           /\ \A m \in S : m >= Oldest(Page(S)) => m \in Page(S)
  <1> DEFINE P == Page(S)
  <1>1. P # {} /\ P \subseteq S
    BY PageNotEmpty
  <1>2. Newest(P) \in P /\ \A m \in P : m <= Newest(P)
    <2>1. \E n \in P : \A m \in P : m <= n
      BY <1>1, GreatestExists
    <2> QED
      BY <2>1 DEF Newest
  <1>3. Oldest(P) \in P /\ \A m \in P : m >= Oldest(P)
    <2>1. P \subseteq Nat
      BY <1>1, NumbersAreNatural
    <2>2. \E n \in P : \A m \in P : n <= m
      BY <1>1, <2>1, LeastExists
    <2>3. \E n \in P : \A m \in P : m >= n
      BY <2>1, <2>2
    <2> QED
      BY <2>3 DEF Oldest
  <1>4. \A m \in S : m \in Nat
    BY NumbersAreNatural
  <1>5. \A m \in S : m <= Newest(P)
    <2> SUFFICES ASSUME NEW m \in S, ~ (m <= Newest(P)) PROVE FALSE
      OBVIOUS
    <2>1. Newest(P) \in S
      BY <1>1, <1>2
    <2>2. m \in Nat /\ Newest(P) \in Nat
      BY <1>4, <2>1
    <2>3. m > Newest(P)
      BY <2>2
    <2>4. m \in P
      BY <1>2, <2>3, PageFromTop
    <2> QED
      BY <1>2, <2>4
  <1>6. \A m \in S : m >= Oldest(P) => m \in P
    <2> SUFFICES ASSUME NEW m \in S, m >= Oldest(P) PROVE m \in P
      OBVIOUS
    <2>1. Oldest(P) \in S
      BY <1>1, <1>3
    <2>2. m \in Nat /\ Oldest(P) \in Nat
      BY <1>4, <2>1
    <2>3. m = Oldest(P) \/ m > Oldest(P)
      BY <2>2
    <2>4. m > Oldest(P) => m \in P
      BY <1>3, PageFromTop
    <2> QED
      BY <1>3, <2>3, <2>4
  <1> QED
    BY <1>2, <1>3, <1>5, <1>6

-----------------------------------------------------------------------------
(* A walk: what lies between the cursor and the anchor was shown, what lies *)
(* below the cursor is still to come, and nothing that was there at the     *)
(* start lies above the anchor.                                             *)
WalkInv ==
    /\ ListingTypeOK
    /\ cursor.anchor = 0 <=> cursor.last = 0
    /\ walking /\ cursor.last = 0 => shown = {}
    /\ walking /\ cursor.last # 0 =>
          /\ \A n \in shown : cursor.last <= n
          /\ \A n \in before : n <= cursor.anchor /\ (cursor.last <= n => n \in shown)
          /\ Selected(cursor) # {}
    /\ cursor.anchor # 0 => \A n \in shown : n <= cursor.anchor
    /\ ~walking => before \subseteq shown
    /\ ~twice

LEMMA WalkBegins == ListingInit => WalkInv
  <1> SUFFICES ASSUME ListingInit PROVE WalkInv
    OBVIOUS
  <1>1. /\ rows \subseteq 1..Last /\ before = rows /\ shown = {} /\ twice = FALSE /\ walking = TRUE
        /\ cursor = [anchor |-> 0, last |-> 0]
    BY DEF ListingInit
  <1>2. 0 \in 0..Last
    BY ListingAssumption
  <1>3. ListingTypeOK
    BY <1>1, <1>2 DEF ListingTypeOK
  <1> QED
    BY <1>1, <1>3 DEF WalkInv

LEMMA WalkStores == WalkInv /\ StoreAnother => WalkInv'
  <1> SUFFICES ASSUME WalkInv, StoreAnother PROVE WalkInv'
    OBVIOUS
  <1>1. PICK n \in (1..Last) \ rows : rows' = rows \cup {n}
    BY DEF StoreAnother
  <1>2. UNCHANGED <<before, cursor, shown, twice, walking>>
    BY DEF StoreAnother
  <1>3. ListingTypeOK'
    BY <1>1, <1>2 DEF WalkInv, ListingTypeOK
  <1>4. Selected(cursor) \subseteq Selected(cursor)'
    BY <1>1, <1>2 DEF Selected
  <1> QED
    BY <1>2, <1>3, <1>4 DEF WalkInv

\* What a page that begins at the cursor may show.
LEMMA PageIsNew ==
    ASSUME WalkInv, walking
    PROVE  /\ Selected(cursor) \subseteq rows /\ Selected(cursor) \subseteq 1..Last
           /\ Selected(cursor) \cap shown = {}
           /\ \A n \in before : n \in shown \/ n \in Selected(cursor)
           /\ \A n \in Selected(cursor) : \A m \in shown : n < m
           /\ cursor.last = 0 => Selected(cursor) = rows
           /\ cursor.last # 0 => \A n \in Selected(cursor) : n <= cursor.anchor
  <1>1. /\ before \subseteq rows /\ rows \subseteq 1..Last /\ shown \subseteq rows
        /\ cursor.last \in Nat /\ cursor.anchor \in Nat
    BY DEF WalkInv, ListingTypeOK
  <1>2. /\ \A n \in rows : n \in Nat
        /\ \A n \in shown : n \in Nat
        /\ \A n \in before : n \in Nat
    BY <1>1, NumbersAreNatural
  <1>3. CASE cursor.last = 0
    <2>1. shown = {} /\ Selected(cursor) = rows
      BY <1>3 DEF WalkInv, Selected
    <2> QED
      BY <1>1, <1>3, <2>1
  <1>4. CASE cursor.last # 0
    <2>1. Selected(cursor) = { n \in rows : n <= cursor.anchor /\ n < cursor.last }
      BY <1>4 DEF Selected
    <2>2. /\ \A n \in shown : cursor.last <= n
          /\ \A n \in before : n <= cursor.anchor /\ (cursor.last <= n => n \in shown)
      BY <1>4 DEF WalkInv
    <2>3. ASSUME NEW n \in Selected(cursor), NEW m \in shown PROVE n < m
      <3>1. n \in Nat /\ n < cursor.last /\ m \in Nat /\ cursor.last <= m
        BY <1>2, <2>1, <2>2
      <3> QED
        BY <1>1, <3>1
    <2>4. ASSUME NEW n \in Selected(cursor) PROVE ~ (n < n)
      <3>1. n \in Nat
        BY <1>2, <2>1
      <3> QED
        BY <3>1
    <2>5. \A n \in before : n \in shown \/ n \in Selected(cursor)
      <3> SUFFICES ASSUME NEW n \in before, n \notin shown PROVE n \in Selected(cursor)
        OBVIOUS
      <3>1. n \in rows /\ n \in Nat /\ n <= cursor.anchor /\ ~ (cursor.last <= n)
        BY <1>1, <1>2, <2>2
      <3> QED
        BY <1>1, <2>1, <3>1
    <2>6. Selected(cursor) \cap shown = {}
      BY <2>3, <2>4
    <2> QED
      BY <1>1, <1>4, <2>1, <2>3, <2>5, <2>6
  <1> QED
    BY <1>3, <1>4

\* A walk that ends has shown all that was left: its page is short, or nothing lies below it.
LEMMA WalkEnds ==
    ASSUME WalkInv, walking, Selected(cursor) # {},
           NEW next, next.last = Oldest(Page(Selected(cursor))),
           \A n \in Selected(cursor) : n <= next.anchor,
           ~ HasMore(Page(Selected(cursor)), next)
    PROVE  Page(Selected(cursor)) = Selected(cursor)
  <1> DEFINE S == Selected(cursor)
  <1>1. S \subseteq rows /\ S \subseteq 1..Last
    BY PageIsNew
  <1>2. CASE Cardinality(Page(S)) # Limit
    BY <1>1, <1>2, ShortPageIsAll
  <1>3. CASE Selected(next) = {}
    <2>1. SUFFICES ASSUME NEW n \in S, n \notin Page(S) PROVE FALSE
      BY DEF Page
    <2>2. Oldest(Page(S)) \in Page(S) /\ ~ (n >= Oldest(Page(S)))
      BY <1>1, <2>1, PageEnds
    <2>3. n \in Nat /\ Oldest(Page(S)) \in Nat
      <3>1. Oldest(Page(S)) \in S
        BY <2>2 DEF Page
      <3> QED
        BY <1>1, <3>1, NumbersAreNatural
    <2>4. n < next.last /\ n <= next.anchor /\ n \in rows
      BY <1>1, <2>2, <2>3
    <2>5. n \in Selected(next)
      BY <2>4 DEF Selected
    <2> QED
      BY <1>3, <2>5
  <1> QED
    BY <1>2, <1>3 DEF HasMore

\* What the page adds: the walk goes on below its oldest receipt.
LEMMA WalkGoesOn ==
    ASSUME WalkInv, walking, Selected(cursor) # {},
           NEW next \in [anchor : 0..Last, last : 0..Last],
           next.last = Oldest(Page(Selected(cursor))),
           next.anchor = IF cursor.anchor = 0 THEN Newest(Page(Selected(cursor))) ELSE cursor.anchor
    PROVE  /\ next.last # 0 /\ next.anchor # 0
           /\ \A n \in Selected(cursor) : n <= next.anchor
           /\ \A n \in shown \cup Page(Selected(cursor)) : next.last <= n /\ n <= next.anchor
           /\ \A n \in before : n <= next.anchor
           /\ \A n \in before : next.last <= n => n \in shown \cup Page(Selected(cursor))
  <1> DEFINE S == Selected(cursor)  P == Page(S)
  <1>1. /\ S \subseteq rows /\ S \subseteq 1..Last
        /\ \A n \in before : n \in shown \/ n \in S
        /\ \A n \in S : \A m \in shown : n < m
        /\ cursor.last = 0 => S = rows
        /\ cursor.last # 0 => \A n \in S : n <= cursor.anchor
    BY PageIsNew
  <1>2. /\ Newest(P) \in P /\ \A m \in S : m <= Newest(P)
        /\ Oldest(P) \in P /\ \A m \in P : m >= Oldest(P)
        /\ \A m \in S : m >= Oldest(P) => m \in P
    BY <1>1, PageEnds
  <1>3. /\ P \subseteq S
        /\ \A n \in S : n \in 1..Last /\ n \in Nat
        /\ \A n \in shown : n \in Nat
    <2>1. shown \subseteq 1..Last
      BY DEF WalkInv, ListingTypeOK
    <2> QED
      BY <1>1, <2>1, NumbersAreNatural DEF Page
  <1>4. cursor.anchor = 0 <=> cursor.last = 0
    BY DEF WalkInv
  <1>5. next.last # 0
    <2>1. \A n \in 1..Last : n # 0
      BY ListingAssumption
    <2> QED
      BY <1>2, <1>3, <2>1
  <1>6. next.anchor # 0
    <2>1. \A n \in 1..Last : n # 0
      BY ListingAssumption
    <2> QED
      BY <1>2, <1>3, <2>1
  <1>7. \A n \in S : n <= next.anchor
    BY <1>1, <1>2, <1>4
  <1>8. \A n \in P : next.last <= n
    BY <1>2, <1>3
  <1>9. ASSUME NEW n \in shown PROVE next.last <= n /\ n <= next.anchor
    <2>1. cursor.last # 0 /\ cursor.anchor # 0
      BY <1>4 DEF WalkInv
    <2>2. n <= cursor.anchor
      BY <2>1 DEF WalkInv
    <2>3. next.last < n /\ next.last \in Nat /\ n \in Nat
      BY <1>1, <1>2, <1>3
    <2> QED
      BY <2>1, <2>2, <2>3
  <1>10. \A n \in before : n <= next.anchor
    BY <1>1, <1>7, <1>9
  <1>11. \A n \in before : next.last <= n => n \in shown \cup P
    <2> SUFFICES ASSUME NEW n \in before, next.last <= n, n \notin shown PROVE n \in P
      OBVIOUS
    <2>1. n \in S /\ Oldest(P) \in S
      BY <1>1, <1>2, <1>3
    <2>2. n \in Nat /\ Oldest(P) \in Nat
      BY <1>3, <2>1
    <2>3. n >= Oldest(P)
      BY <2>2
    <2> QED
      BY <1>2, <2>1, <2>3
  <1> QED
    BY <1>3, <1>5, <1>6, <1>7, <1>8, <1>9, <1>10, <1>11

LEMMA WalkPages == WalkInv /\ ListPage => WalkInv'
  <1> SUFFICES ASSUME WalkInv, ListPage PROVE WalkInv'
    OBVIOUS
  <1> DEFINE S == Selected(cursor)
             page == Page(S)
             next == IF page = {} THEN cursor
                     ELSE [anchor |-> IF cursor.anchor = 0 THEN Newest(page) ELSE cursor.anchor, last |-> Oldest(page)]
             more == page # {} /\ HasMore(page, next)
  <1>1. /\ walking /\ shown' = shown \cup page /\ (twice' <=> twice \/ page \cap shown # {})
        /\ (walking' <=> more) /\ cursor' = (IF more THEN next ELSE cursor)
        /\ rows' = rows /\ before' = before /\ walking' \in BOOLEAN /\ twice' \in BOOLEAN
    BY DEF ListPage, WalkInv, ListingTypeOK
  <1>2. /\ S \subseteq rows /\ S \subseteq 1..Last /\ S \cap shown = {}
        /\ \A n \in before : n \in shown \/ n \in S
        /\ cursor.last # 0 => \A n \in S : n <= cursor.anchor
    BY <1>1, PageIsNew
  <1>3. page \subseteq S
    BY DEF Page
  <1>4. /\ before \subseteq rows /\ rows \subseteq 1..Last /\ shown \subseteq rows
        /\ cursor \in [anchor : 0..Last, last : 0..Last]
        /\ cursor.anchor = 0 <=> cursor.last = 0
        /\ cursor.anchor # 0 => \A n \in shown : n <= cursor.anchor
        /\ ~twice
    BY DEF WalkInv, ListingTypeOK
  <1>5. ~twice'
    BY <1>1, <1>2, <1>3, <1>4
  <1>6. shown' \subseteq rows'
    BY <1>1, <1>2, <1>3, <1>4
  <1>7. CASE ~more
    <2>1. cursor' = cursor /\ ~walking'
      BY <1>1, <1>7
    <2>2. ListingTypeOK'
      BY <1>1, <1>4, <1>6, <2>1 DEF ListingTypeOK
    <2>3. cursor.anchor # 0 => \A n \in shown' : n <= cursor.anchor
      BY <1>1, <1>2, <1>3, <1>4
    <2>4. page = S
      <3>1. CASE S = {}
        BY <1>3, <3>1
      <3>2. CASE S # {}
        <4>1. page # {}
          BY <1>2, <3>2, PageNotEmpty
        <4>2. next.last = Oldest(page) /\ ~ HasMore(page, next)
          BY <1>7, <4>1
        <4>3. \A n \in S : n <= next.anchor
          <5>1. \A n \in S : n <= Newest(page)
            BY <1>2, <3>2, PageEnds
          <5>2. next.anchor = IF cursor.anchor = 0 THEN Newest(page) ELSE cursor.anchor
            BY <4>1
          <5> QED
            BY <1>2, <1>4, <5>1, <5>2
        <4> HIDE DEF next
        <4> QED
          BY <1>1, <3>2, <4>2, <4>3, WalkEnds
      <3> QED
        BY <3>1, <3>2
    <2>5. before' \subseteq shown'
      BY <1>1, <1>2, <2>4
    <2> QED
      BY <1>4, <1>5, <2>1, <2>2, <2>3, <2>5 DEF WalkInv
  <1>8. CASE more
    <2>1. cursor' = next /\ walking'
      BY <1>1, <1>8
    <2>2. S # {} /\ page # {}
      BY <1>3, <1>8
    <2>3. /\ next.last = Oldest(page)
          /\ next.anchor = IF cursor.anchor = 0 THEN Newest(page) ELSE cursor.anchor
      BY <2>2
    <2>4. next \in [anchor : 0..Last, last : 0..Last]
      <3>1. Newest(page) \in 1..Last /\ Oldest(page) \in 1..Last
        BY <1>2, <1>3, <2>2, PageEnds
      <3>2. \A n \in 1..Last : n \in 0..Last
        BY ListingAssumption
      <3> QED
        BY <1>4, <2>2, <3>1, <3>2
    <2>5. Selected(next) # {}
      BY <1>8 DEF HasMore
    <2>6. Selected(cursor)' = Selected(next)
      BY <1>1, <2>1 DEF Selected
    <2> HIDE DEF next
    <2>7. /\ next.last # 0 /\ next.anchor # 0
          /\ \A n \in shown \cup page : next.last <= n /\ n <= next.anchor
          /\ \A n \in before : n <= next.anchor
          /\ \A n \in before : next.last <= n => n \in shown \cup page
      BY <1>1, <2>2, <2>3, <2>4, WalkGoesOn
    <2>8. ListingTypeOK'
      BY <1>1, <1>4, <1>6, <2>1, <2>4 DEF ListingTypeOK
    <2> QED
      BY <1>1, <1>5, <2>1, <2>5, <2>6, <2>7, <2>8 DEF WalkInv
  <1> QED
    BY <1>7, <1>8

LEMMA WalkNext == WalkInv /\ [ListingNext]_listingVars => WalkInv'
  <1> SUFFICES ASSUME WalkInv, [ListingNext]_listingVars PROVE WalkInv'
    OBVIOUS
  <1>1. CASE UNCHANGED listingVars
    BY <1>1 DEF listingVars, WalkInv, ListingTypeOK, Selected
  <1> QED
    BY <1>1, WalkStores, WalkPages DEF ListingNext

\* For any number of receipts and any page size a walk shows what was stored when it began, once each, nothing
\* that is newer than its first page, and gets a cursor only for a page with something on it, while other
\* commands store receipts between its queries (receipts.Store.ListPage).
THEOREM WalkShowsAll == ListingSpec => []WalkIsASnapshot
  <1>1. WalkInv => WalkIsASnapshot
    BY DEF WalkInv, WalkIsASnapshot
  <1> QED
    BY <1>1, WalkBegins, WalkNext, PTL DEF ListingSpec

\* What the cursor of a walk says of the receipts that were shown.
THEOREM WalkTyped == ListingSpec => [](WalkInv /\ ListingTypeOK)
  <1>1. WalkInv => ListingTypeOK
    BY DEF WalkInv
  <1> QED
    BY <1>1, WalkBegins, WalkNext, PTL DEF ListingSpec

-----------------------------------------------------------------------------
(* OriginalLookup: what was read stands for what the thread holds.          *)

Elements(s) == { s[n] : n \in DOMAIN s }

\* The indexed search has read, or still has to read, every occurrence it found.
HitsInv ==
    /\ step = "search" => items = <<>> /\ hits = <<>> /\ read = {}
    /\ Elements(hits) \subseteq 1..Len(thread)
    /\ step = "read" => horizon \subseteq read \cup Elements(hits)
    /\ step = "read" => \A i \in read : thread[i] \in Elements(items)

\* The scan has read a beginning of the thread, and all there was when it has ended.
ScanInv ==
    /\ step = "history" /\ items # <<>> => horizon = 1..began
    /\ step = "resolve" => horizon = 1..began /\ 1..began \subseteq DOMAIN items
    /\ step = "resolve" => \A n \in 1..began : items[n] = thread[n]

FoundInv ==
    /\ horizon \subseteq 1..Len(thread) /\ began <= Len(thread)
    /\ read \subseteq 1..Len(thread)
    /\ result # "none" => step = "done"

LookupInv == LookupTypeOK /\ HitsInv /\ ScanInv /\ FoundInv /\ LookupIsSound

LEMMA LookupBegins == LookupInit => LookupInv
  <1> SUFFICES ASSUME LookupInit PROVE LookupInv
    OBVIOUS
  <1>1. /\ thread = <<>> /\ indexed = {} /\ renames \in BOOLEAN /\ step \in {"search", "history"}
        /\ hits = <<>> /\ read = {} /\ items = <<>> /\ began = 0 /\ horizon = {} /\ result = "none"
    BY DEF LookupInit
  <1>2. /\ thread \in Seq(Kind) /\ Len(thread) = 0 /\ hits \in Seq(1..MaxTurns) /\ Len(hits) = 0
        /\ items \in Seq(Kind) /\ Elements(hits) = {}
    BY <1>1 DEF Elements
  <1>3. Cardinality(read) = 0
    BY <1>1, FS_EmptySet
  <1>4. {MaxTurns, MaxHits, MaxReads} \subseteq Nat
    BY LookupAssumption
  <1>5. LookupTypeOK
    BY <1>1, <1>2, <1>3, <1>4 DEF LookupTypeOK, Results
  <1>6. HitsInv /\ ScanInv /\ FoundInv
    BY <1>1, <1>2 DEF HitsInv, ScanInv, FoundInv
  <1>7. LookupIsSound
    BY <1>1 DEF LookupIsSound, NotFoundIsProof, PickedIsTheOnlyOne, Kind
  <1> QED
    BY <1>5, <1>6, <1>7 DEF LookupInv

\* The thread only grows, and nothing that was read of it changes.
LEMMA LookupGrows == LookupInv /\ Grow => LookupInv'
  <1> SUFFICES ASSUME LookupInv, Grow PROVE LookupInv'
    OBVIOUS
  <1>1. PICK k \in Kind : thread' = Append(thread, k)
    BY DEF Grow
  <1>2. UNCHANGED <<indexed, renames, step, hits, read, items, result, began, horizon>> /\ Len(thread) < MaxTurns
    BY DEF Grow, lookup, seen
  <1>3. thread \in Seq(Kind) /\ Len(thread) \in Nat
    BY LenProperties DEF LookupInv, LookupTypeOK
  <1>4. /\ thread' \in Seq(Kind) /\ Len(thread') = Len(thread) + 1
        /\ \A i \in 1..Len(thread) : thread'[i] = thread[i]
    BY <1>1, <1>3, AppendProperties
  <1>5. \A S : S \subseteq 1..Len(thread) => S \subseteq 1..Len(thread')
    BY <1>3, <1>4
  <1>6. LookupTypeOK'
    <2>1. Len(thread') <= MaxTurns
      BY <1>2, <1>3, <1>4, LookupAssumption
    <2> QED
      BY <1>2, <1>4, <1>5, <2>1 DEF LookupInv, LookupTypeOK
  <1>7. HitsInv'
    <2>1. Elements(hits)' = Elements(hits) /\ Elements(items)' = Elements(items)
      BY <1>2 DEF Elements
    <2> QED
      BY <1>2, <1>4, <1>5, <2>1 DEF LookupInv, HitsInv, FoundInv
  <1>8. began \in Nat /\ began <= Len(thread)
    BY DEF LookupInv, LookupTypeOK, FoundInv
  <1>9. \A n \in 1..began : n \in 1..Len(thread)
    BY <1>3, <1>8
  <1>10. ScanInv'
    BY <1>2, <1>4, <1>9 DEF LookupInv, ScanInv
  <1>11. FoundInv'
    <2>1. began <= Len(thread')
      BY <1>3, <1>4, <1>8
    <2> QED
      BY <1>2, <1>5, <2>1 DEF LookupInv, FoundInv
  <1>12. LookupIsSound'
    <2>1. horizon \subseteq 1..Len(thread)
      BY DEF LookupInv, FoundInv
    <2> QED
      BY <1>2, <1>4, <1>9, <2>1 DEF LookupInv, LookupIsSound, NotFoundIsProof, PickedIsTheOnlyOne, Addressed
  <1> QED
    BY <1>6, <1>7, <1>10, <1>11, <1>12 DEF LookupInv

LEMMA LookupIndexes == LookupInv /\ Index => LookupInv'
  <1> SUFFICES ASSUME LookupInv, Index PROVE LookupInv'
    OBVIOUS
  <1>1. UNCHANGED <<thread, renames, step, hits, read, items, result, began, horizon>>
    BY DEF Index, lookup, seen
  <1>2. PICK i \in DOMAIN thread : indexed' = indexed \cup {i}
    BY DEF Index
  <1>3. DOMAIN thread = 1..Len(thread)
    BY LenProperties DEF LookupInv, LookupTypeOK
  <1>4. LookupTypeOK'
    BY <1>1, <1>2, <1>3 DEF LookupInv, LookupTypeOK
  <1>5. HitsInv' /\ ScanInv' /\ FoundInv'
    BY <1>1 DEF LookupInv, HitsInv, ScanInv, FoundInv, Elements
  <1>6. LookupIsSound'
    BY <1>1 DEF LookupInv, LookupIsSound, NotFoundIsProof, PickedIsTheOnlyOne, Addressed
  <1> QED
    BY <1>4, <1>5, <1>6 DEF LookupInv

\* An answer changes nothing else, so that it is sound if what was read proves it.
LEMMA AnswerIsSound ==
    ASSUME LookupInv, NEW what \in Results, Answer(what),
           what = "notFound" => \A i \in 1..began : ~Addressed(thread[i]),
           what \in Kind => \A i \in horizon : Addressed(thread[i]) => thread[i] = what
    PROVE  LookupInv'
  <1>1. /\ step' = "done" /\ result' = what
        /\ UNCHANGED <<thread, indexed, renames, hits, read, items, began, horizon>>
    BY DEF Answer, world, seen
  <1>2. LookupTypeOK'
    BY <1>1 DEF LookupInv, LookupTypeOK
  <1>3. HitsInv' /\ ScanInv' /\ FoundInv'
    BY <1>1 DEF LookupInv, HitsInv, ScanInv, FoundInv, Elements
  <1>4. LookupIsSound'
    BY <1>1 DEF LookupIsSound, NotFoundIsProof, PickedIsTheOnlyOne, Addressed
  <1> QED
    BY <1>2, <1>3, <1>4 DEF LookupInv

LEMMA AnswersIncomplete == LookupInv /\ Answer("incomplete") => LookupInv'
  <1>1. "incomplete" \in Results /\ "incomplete" # "notFound" /\ "incomplete" \notin Kind
    BY DEF Results, Kind
  <1> QED
    BY <1>1, AnswerIsSound

LEMMA AnswersConflict == LookupInv /\ Answer("conflict") => LookupInv'
  <1>1. "conflict" \in Results /\ "conflict" # "notFound" /\ "conflict" \notin Kind
    BY DEF Results, Kind
  <1> QED
    BY <1>1, AnswerIsSound

LEMMA KindFinite == IsFiniteSet(Kind)
  <1>1. IsFiniteSet({"original"})
    BY FS_Singleton
  <1>2. IsFiniteSet({"original"} \cup {"twin"})
    BY <1>1, FS_AddElement
  <1>3. IsFiniteSet(({"original"} \cup {"twin"}) \cup {"renamed"})
    BY <1>2, FS_AddElement
  <1>4. IsFiniteSet((({"original"} \cup {"twin"}) \cup {"renamed"}) \cup {"ancestor"})
    BY <1>3, FS_AddElement
  <1>5. IsFiniteSet(((({"original"} \cup {"twin"}) \cup {"renamed"}) \cup {"ancestor"}) \cup {"other"})
    BY <1>4, FS_AddElement
  <1>6. Kind = ((({"original"} \cup {"twin"}) \cup {"renamed"}) \cup {"ancestor"}) \cup {"other"}
    BY DEF Kind
  <1> QED
    BY <1>5, <1>6

\* If one kind of envelope was found, everything found is of that kind.
LEMMA OneFound ==
    ASSUME LookupInv, Cardinality(Found(items)) = 1, NEW k \in Found(items)
    PROVE  k \in Kind /\ Found(items) = {k}
  <1>1. Found(items) \subseteq Kind
    <2>1. items \in Seq(Kind)
      BY DEF LookupInv, LookupTypeOK
    <2>2. \A n \in DOMAIN items : items[n] \in Kind
      BY <2>1, LenProperties
    <2> QED
      BY <2>2 DEF Found
  <1>2. IsFiniteSet(Found(items))
    BY <1>1, KindFinite, FS_Subset
  <1>3. \E x : Found(items) = {x}
    BY <1>2, FS_Singleton
  <1> QED
    BY <1>1, <1>3

LEMMA SearchGivesWay == LookupInv /\ SearchUnsupported => LookupInv'
  <1> SUFFICES ASSUME LookupInv, SearchUnsupported PROVE LookupInv'
    OBVIOUS
  <1>1. /\ step = "search" /\ step' = "history" /\ items = <<>>
        /\ UNCHANGED <<thread, indexed, renames, hits, read, items, result, began, horizon>>
    BY DEF SearchUnsupported, world, seen, LookupInv, HitsInv
  <1>2. LookupTypeOK'
    BY <1>1 DEF LookupInv, LookupTypeOK
  <1>3. HitsInv' /\ ScanInv' /\ FoundInv'
    BY <1>1 DEF LookupInv, HitsInv, ScanInv, FoundInv, Elements
  <1>4. LookupIsSound'
    BY <1>1 DEF LookupInv, LookupIsSound, NotFoundIsProof, PickedIsTheOnlyOne, Addressed
  <1> QED
    BY <1>2, <1>3, <1>4 DEF LookupInv

LEMMA SearchFinds == LookupInv /\ Search => LookupInv'
  <1> SUFFICES ASSUME LookupInv, Search PROVE LookupInv'
    OBVIOUS
  <1>1. /\ step = "search" /\ step' = "read" /\ began' = Len(thread) /\ horizon' = Matches
        /\ UNCHANGED <<thread, indexed, renames, read, items, result>>
        /\ read = {} /\ hits' \in Hits
    BY DEF Search, world, LookupInv, HitsInv
  <1>2. Matches \subseteq 1..Len(thread) /\ Len(thread) \in Nat /\ Len(thread) <= MaxTurns
    BY LenProperties DEF LookupInv, LookupTypeOK, Matches
  <1>3. PICK n \in 0..MaxHits : hits' \in [1..n -> Matches]
    BY <1>1 DEF Hits
  <1>4. \A i \in Matches : \E m \in DOMAIN hits' : hits'[m] = i
    BY <1>1 DEF Hits
  <1>5. n \in Nat /\ n <= MaxHits
    BY LookupAssumption
  <1>6. Matches \subseteq 1..MaxTurns
    BY <1>2, LookupAssumption
  <1>7. hits' \in Seq(1..MaxTurns) /\ Len(hits') <= MaxHits
    <2>1. hits' \in [1..n -> 1..MaxTurns]
      BY <1>3, <1>6
    <2>2. hits' \in Seq(1..MaxTurns)
      BY <1>5, <2>1, SeqDef
    <2>3. Len(hits') = n
      <3>1. 1..Len(hits') = 1..n /\ Len(hits') \in Nat
        BY <2>1, <2>2, LenProperties
      <3> QED
        BY <1>5, <3>1
    <2> QED
      BY <1>5, <2>2, <2>3
  <1>8. Elements(hits)' = Matches
    BY <1>3, <1>4 DEF Elements
  <1>9. result = "none" /\ result' = "none"
    BY <1>1 DEF LookupInv, FoundInv
  <1>10. LookupTypeOK'
    <2>1. began' \in 0..MaxTurns
      BY <1>1, <1>2, LookupAssumption
    <2> QED
      BY <1>1, <1>6, <1>7, <2>1 DEF LookupInv, LookupTypeOK
  <1>11. HitsInv' /\ ScanInv'
    BY <1>1, <1>2, <1>8 DEF HitsInv, ScanInv
  <1>12. FoundInv'
    BY <1>1, <1>2, <1>9 DEF FoundInv
  <1>13. LookupIsSound'
    BY <1>9 DEF LookupIsSound, NotFoundIsProof, PickedIsTheOnlyOne, Kind
  <1> QED
    BY <1>10, <1>11, <1>12, <1>13 DEF LookupInv

\* What a hit names is read before the hit is dropped.
LEMMA HitsShrink ==
    ASSUME LookupInv, hits # <<>>
    PROVE  /\ Head(hits) \in 1..Len(thread) /\ Head(hits) \in 1..MaxTurns
           /\ Tail(hits) \in Seq(1..MaxTurns) /\ Len(Tail(hits)) <= MaxHits
           /\ Elements(Tail(hits)) \subseteq Elements(hits)
           /\ Elements(hits) \subseteq {Head(hits)} \cup Elements(Tail(hits))
  <1>1. hits \in Seq(1..MaxTurns) /\ Len(hits) <= MaxHits
    BY DEF LookupInv, LookupTypeOK
  <1>2. /\ Tail(hits) \in Seq(1..MaxTurns) /\ Len(Tail(hits)) = Len(hits) - 1
        /\ \A n \in 1..Len(Tail(hits)) : Tail(hits)[n] = hits[n + 1]
        /\ Head(hits) = hits[1]
    BY <1>1, HeadTailProperties
  <1>3. DOMAIN hits = 1..Len(hits) /\ DOMAIN Tail(hits) = 1..Len(Tail(hits)) /\ Len(hits) \in Nat /\ Len(hits) # 0
    BY <1>1, <1>2, LenProperties, EmptySeq
  <1>4. ASSUME NEW n \in DOMAIN Tail(hits) PROVE Tail(hits)[n] \in Elements(hits)
    <2>1. n + 1 \in 1..Len(hits) /\ Tail(hits)[n] = hits[n + 1]
      BY <1>2, <1>3
    <2> QED
      BY <1>3, <2>1 DEF Elements
  <1>5. ASSUME NEW n \in DOMAIN hits, hits[n] # Head(hits) PROVE hits[n] \in Elements(Tail(hits))
    <2>1. n # 1 /\ n \in 1..Len(hits)
      BY <1>2, <1>3, <1>5
    <2>2. n - 1 \in 1..Len(Tail(hits)) /\ n = (n - 1) + 1
      BY <1>2, <1>3, <2>1
    <2>3. Tail(hits)[n - 1] = hits[n]
      BY <1>2, <2>2
    <2> QED
      BY <1>3, <2>2, <2>3 DEF Elements
  <1>6. Head(hits) \in Elements(hits)
    <2>1. 1 \in DOMAIN hits
      BY <1>3
    <2> QED
      BY <1>2, <2>1 DEF Elements
  <1>7. Head(hits) \in 1..Len(thread)
    BY <1>6 DEF LookupInv, HitsInv
  <1>8. Head(hits) \in 1..MaxTurns
    <2>1. 1 \in 1..Len(hits)
      BY <1>3
    <2> QED
      BY <1>1, <1>2, <2>1, ElementOfSeq
  <1>9. Len(Tail(hits)) <= MaxHits
    BY <1>1, <1>2, <1>3, LookupAssumption
  <1>10. Elements(Tail(hits)) \subseteq Elements(hits)
    BY <1>4 DEF Elements
  <1>11. Elements(hits) \subseteq {Head(hits)} \cup Elements(Tail(hits))
    BY <1>5 DEF Elements
  <1> QED
    BY <1>2, <1>7, <1>8, <1>9, <1>10, <1>11

LEMMA LookupReads == LookupInv /\ ReadCandidate => LookupInv'
  <1> SUFFICES ASSUME LookupInv, ReadCandidate PROVE LookupInv'
    OBVIOUS
  <1> DEFINE i == Head(hits)
  <1>1. /\ step = "read" /\ hits # <<>> /\ hits' = Tail(hits)
        /\ UNCHANGED <<thread, indexed, renames, step, result, began, horizon>>
    BY DEF ReadCandidate, world, seen
  <1>2. \/ i \in read /\ UNCHANGED <<read, items>>
        \/ /\ i \notin read /\ Cardinality(read) < MaxReads
           /\ read' = read \cup {i} /\ items' = Append(items, thread[i])
    BY DEF ReadCandidate
  <1>3. /\ i \in 1..Len(thread) /\ i \in 1..MaxTurns
        /\ Tail(hits) \in Seq(1..MaxTurns) /\ Len(Tail(hits)) <= MaxHits
        /\ Elements(Tail(hits)) \subseteq Elements(hits)
        /\ Elements(hits) \subseteq {i} \cup Elements(Tail(hits))
    BY <1>1, HitsShrink
  <1>4. /\ read' = read \cup {i} /\ items' \in Seq(Kind)
        /\ Elements(items) \subseteq Elements(items')
        /\ \A j \in read' : thread[j] \in Elements(items')
    <2>1. \A j \in read : thread[j] \in Elements(items)
      BY <1>1 DEF LookupInv, HitsInv
    <2>2. CASE i \in read /\ UNCHANGED <<read, items>>
      BY <2>1, <2>2 DEF LookupInv, LookupTypeOK
    <2>3. CASE read' = read \cup {i} /\ items' = Append(items, thread[i])
      <3>1. items \in Seq(Kind) /\ thread[i] \in Kind
        BY <1>3, ElementOfSeq DEF LookupInv, LookupTypeOK
      <3>2. /\ items' \in Seq(Kind) /\ Len(items') = Len(items) + 1 /\ Len(items) \in Nat
            /\ \A n \in 1..Len(items) : items'[n] = items[n]
            /\ items'[Len(items) + 1] = thread[i]
        BY <2>3, <3>1, AppendProperties, LenProperties
      <3>3. DOMAIN items' = 1..(Len(items) + 1) /\ DOMAIN items = 1..Len(items)
        BY <3>1, <3>2, LenProperties
      <3>4. Elements(items) \subseteq Elements(items')
        <4> SUFFICES ASSUME NEW n \in DOMAIN items PROVE items[n] \in Elements(items')
          BY DEF Elements
        <4>1. n \in DOMAIN items' /\ items'[n] = items[n]
          BY <3>2, <3>3
        <4> QED
          BY <4>1 DEF Elements
      <3>5. thread[i] \in Elements(items')
        <4>1. Len(items) + 1 \in DOMAIN items'
          BY <3>2, <3>3
        <4> QED
          BY <3>2, <4>1 DEF Elements
      <3> QED
        BY <2>1, <2>3, <3>2, <3>4, <3>5
    <2> QED
      BY <1>2, <2>2, <2>3
  <1>5. read \subseteq 1..MaxTurns /\ Cardinality(read) <= MaxReads
    BY DEF LookupInv, LookupTypeOK
  <1>6. Cardinality(read') <= MaxReads
    <2>1. CASE i \in read
      <3>1. read' = read
        BY <1>4, <2>1
      <3> QED
        BY <1>5, <3>1
    <2>2. CASE i \notin read
      <3>1. IsFiniteSet(read) /\ Cardinality(read) \in Nat
        <4>1. MaxTurns \in Int /\ 1 \in Int
          BY LookupAssumption
        <4>2. IsFiniteSet(1..MaxTurns)
          BY <4>1, FS_Interval
        <4> QED
          BY <1>5, <4>2, FS_Subset, FS_CardinalityType
      <3>2. Cardinality(read') = Cardinality(read) + 1
        BY <1>4, <2>2, <3>1, FS_AddElement
      <3>3. Cardinality(read) < MaxReads
        BY <1>2, <2>2
      <3> QED
        BY <3>1, <3>2, <3>3, LookupAssumption
    <2> QED
      BY <2>1, <2>2
  <1>7. LookupTypeOK'
    BY <1>1, <1>3, <1>4, <1>5, <1>6 DEF LookupInv, LookupTypeOK
  <1>8. HitsInv'
    <2>1. horizon \subseteq read \cup Elements(hits) /\ Elements(hits) \subseteq 1..Len(thread)
      BY <1>1 DEF LookupInv, HitsInv
    <2>2. Elements(hits)' = Elements(Tail(hits)) /\ Elements(items)' = Elements(items')
      BY <1>1 DEF Elements
    <2> QED
      BY <1>1, <1>3, <1>4, <2>1, <2>2 DEF HitsInv
  <1>9. ScanInv' /\ FoundInv'
    <2>1. read \subseteq 1..Len(thread)
      BY DEF LookupInv, FoundInv
    <2> QED
      BY <1>1, <1>3, <1>4, <2>1 DEF LookupInv, ScanInv, FoundInv
  <1>10. LookupIsSound'
    BY <1>1 DEF LookupInv, LookupIsSound, NotFoundIsProof, PickedIsTheOnlyOne, Addressed
  <1> QED
    BY <1>7, <1>8, <1>9, <1>10 DEF LookupInv

LEMMA LookupResolves == LookupInv /\ ResolveCandidates => LookupInv'
  <1> SUFFICES ASSUME LookupInv, ResolveCandidates PROVE LookupInv'
    OBVIOUS
  <1>1. step = "read" /\ hits = <<>>
    BY DEF ResolveCandidates
  <1>2. CASE \E k \in Found(items) : Cardinality(Found(items)) = 1 /\ Answer(k)
    <2>1. PICK k \in Found(items) : Cardinality(Found(items)) = 1 /\ Answer(k)
      BY <1>2
    <2>2. k \in Kind /\ Found(items) = {k}
      BY <2>1, OneFound
    <2>3. \A j \in horizon : Addressed(thread[j]) => thread[j] = k
      <3> SUFFICES ASSUME NEW j \in horizon, Addressed(thread[j]) PROVE thread[j] \in Found(items)
        BY <2>2
      <3>1. j \in read
        BY <1>1 DEF LookupInv, HitsInv, Elements
      <3>2. thread[j] \in Elements(items)
        BY <1>1, <3>1 DEF LookupInv, HitsInv
      <3> QED
        BY <3>2 DEF Found, Elements
    <2>4. k \in Results /\ k # "notFound"
      BY <2>2 DEF Results, Kind
    <2> QED
      BY <2>1, <2>3, <2>4, AnswerIsSound
  <1> QED
    BY <1>2, AnswersConflict, AnswersIncomplete DEF ResolveCandidates

LEMMA LookupScans == LookupInv /\ ReadPage => LookupInv'
  <1> SUFFICES ASSUME LookupInv, ReadPage PROVE LookupInv'
    OBVIOUS
  <1> DEFINE to == Len(items) + PageSize
             end == IF to < Len(thread) THEN to ELSE Len(thread)
  <1>1. /\ step = "history" /\ items' = SubSeq(thread, 1, end)
        /\ step' = (IF to >= Len(thread) THEN "resolve" ELSE "history")
        /\ UNCHANGED <<thread, indexed, renames, hits, read, result>>
    BY DEF ReadPage, world
  <1>2. \/ items = <<>> /\ began' = Len(thread) /\ horizon' = DOMAIN thread
        \/ items # <<>> /\ began' = began /\ horizon' = horizon
    BY DEF ReadPage, seen
  <1>3. /\ thread \in Seq(Kind) /\ items \in Seq(Kind) /\ Len(thread) <= MaxTurns
        /\ DOMAIN thread = 1..Len(thread) /\ Len(thread) \in Nat /\ Len(items) \in Nat
    BY LenProperties DEF LookupInv, LookupTypeOK
  <1>4. /\ end \in Nat /\ end <= Len(thread) /\ (to >= Len(thread) => end = Len(thread))
    <2>1. PageSize \in Nat
      BY LookupAssumption
    <2>2. to \in Nat
      BY <1>3, <2>1
    <2>3. Len(thread) \in Nat
      BY <1>3
    <2> HIDE DEF to
    <2> QED
      BY <2>2, <2>3
  <1>5. /\ items' \in Seq(Kind) /\ Len(items') = end
        /\ \A n \in 1..end : items'[n] = thread[n]
    <2>1. \A n \in 1..end : thread[n] \in Kind
      BY <1>3, <1>4, ElementOfSeq
    <2> HIDE DEF end
    <2>2. /\ items' \in Seq(Kind)
          /\ Len(items') = IF 1 <= end THEN end - 1 + 1 ELSE 0
          /\ \A n \in 1..(end - 1 + 1) : items'[n] = thread[1 + n - 1]
      <3>1. 1 \in Int /\ end \in Int
        BY <1>4
      <3> QED
        BY <1>1, <2>1, <3>1, SubSeqProperties
    <2>3. Len(items') = end
      BY <1>4, <2>2
    <2>4. ASSUME NEW n \in 1..end PROVE items'[n] = thread[n]
      <3>1. end - 1 + 1 = end
        BY <1>4
      <3>2. n \in 1..(end - 1 + 1)
        BY <3>1
      <3>3. items'[n] = thread[1 + n - 1]
        BY <2>2, <3>2
      <3>4. 1 + n - 1 = n
        BY <1>4
      <3> QED
        BY <3>3, <3>4
    <2> QED
      BY <2>2, <2>3, <2>4
  <1>6. /\ began' \in Nat /\ began' <= Len(thread) /\ horizon' = 1..began'
    BY <1>1, <1>2, <1>3 DEF LookupInv, LookupTypeOK, ScanInv, FoundInv
  <1> HIDE DEF end
  <1>7. DOMAIN items' = 1..end
    BY <1>5, LenProperties
  <1>8. ScanInv'
    <2>1. ASSUME step' = "resolve" PROVE 1..began' \subseteq 1..end
      <3>1. end = Len(thread)
        BY <1>1, <1>4, <2>1
      <3> QED
        BY <1>4, <1>6, <3>1
    <2> QED
      BY <1>1, <1>5, <1>6, <1>7, <2>1 DEF ScanInv
  <1>9. result = "none" /\ result' = "none"
    BY <1>1 DEF LookupInv, FoundInv
  <1>10. FoundInv' /\ HitsInv'
    <2>1. horizon' \subseteq 1..Len(thread)
      BY <1>3, <1>6
    <2>2. Elements(hits)' = Elements(hits)
      BY <1>1 DEF Elements
    <2> QED
      BY <1>1, <1>6, <1>9, <2>1, <2>2 DEF LookupInv, FoundInv, HitsInv
  <1>11. LookupTypeOK'
    <2>1. began' \in 0..MaxTurns /\ horizon' \subseteq 1..MaxTurns
      <3>1. MaxTurns \in Nat
        BY LookupAssumption
      <3> QED
        BY <1>3, <1>6, <3>1
    <2> QED
      BY <1>1, <1>5, <2>1 DEF LookupInv, LookupTypeOK
  <1>12. LookupIsSound'
    BY <1>9 DEF LookupIsSound, NotFoundIsProof, PickedIsTheOnlyOne, Kind
  <1> QED
    BY <1>8, <1>10, <1>11, <1>12 DEF LookupInv

LEMMA HistoryResolves == LookupInv /\ ResolveHistory => LookupInv'
  <1> SUFFICES ASSUME LookupInv, ResolveHistory PROVE LookupInv'
    OBVIOUS
  <1>1. step = "resolve"
    BY DEF ResolveHistory
  <1>2. horizon = 1..began /\ \A n \in 1..began : n \in DOMAIN items /\ items[n] = thread[n]
    BY <1>1 DEF LookupInv, ScanInv
  <1>3. \A n \in 1..began : Addressed(thread[n]) => thread[n] \in Found(items)
    <2> SUFFICES ASSUME NEW n \in 1..began, Addressed(thread[n]) PROVE thread[n] \in Found(items)
      OBVIOUS
    <2>1. thread[n] \in { items[m] : m \in DOMAIN items }
      BY <1>2
    <2> QED
      BY <2>1 DEF Found
  <1>4. CASE \E k \in Found(items) : Cardinality(Found(items)) = 1 /\ Answer(k)
    <2>1. PICK k \in Found(items) : Cardinality(Found(items)) = 1 /\ Answer(k)
      BY <1>4
    <2>2. k \in Kind /\ Found(items) = {k}
      BY <2>1, OneFound
    <2>3. \A j \in horizon : Addressed(thread[j]) => thread[j] = k
      BY <1>2, <1>3, <2>2
    <2>4. k \in Results /\ k # "notFound"
      BY <2>2 DEF Results, Kind
    <2> QED
      BY <2>1, <2>3, <2>4, AnswerIsSound
  <1>5. CASE Found(items) = {} /\ Answer("notFound")
    <2>1. "notFound" \in Results /\ "notFound" \notin Kind
      BY DEF Results, Kind
    <2>2. \A n \in 1..began : ~Addressed(thread[n])
      BY <1>3, <1>5
    <2> QED
      BY <1>5, <2>1, <2>2, AnswerIsSound
  <1> QED
    BY <1>4, <1>5, AnswersConflict DEF ResolveHistory

LEMMA LookupStep == LookupInv /\ [LookupNext]_lookupVars => LookupInv'
  <1> SUFFICES ASSUME LookupInv, [LookupNext]_lookupVars PROVE LookupInv'
    OBVIOUS
  <1>1. CASE UNCHANGED lookupVars
    <2>1. UNCHANGED <<thread, indexed, renames, step, hits, read, items, result, began, horizon>>
      BY <1>1 DEF lookupVars, world, seen
    <2>2. LookupTypeOK' /\ HitsInv' /\ ScanInv' /\ FoundInv'
      BY <2>1 DEF LookupInv, LookupTypeOK, HitsInv, ScanInv, FoundInv, Elements
    <2>3. LookupIsSound'
      BY <2>1 DEF LookupInv, LookupIsSound, NotFoundIsProof, PickedIsTheOnlyOne, Addressed
    <2> QED
      BY <2>2, <2>3 DEF LookupInv
  <1>2. CASE SearchFails \/ SearchTooMany \/ ReadFails \/ HistoryFails
    BY <1>2, AnswersIncomplete DEF SearchFails, SearchTooMany, ReadFails, HistoryFails
  <1> QED
    BY <1>1, <1>2, LookupGrows, LookupIndexes, SearchGivesWay, SearchFinds, LookupReads, LookupResolves,
       LookupScans, HistoryResolves DEF LookupNext

\* For any thread, page size and limits: a lookup says "not found" only if the thread held no such original when the
\* lookup began, and picks an envelope only if nothing else that it could see answers to the reference, while the
\* thread grows and its index lags (runtime/original.go, original_search.go).
THEOREM LookupSound == LookupSpec => []LookupIsSound
  <1>1. LookupInv => LookupIsSound
    BY DEF LookupInv
  <1> QED
    BY <1>1, LookupBegins, LookupStep, PTL DEF LookupSpec

\* Every variable of a lookup has values of its type; it reads no more candidates than it may.
THEOREM LookupTyped == LookupSpec => []LookupTypeOK
  <1>1. LookupInv => LookupTypeOK
    BY DEF LookupInv
  <1> QED
    BY <1>1, LookupBegins, LookupStep, PTL DEF LookupSpec
-----------------------------------------------------------------------------
(* Registries: three files under three locks.                               *)

Removal == [alias : Alias, id : EndpointID, by : Alias \cup EndpointID]
Entry == {<<>>} \cup Configured \cup Identity \cup Registered \cup Removal \cup [store : Store, ep : EndpointID]
Writes == {"add", "remove", "ensure", "register"}
Held == {"load", "save", "unlock"}
Asks == {"lock", "load", "save"}
Run == [op : Writes \cup {"idle", "resolve"}, entry : Entry, doc : SUBSET Entry, ok : BOOLEAN,
        at : Held \cup {"idle", "lock", "read", "open"}]

(* A call carries an entry of the kind its operation wants. *)
Fits(r) ==
    /\ r.op = "idle" <=> r.at = "idle"
    /\ r.op = "resolve" <=> r.at \in {"read", "open"}
    /\ r.op = "add" => r.entry \in Configured
    /\ r.op = "remove" => r.entry \in Removal
    /\ r.op = "ensure" => r.entry \in Identity
    /\ r.op = "register" => r.entry \in Registered

FilesTyped ==
    /\ files \in [File -> SUBSET Entry]
    /\ files["config"] \subseteq Configured /\ files["idents"] \subseteq Identity /\ files["stores"] \subseteq Registered
    /\ place \in [CodexHome -> {"real"} \cup Places] /\ holds \in [Dir -> Store] /\ used \subseteq EndpointID
CallsTyped == proc \in [Proc -> Run] /\ \A p \in Proc : Fits(proc[p])

(* A lock is held by the one process that works on its file, and what that process has read is still there. *)
LocksInv ==
    /\ lock \in [File -> Proc \cup {"none"}]
    /\ \A p \in Proc : proc[p].at \in Held => lock[FileOf[proc[p].op]] = p
    /\ \A f \in File : lock[f] # "none" => FileOf[proc[lock[f]].op] = f /\ proc[lock[f]].at \in Held
DocInv == \A p \in Proc : proc[p].at = "save" => proc[p].doc = files[FileOf[proc[p].op]]

(* An ID that is still to be stored is in nobody else's hands; what is to be removed is known by one name. *)
Brings(p) == proc[p].op \in {"add", "ensure"} /\ proc[p].at \in Asks
Drops(p) == proc[p].op = "remove" /\ proc[p].at \in Asks
Named == files["config"] \cup files["idents"]
FreshInv ==
    /\ \A x \in Named : x.id \in used
    /\ \A p \in Proc : Brings(p) => proc[p].entry.id \in used /\ \A x \in Named : x.id # proc[p].entry.id
    /\ \A p, q \in Proc : Brings(p) /\ Brings(q) /\ p # q => proc[p].entry.id # proc[q].entry.id
DropInv == \A p \in Proc : Drops(p) =>
    /\ proc[p].entry.id \in used
    /\ \A x \in files["config"] : x.id = proc[p].entry.id => x.alias = proc[p].entry.alias
    /\ \A q \in Proc : Brings(q) => proc[q].entry.id # proc[p].entry.id

(* What was said to be stored is there. *)
ToldInv == \A a \in acked : \E f \in File : \E e \in files[f] : a = <<f, e>>

RegistryInv == FilesTyped /\ CallsTyped /\ LocksInv /\ DocInv /\ FreshInv /\ DropInv /\ ToldInv /\ Valid /\ ResolvesTheStore

LEMMA NoBody == "none" \notin Proc /\ First \subseteq Configured
  BY RegistryAssumption DEF Configured

LEMMA FileOfCall ==
    /\ FileOf["add"] = "config" /\ FileOf["remove"] = "config" /\ FileOf["ensure"] = "idents"
    /\ FileOf["register"] = "stores"
    /\ \A o \in Writes : FileOf[o] \in File
  BY DEF FileOf, Writes, File

LEMMA IdleIsARun ==
    /\ Idle \in Run /\ Fits(Idle)
    /\ Idle.op = "idle" /\ Idle.at = "idle" /\ Idle.entry = <<>> /\ Idle.doc = {} /\ Idle.ok = FALSE
  BY DEF Idle, Run, Fits, Entry, Held

\* Only a call that writes asks for a lock or holds one.
LEMMA WritersWrite ==
    ASSUME CallsTyped, NEW p \in Proc, proc[p].at \in Held \cup {"lock"}
    PROVE  proc[p].op \in Writes /\ FileOf[proc[p].op] \in File
  <1>1. proc[p] \in Run /\ Fits(proc[p])
    BY DEF CallsTyped
  <1>2. proc[p].op \in Writes \cup {"idle", "resolve"}
    BY <1>1 DEF Run
  <1>3. proc[p].at # "idle" /\ proc[p].at \notin {"read", "open"}
    BY DEF Held
  <1>4. proc[p].op \in Writes
    BY <1>1, <1>2, <1>3 DEF Fits
  <1> QED
    BY <1>4, FileOfCall

LEMMA CallMoves ==
    ASSUME CallsTyped, NEW p \in Proc, NEW r, r \in Run, Fits(r), proc' = [proc EXCEPT ![p] = r]
    PROVE  CallsTyped' /\ proc'[p] = r /\ \A q \in Proc \ {p} : proc'[q] = proc[q]
  <1>1. proc' \in [Proc -> Run] /\ proc'[p] = r /\ \A q \in Proc \ {p} : proc'[q] = proc[q]
    BY DEF CallsTyped
  <1>2. ASSUME NEW q \in Proc PROVE Fits(proc'[q])
    <2>1. CASE q = p
      BY <1>1, <2>1
    <2>2. CASE q # p
      BY <1>1, <2>2 DEF CallsTyped
    <2> QED
      BY <2>1, <2>2
  <1> QED
    BY <1>1, <1>2 DEF CallsTyped

\* A call that asks for its lock, or works under it, goes on to its next step.
LEMMA CallGoesOn ==
    ASSUME CallsTyped, NEW p \in Proc, proc[p].at \in Asks,
           NEW r, r \in Run, r.op = proc[p].op, r.entry = proc[p].entry, r.at \in Held, proc' = [proc EXCEPT ![p] = r]
    PROVE  CallsTyped' /\ proc'[p] = r /\ \A q \in Proc \ {p} : proc'[q] = proc[q]
  <1>1. Fits(proc[p])
    BY DEF CallsTyped
  <1>2. /\ proc[p].at # "idle" /\ proc[p].at \notin {"read", "open"}
        /\ r.at # "idle" /\ r.at \notin {"read", "open"}
    BY DEF Asks, Held
  <1>3. Fits(r)
    BY <1>1, <1>2 DEF Fits
  <1> QED
    BY <1>3, CallMoves

LEMMA CallGoesTo ==
    ASSUME CallsTyped, NEW p \in Proc, proc[p].at \in Asks, NEW at \in Held, To(p, at)
    PROVE  /\ CallsTyped'
           /\ proc'[p].at = at /\ proc'[p].op = proc[p].op /\ proc'[p].entry = proc[p].entry
           /\ \A q \in Proc \ {p} : proc'[q] = proc[q]
  <1> DEFINE r == [proc[p] EXCEPT !.at = at]
  <1>1. proc[p] \in Run
    BY DEF CallsTyped
  <1>2. r \in Run /\ r.at = at /\ r.op = proc[p].op /\ r.entry = proc[p].entry
    BY <1>1 DEF Run
  <1>3. proc' = [proc EXCEPT ![p] = r]
    BY DEF To
  <1> HIDE DEF r
  <1>4. CallsTyped' /\ proc'[p] = r /\ \A q \in Proc \ {p} : proc'[q] = proc[q]
    BY <1>2, <1>3, CallGoesOn
  <1> QED
    BY <1>2, <1>4

\* What is pending stays pending, or is given up, and no file changes: the names stay apart.
LEMMA NoNewNames ==
    ASSUME FreshInv, DropInv, files' = files, used' = used,
           \A p \in Proc : /\ Brings(p)' => Brings(p) /\ proc'[p].entry = proc[p].entry
                           /\ Drops(p)' => Drops(p) /\ proc'[p].entry = proc[p].entry
    PROVE  FreshInv' /\ DropInv'
  <1>1. Named' = Named
    BY DEF Named
  <1>2. FreshInv'
    BY <1>1 DEF FreshInv
  <1>3. DropInv'
    BY DEF DropInv
  <1> QED
    BY <1>2, <1>3

LEMMA NamesKept ==
    ASSUME FreshInv, DropInv, files' = files, used' = used,
           \A p \in Proc : proc'[p].at \in Asks =>
               proc[p].at \in Asks /\ proc'[p].op = proc[p].op /\ proc'[p].entry = proc[p].entry
    PROVE  FreshInv' /\ DropInv'
  <1>1. \A p \in Proc : /\ Brings(p)' => Brings(p) /\ proc'[p].entry = proc[p].entry
                        /\ Drops(p)' => Drops(p) /\ proc'[p].entry = proc[p].entry
    BY DEF Brings, Drops
  <1> QED
    BY <1>1, NoNewNames

\* No file changes, and nobody is told anything.
LEMMA DocumentsKept ==
    ASSUME FilesTyped, ToldInv, Valid, files' = files, default' = default, acked' = acked,
           place' = place, holds' = holds, used' = used
    PROVE  FilesTyped' /\ ToldInv' /\ Valid'
  <1>1. FilesTyped'
    BY DEF FilesTyped
  <1>2. ToldInv'
    BY DEF ToldInv
  <1>3. Valid'
    BY DEF Valid, ValidConfig, ValidRegistry, ValidIdentities
  <1> QED
    BY <1>1, <1>2, <1>3

LEMMA DocsKept ==
    ASSUME DocInv, files' = files, NEW p \in Proc, proc'[p].at # "save", \A q \in Proc \ {p} : proc'[q] = proc[q]
    PROVE  DocInv'
  BY DEF DocInv

LEMMA LocksFreed ==
    ASSUME CallsTyped, LocksInv, NEW p \in Proc, proc'[p].at \notin Held, \A q \in Proc \ {p} : proc'[q] = proc[q],
           lock' = [f \in File |-> IF lock[f] = p THEN "none" ELSE lock[f]]
    PROVE  LocksInv'
  <1>1. lock' \in [File -> Proc \cup {"none"}]
    BY DEF LocksInv
  <1>2. ASSUME NEW q \in Proc, proc'[q].at \in Held PROVE lock'[FileOf[proc'[q].op]] = q
    <2>1. q # p /\ proc'[q] = proc[q]
      BY <1>2
    <2>2. lock[FileOf[proc[q].op]] = q
      BY <1>2, <2>1 DEF LocksInv
    <2>3. FileOf[proc[q].op] \in File
      BY <1>2, <2>1, WritersWrite
    <2> QED
      BY <2>1, <2>2, <2>3
  <1>3. ASSUME NEW f \in File, lock'[f] # "none" PROVE FileOf[proc'[lock'[f]].op] = f /\ proc'[lock'[f]].at \in Held
    <2>1. lock'[f] = lock[f] /\ lock[f] # p /\ lock[f] # "none"
      BY <1>3, NoBody
    <2>2. lock[f] \in Proc
      BY <2>1 DEF LocksInv
    <2>3. proc'[lock[f]] = proc[lock[f]]
      BY <2>1, <2>2
    <2> QED
      BY <2>1, <2>3 DEF LocksInv
  <1> QED
    BY <1>1, <1>2, <1>3 DEF LocksInv

LEMMA LocksKept ==
    ASSUME LocksInv, lock' = lock, NEW p \in Proc, \A q \in Proc \ {p} : proc'[q] = proc[q],
           proc[p].at \in Held <=> proc'[p].at \in Held, proc'[p].at \in Held => proc'[p].op = proc[p].op
    PROVE  LocksInv'
  <1>1. ASSUME NEW q \in Proc PROVE /\ proc[q].at \in Held <=> proc'[q].at \in Held
                                    /\ proc'[q].at \in Held => proc'[q].op = proc[q].op
    <2>1. CASE q = p
      BY <2>1
    <2>2. CASE q # p
      BY <2>2
    <2> QED
      BY <2>1, <2>2
  <1>2. ASSUME NEW q \in Proc, proc'[q].at \in Held PROVE lock'[FileOf[proc'[q].op]] = q
    BY <1>1, <1>2 DEF LocksInv
  <1>3. ASSUME NEW f \in File, lock'[f] # "none" PROVE FileOf[proc'[lock'[f]].op] = f /\ proc'[lock'[f]].at \in Held
    <2>1. lock[f] \in Proc /\ FileOf[proc[lock[f]].op] = f /\ proc[lock[f]].at \in Held
      BY <1>3 DEF LocksInv
    <2> QED
      BY <1>1, <2>1
  <1> QED
    BY <1>2, <1>3 DEF LocksInv

\* Two processes never work on one file at once.
LEMMA AloneOnAFile ==
    ASSUME LocksInv, NEW p \in Proc, NEW q \in Proc, proc[p].at \in Held, proc[q].at \in Held, p # q
    PROVE  FileOf[proc[p].op] # FileOf[proc[q].op]
  BY DEF LocksInv

LEMMA LocksTaken ==
    ASSUME RegistryInv, NEW p \in Proc, Lock(p)
    PROVE  RegistryInv'
  <1> USE DEF RegistryInv
  <1> DEFINE f == FileOf[proc[p].op]
  <1>1. /\ proc[p].at = "lock" /\ lock[f] = "none" /\ lock' = [lock EXCEPT ![f] = p] /\ To(p, "load")
        /\ UNCHANGED <<files, default, place, holds, used, acked, found>>
    BY DEF Lock
  <1>2. proc[p].at \in Asks /\ proc[p].at \notin Held /\ "load" \in Held
    BY <1>1 DEF Asks, Held
  <1>3. /\ CallsTyped' /\ proc'[p].at = "load" /\ proc'[p].op = proc[p].op /\ proc'[p].entry = proc[p].entry
        /\ \A q \in Proc \ {p} : proc'[q] = proc[q]
    BY <1>1, <1>2, CallGoesTo
  <1>4. f \in File
    BY <1>1, WritersWrite
  <1>5. LocksInv'
    <2>1. lock \in [File -> Proc \cup {"none"}]
      BY DEF LocksInv
    <2>2. lock' \in [File -> Proc \cup {"none"}] /\ lock'[f] = p /\ \A g \in File \ {f} : lock'[g] = lock[g]
      BY <1>1, <1>4, <2>1
    <2>3. ASSUME NEW q \in Proc, proc'[q].at \in Held PROVE lock'[FileOf[proc'[q].op]] = q
      <3>1. CASE q = p
        BY <1>3, <2>2, <3>1
      <3>2. CASE q # p
        <4>1. proc'[q] = proc[q] /\ lock[FileOf[proc[q].op]] = q /\ FileOf[proc[q].op] \in File
          BY <1>3, <2>3, <3>2, WritersWrite DEF LocksInv
        <4>2. FileOf[proc[q].op] # f
          BY <1>1, <4>1, NoBody
        <4> QED
          BY <2>2, <4>1, <4>2
      <3> QED
        BY <3>1, <3>2
    <2>4. ASSUME NEW g \in File, lock'[g] # "none"
          PROVE  FileOf[proc'[lock'[g]].op] = g /\ proc'[lock'[g]].at \in Held
      <3>1. CASE g = f
        BY <1>2, <1>3, <2>2, <3>1
      <3>2. CASE g # f
        <4>1. lock'[g] = lock[g] /\ lock[g] \in Proc /\ FileOf[proc[lock[g]].op] = g /\ proc[lock[g]].at \in Held
          BY <2>1, <2>2, <2>4, <3>2 DEF LocksInv
        <4>2. lock[g] # p
          BY <1>2, <4>1
        <4> QED
          BY <1>3, <4>1, <4>2
      <3> QED
        BY <3>1, <3>2
    <2> QED
      BY <2>2, <2>3, <2>4 DEF LocksInv
  <1>6. DocInv'
    BY <1>1, <1>3, DocsKept
  <1>7. FreshInv' /\ DropInv'
    <2>1. \A q \in Proc : proc'[q].at \in Asks =>
              proc[q].at \in Asks /\ proc'[q].op = proc[q].op /\ proc'[q].entry = proc[q].entry
      BY <1>2, <1>3
    <2> QED
      BY <1>1, <2>1, NamesKept
  <1>8. FilesTyped' /\ ToldInv' /\ Valid'
    BY <1>1, DocumentsKept
  <1> QED
    BY <1>1, <1>3, <1>5, <1>6, <1>7, <1>8 DEF ResolvesTheStore

\* What a process loads is the whole document, as long as no home has vanished behind a link.
LEMMA LoadsAll ==
    ASSUME "vanished" \notin Places, FilesTyped, NEW f \in File
    PROVE  Usable(f) = files[f] /\ Usable(f) \in SUBSET Entry
  <1>1. \A x \in files["idents"] : place[x.home] # "vanished"
    <2>1. files["idents"] \subseteq Identity /\ place \in [CodexHome -> {"real"} \cup Places]
      BY DEF FilesTyped
    <2>2. ASSUME NEW x \in Identity PROVE place[x.home] # "vanished"
      <3>1. x.home \in CodexHome
        BY DEF Identity
      <3>2. place[x.home] \in {"real"} \cup Places
        BY <2>1, <3>1
      <3> QED
        BY <3>2
    <2> QED
      BY <2>1, <2>2
  <1>2. files[f] \in SUBSET Entry
    BY DEF FilesTyped
  <1> QED
    BY <1>1, <1>2 DEF Usable

LEMMA DocumentLoaded ==
    ASSUME "vanished" \notin Places, RegistryInv, NEW p \in Proc, Load(p)
    PROVE  RegistryInv'
  <1> USE DEF RegistryInv
  <1> DEFINE f == FileOf[proc[p].op]
  <1>1. proc[p].at = "load" /\ UNCHANGED <<files, default, lock, place, holds, used, acked, found>>
    BY DEF Load
  <1>2. proc[p].at \in Asks /\ proc[p].at \in Held /\ "save" \in Held /\ "unlock" \in Held
    BY <1>1 DEF Asks, Held
  <1>3. f \in File /\ Usable(f) = files[f] /\ Usable(f) \in SUBSET Entry
    BY <1>2, WritersWrite, LoadsAll
  <1>4. /\ CallsTyped' /\ proc'[p].at \in Held /\ proc'[p].op = proc[p].op /\ proc'[p].entry = proc[p].entry
        /\ proc'[p].at = "save" => proc'[p].doc = files[f]
        /\ \A q \in Proc \ {p} : proc'[q] = proc[q]
    <2>1. CASE Loads(f)
      <3> DEFINE r == [proc[p] EXCEPT !.doc = Usable(f), !.at = "save"]
      <3>1. proc' = [proc EXCEPT ![p] = r]
        BY <2>1 DEF Load
      <3>2. proc[p] \in Run
        BY DEF CallsTyped
      <3>3. r \in Run /\ r.at = "save" /\ r.op = proc[p].op /\ r.entry = proc[p].entry /\ r.doc = Usable(f)
        BY <1>3, <3>2 DEF Run, Held
      <3> HIDE DEF r, f
      <3>4. CallsTyped' /\ proc'[p] = r /\ \A q \in Proc \ {p} : proc'[q] = proc[q]
        BY <1>2, <3>1, <3>3, CallGoesOn
      <3> QED
        BY <1>2, <1>3, <3>3, <3>4
    <2>2. CASE ~Loads(f)
      <3>1. To(p, "unlock")
        BY <2>2 DEF Load
      <3> QED
        BY <1>2, <3>1, CallGoesTo
    <2> QED
      BY <2>1, <2>2
  <1>5. LocksInv'
    BY <1>1, <1>2, <1>4, LocksKept
  <1>6. DocInv'
    BY <1>1, <1>4 DEF DocInv
  <1>7. FreshInv' /\ DropInv'
    <2>1. \A q \in Proc : proc'[q].at \in Asks =>
              proc[q].at \in Asks /\ proc'[q].op = proc[q].op /\ proc'[q].entry = proc[q].entry
      BY <1>2, <1>4
    <2> QED
      BY <1>1, <2>1, NamesKept
  <1>8. FilesTyped' /\ ToldInv' /\ Valid'
    BY <1>1, DocumentsKept
  <1> QED
    BY <1>1, <1>4, <1>5, <1>6, <1>7, <1>8 DEF ResolvesTheStore

\* A call returns or dies, and its lock is free.
LEMMA CallEnds ==
    ASSUME RegistryInv, NEW p \in Proc, proc' = [proc EXCEPT ![p] = Idle],
           lock' = [f \in File |-> IF lock[f] = p THEN "none" ELSE lock[f]],
           UNCHANGED <<files, default, place, holds, used, acked, found>>
    PROVE  RegistryInv'
  <1> USE DEF RegistryInv
  <1>1. CallsTyped' /\ proc'[p] = Idle /\ \A q \in Proc \ {p} : proc'[q] = proc[q]
    BY IdleIsARun, CallMoves
  <1>2. proc'[p].at \notin Held /\ proc'[p].at \notin Asks /\ proc'[p].at # "save"
    BY <1>1, IdleIsARun DEF Held, Asks
  <1>3. LocksInv'
    BY <1>1, <1>2, LocksFreed
  <1>4. DocInv'
    BY <1>1, <1>2, DocsKept
  <1>5. FreshInv' /\ DropInv'
    <2>1. \A q \in Proc : proc'[q].at \in Asks =>
              proc[q].at \in Asks /\ proc'[q].op = proc[q].op /\ proc'[q].entry = proc[q].entry
      BY <1>1, <1>2
    <2> QED
      BY <2>1, NamesKept
  <1>6. FilesTyped' /\ ToldInv' /\ Valid'
    BY DocumentsKept
  <1> QED
    BY <1>1, <1>3, <1>4, <1>5, <1>6 DEF ResolvesTheStore

\* A process that only reads takes a step: it has no lock and asks for none.
LEMMA ReaderMoves ==
    ASSUME RegistryInv, NEW p \in Proc, proc[p].at \in {"read", "open"},
           NEW r, r \in Run, Fits(r), r.at \in {"idle", "open"}, proc' = [proc EXCEPT ![p] = r],
           UNCHANGED <<files, default, lock, place, holds, used, acked>>, ResolvesTheStore'
    PROVE  RegistryInv'
  <1> USE DEF RegistryInv
  <1>1. CallsTyped' /\ proc'[p] = r /\ \A q \in Proc \ {p} : proc'[q] = proc[q]
    BY CallMoves
  <1>2. /\ proc'[p].at \notin Held /\ proc'[p].at \notin Asks /\ proc'[p].at # "save"
        /\ proc[p].at \notin Held
    BY <1>1 DEF Held, Asks
  <1>3. LocksInv'
    BY <1>1, <1>2, LocksKept
  <1>4. DocInv'
    BY <1>1, <1>2, DocsKept
  <1>5. FreshInv' /\ DropInv'
    <2>1. \A q \in Proc : proc'[q].at \in Asks =>
              proc[q].at \in Asks /\ proc'[q].op = proc[q].op /\ proc'[q].entry = proc[q].entry
      BY <1>1, <1>2
    <2> QED
      BY <2>1, NamesKept
  <1>6. FilesTyped' /\ ToldInv' /\ Valid'
    BY DocumentsKept
  <1> QED
    BY <1>1, <1>3, <1>4, <1>5, <1>6

LEMMA RegistryRead ==
    ASSUME RegistryInv, NEW p \in Proc, ReadRegistry(p)
    PROVE  RegistryInv'
  <1> USE DEF RegistryInv
  <1> DEFINE there == {x \in files["stores"] : x.store = proc[p].entry.store /\ x.ep = proc[p].entry.ep}
             r == IF there = {} THEN Idle ELSE [proc[p] EXCEPT !.doc = there, !.at = "open"]
  <1>1. proc[p].at = "read" /\ proc' = [proc EXCEPT ![p] = r]
        /\ UNCHANGED <<files, default, lock, place, holds, used, acked, found>>
    BY DEF ReadRegistry
  <1>2. r \in Run /\ Fits(r) /\ r.at \in {"idle", "open"}
    <2>1. CASE there = {}
      BY <2>1, IdleIsARun
    <2>2. CASE there # {}
      <3>1. proc[p] \in Run /\ Fits(proc[p])
        BY DEF CallsTyped
      <3>2. there \in SUBSET Entry
        <4>1. files["stores"] \in SUBSET Entry
          BY DEF FilesTyped, File
        <4> QED
          BY <4>1
      <3> HIDE DEF there
      <3>3. r \in Run /\ r.at = "open" /\ r.op = proc[p].op /\ r.entry = proc[p].entry
        BY <2>2, <3>1, <3>2 DEF Run
      <3>4. proc[p].op = "resolve"
        BY <1>1, <3>1 DEF Fits
      <3> HIDE DEF r
      <3>5. Fits(r)
        BY <3>3, <3>4 DEF Fits
      <3> QED
        BY <3>3, <3>5
    <2> QED
      BY <2>1, <2>2
  <1>3. ResolvesTheStore'
    BY <1>1 DEF ResolvesTheStore
  <1> HIDE DEF r
  <1> QED
    BY <1>1, <1>2, <1>3, ReaderMoves

LEMMA JournalOpened ==
    ASSUME RegistryInv, NEW p \in Proc, OpenRegistered(p)
    PROVE  RegistryInv'
  <1>1. proc[p].at = "open" /\ proc' = [proc EXCEPT ![p] = Idle]
        /\ UNCHANGED <<files, default, lock, place, holds, used, acked>>
    BY DEF OpenRegistered
  <1>2. ResolvesTheStore'
    <2>1. PICK x \in proc[p].doc : found' = found \cup Opened(holds[x.dir], proc[p].entry.store)
      BY DEF OpenRegistered
    <2>2. \A o \in Opened(holds[x.dir], proc[p].entry.store) : o[1] = o[2]
      BY DEF Opened
    <2> QED
      BY <2>1, <2>2 DEF RegistryInv, ResolvesTheStore
  <1> QED
    BY <1>1, <1>2, IdleIsARun, ReaderMoves

\* What the user does with directories touches no document.
LEMMA UserActs ==
    ASSUME RegistryInv, (\E h \in CodexHome : HomeMoves(h)) \/ (\E d \in Dir : DirReplaced(d))
    PROVE  RegistryInv'
  <1> USE DEF RegistryInv
  <1>1. UNCHANGED <<files, default, lock, used, proc, acked, found>>
    BY DEF HomeMoves, DirReplaced
  <1>2. FilesTyped'
    <2>1. place' \in [CodexHome -> {"real"} \cup Places] /\ holds' \in [Dir -> Store]
      BY DEF FilesTyped, HomeMoves, DirReplaced
    <2> QED
      BY <1>1, <2>1 DEF FilesTyped
  <1>3. CallsTyped' /\ LocksInv' /\ DocInv'
    BY <1>1 DEF CallsTyped, LocksInv, DocInv
  <1>4. FreshInv' /\ DropInv'
    BY <1>1, NamesKept
  <1>5. ToldInv' /\ Valid' /\ ResolvesTheStore'
    BY <1>1 DEF ToldInv, Valid, ValidConfig, ValidRegistry, ValidIdentities, ResolvesTheStore
  <1> QED
    BY <1>2, <1>3, <1>4, <1>5

\* An idle process calls: it waits for a lock, or reads the registry.
LEMMA CallBegins ==
    ASSUME RegistryInv, NEW p \in Proc, NEW o \in Writes \cup {"resolve"}, NEW e \in Entry, Begin(p, o, e),
           o = "add" => e \in Configured, o = "remove" => e \in Removal,
           o = "ensure" => e \in Identity, o = "register" => e \in Registered,
           UNCHANGED <<files, default, lock, place, holds, acked, found>>, used' \subseteq EndpointID
    PROVE  /\ FilesTyped' /\ CallsTyped' /\ LocksInv' /\ DocInv' /\ ToldInv' /\ Valid' /\ ResolvesTheStore'
           /\ proc[p].at = "idle" /\ proc'[p].op = o /\ proc'[p].entry = e
           /\ proc'[p].at = (IF o = "resolve" THEN "read" ELSE "lock")
           /\ \A q \in Proc \ {p} : proc'[q] = proc[q]
  <1> USE DEF RegistryInv
  <1> DEFINE at == IF o = "resolve" THEN "read" ELSE "lock"
             r == [Idle EXCEPT !.op = o, !.entry = e, !.at = at]
  <1>1. proc[p].op = "idle" /\ proc' = [proc EXCEPT ![p] = r]
    BY DEF Begin
  <1>2. proc[p].at = "idle"
    BY <1>1 DEF CallsTyped, Fits
  <1>3. r \in Run /\ r.op = o /\ r.entry = e /\ r.at = at
    BY IdleIsARun DEF Run
  <1> HIDE DEF r
  <1>4. Fits(r)
    BY <1>3 DEF Fits, Writes
  <1>5. CallsTyped' /\ proc'[p] = r /\ \A q \in Proc \ {p} : proc'[q] = proc[q]
    BY <1>1, <1>3, <1>4, CallMoves
  <1>6. proc'[p].at \notin Held /\ proc[p].at \notin Held /\ proc'[p].at # "save"
    BY <1>2, <1>3, <1>5 DEF Held
  <1>7. LocksInv'
    BY <1>5, <1>6, LocksKept
  <1>8. DocInv'
    BY <1>5, <1>6, DocsKept
  <1>9. FilesTyped'
    BY DEF FilesTyped
  <1>10. ToldInv' /\ Valid' /\ ResolvesTheStore'
    BY DEF ToldInv, Valid, ValidConfig, ValidRegistry, ValidIdentities, ResolvesTheStore
  <1> QED
    BY <1>2, <1>3, <1>5, <1>7, <1>8, <1>9, <1>10

\* A name that is generated is nobody's.
LEMMA NameGenerated ==
    ASSUME FreshInv, DropInv, files' = files, NEW p \in Proc, NEW i, i \notin used, used' = used \cup {i},
           proc[p].at = "idle", proc'[p].op \in {"add", "ensure"}, proc'[p].entry.id = i,
           \A q \in Proc \ {p} : proc'[q] = proc[q]
    PROVE  FreshInv' /\ DropInv'
  <1>1. Named' = Named
    BY DEF Named
  <1>2. ~Drops(p)' /\ ~Drops(p)
    BY DEF Drops, Asks
  <1>3. \A q \in Proc \ {p} : (Brings(q)' <=> Brings(q)) /\ (Drops(q)' <=> Drops(q))
    BY DEF Brings, Drops
  <1>4. FreshInv'
    <2>1. \A x \in Named' : x.id \in used'
      BY <1>1 DEF FreshInv
    <2>2. ASSUME NEW q \in Proc, Brings(q)'
          PROVE  proc'[q].entry.id \in used' /\ \A x \in Named' : x.id # proc'[q].entry.id
      <3>1. CASE q = p
        BY <1>1, <3>1 DEF FreshInv
      <3>2. CASE q # p
        BY <1>1, <1>3, <2>2, <3>2 DEF FreshInv
      <3> QED
        BY <3>1, <3>2
    <2>3. ASSUME NEW q \in Proc, NEW s \in Proc, Brings(q)', Brings(s)', q # s
          PROVE  proc'[q].entry.id # proc'[s].entry.id
      <3>1. \A t \in Proc \ {p} : Brings(t) => proc[t].entry.id \in used
        BY DEF FreshInv
      <3>2. CASE q = p
        BY <1>3, <2>3, <3>1, <3>2
      <3>3. CASE s = p
        BY <1>3, <2>3, <3>1, <3>3
      <3>4. CASE q # p /\ s # p
        BY <1>3, <2>3, <3>4 DEF FreshInv
      <3> QED
        BY <3>2, <3>3, <3>4
    <2> QED
      BY <2>1, <2>2, <2>3 DEF FreshInv
  <1>5. ASSUME NEW q \in Proc, Drops(q)'
        PROVE  /\ proc'[q].entry.id \in used'
               /\ \A x \in files'["config"] : x.id = proc'[q].entry.id => x.alias = proc'[q].entry.alias
               /\ \A s \in Proc : Brings(s)' => proc'[s].entry.id # proc'[q].entry.id
    <2>1. q # p /\ proc'[q] = proc[q] /\ Drops(q)
      BY <1>2, <1>3, <1>5
    <2>2. /\ proc[q].entry.id \in used
          /\ \A x \in files["config"] : x.id = proc[q].entry.id => x.alias = proc[q].entry.alias
          /\ \A s \in Proc : Brings(s) => proc[s].entry.id # proc[q].entry.id
      BY <2>1 DEF DropInv
    <2>3. ASSUME NEW s \in Proc, Brings(s)' PROVE proc'[s].entry.id # proc'[q].entry.id
      <3>1. CASE s = p
        BY <2>1, <2>2, <3>1
      <3>2. CASE s # p
        BY <1>3, <2>1, <2>2, <2>3, <3>2
      <3> QED
        BY <3>1, <3>2
    <2> QED
      BY <2>1, <2>2, <2>3
  <1> QED
    BY <1>4, <1>5 DEF DropInv

\* A name that is to be removed is the one the file gives.
LEMMA NameGivenUp ==
    ASSUME FilesTyped, FreshInv, DropInv, Valid, files' = files, used' = used,
           NEW p \in Proc, NEW e \in files["config"], proc[p].at = "idle", proc'[p].op = "remove",
           proc'[p].entry.id = e.id, proc'[p].entry.alias = e.alias, \A q \in Proc \ {p} : proc'[q] = proc[q]
    PROVE  FreshInv' /\ DropInv'
  <1>1. Named' = Named /\ e \in Named
    BY DEF Named
  <1>2. ~Brings(p)' /\ ~Brings(p)
    BY DEF Brings, Asks
  <1>3. \A q \in Proc : (Brings(q)' <=> Brings(q)) /\ (Brings(q) => proc'[q].entry = proc[q].entry)
    <2>1. \A q \in Proc \ {p} : Brings(q)' <=> Brings(q)
      BY DEF Brings
    <2> QED
      BY <1>2, <2>1
  <1>4. FreshInv'
    BY <1>1, <1>3 DEF FreshInv
  <1>5. ASSUME NEW q \in Proc, Drops(q)'
        PROVE  /\ proc'[q].entry.id \in used'
               /\ \A x \in files'["config"] : x.id = proc'[q].entry.id => x.alias = proc'[q].entry.alias
               /\ \A s \in Proc : Brings(s)' => proc'[s].entry.id # proc'[q].entry.id
    <2>1. CASE q = p
      <3>1. e.id \in used /\ \A s \in Proc : Brings(s) => proc[s].entry.id # e.id
        BY <1>1 DEF FreshInv
      <3>2. \A x \in files["config"] : x.id = e.id => x = e
        BY DEF Valid, ValidConfig
      <3> QED
        BY <1>3, <2>1, <3>1, <3>2
    <2>2. CASE q # p
      <3>1. proc'[q] = proc[q] /\ Drops(q)
        BY <1>5, <2>2 DEF Drops
      <3> QED
        BY <1>3, <3>1 DEF DropInv
    <2> QED
      BY <2>1, <2>2
  <1> QED
    BY <1>4, <1>5 DEF DropInv

LEMMA CallStarts ==
    ASSUME RegistryInv, NEW p \in Proc, Starts(p)
    PROVE  RegistryInv'
  <1> USE DEF RegistryInv
  <1>1. UNCHANGED <<files, default, lock, place, holds, acked, found>>
    BY DEF Starts
  <1>2. CASE Add(p)
    <2>1. PICK a \in Alias, i \in Fresh : Begin(p, "add", [alias |-> a, id |-> i]) /\ used' = used \cup {i}
      BY <1>2 DEF Add
    <2> DEFINE e == [alias |-> a, id |-> i]
    <2>2. e \in Configured /\ e \in Entry /\ e.id = i /\ i \notin used /\ "add" \in Writes
      BY <2>1 DEF Configured, Entry, Fresh, Writes
    <2>3. used' \subseteq EndpointID
      BY <2>1 DEF Fresh, FilesTyped
    <2> HIDE DEF e
    <2>4. Begin(p, "add", e)
      BY <2>1 DEF e
    <2>5. /\ FilesTyped' /\ CallsTyped' /\ LocksInv' /\ DocInv' /\ ToldInv' /\ Valid' /\ ResolvesTheStore'
          /\ proc[p].at = "idle" /\ proc'[p].op = "add" /\ proc'[p].entry = e
          /\ \A q \in Proc \ {p} : proc'[q] = proc[q]
      BY <1>1, <2>2, <2>3, <2>4, CallBegins
    <2>6. FreshInv' /\ DropInv'
      BY <1>1, <2>1, <2>2, <2>5, NameGenerated
    <2> QED
      BY <2>5, <2>6
  <1>3. CASE EnsureBuiltinLocal(p)
    <2>1. PICK h \in CodexHome, i \in Fresh : Begin(p, "ensure", [home |-> h, id |-> i]) /\ used' = used \cup {i}
      BY <1>3 DEF EnsureBuiltinLocal
    <2> DEFINE e == [home |-> h, id |-> i]
    <2>2. e \in Identity /\ e \in Entry /\ e.id = i /\ i \notin used /\ "ensure" \in Writes
      BY <2>1 DEF Identity, Entry, Fresh, Writes
    <2>3. used' \subseteq EndpointID
      BY <2>1 DEF Fresh, FilesTyped
    <2> HIDE DEF e
    <2>4. Begin(p, "ensure", e)
      BY <2>1 DEF e
    <2>5. /\ FilesTyped' /\ CallsTyped' /\ LocksInv' /\ DocInv' /\ ToldInv' /\ Valid' /\ ResolvesTheStore'
          /\ proc[p].at = "idle" /\ proc'[p].op = "ensure" /\ proc'[p].entry = e
          /\ \A q \in Proc \ {p} : proc'[q] = proc[q]
      BY <1>1, <2>2, <2>3, <2>4, CallBegins
    <2>6. FreshInv' /\ DropInv'
      BY <1>1, <2>1, <2>2, <2>5, NameGenerated
    <2> QED
      BY <2>5, <2>6
  <1>4. CASE Remove(p) /\ UNCHANGED used
    <2>0. PICK x \in files["config"] : \E by \in {x.alias, x.id} :
              Begin(p, "remove", [alias |-> x.alias, id |-> x.id, by |-> by])
      BY <1>4 DEF Remove
    <2>1. PICK by \in {x.alias, x.id} : Begin(p, "remove", [alias |-> x.alias, id |-> x.id, by |-> by])
      BY <2>0
    <2> DEFINE e == [alias |-> x.alias, id |-> x.id, by |-> by]
    <2>2. x \in Configured
      BY DEF FilesTyped
    <2>3. e \in Removal /\ e \in Entry /\ e.id = x.id /\ e.alias = x.alias /\ "remove" \in Writes
      BY <2>1, <2>2 DEF Configured, Removal, Entry, Writes
    <2>4. used' \subseteq EndpointID
      BY <1>4 DEF FilesTyped
    <2> HIDE DEF e
    <2>5. Begin(p, "remove", e)
      BY <2>1 DEF e
    <2>6. /\ FilesTyped' /\ CallsTyped' /\ LocksInv' /\ DocInv' /\ ToldInv' /\ Valid' /\ ResolvesTheStore'
          /\ proc[p].at = "idle" /\ proc'[p].op = "remove" /\ proc'[p].entry = e
          /\ \A q \in Proc \ {p} : proc'[q] = proc[q]
      BY <1>1, <2>3, <2>4, <2>5, CallBegins
    <2>7. FreshInv' /\ DropInv'
      BY <1>1, <1>4, <2>3, <2>6, NameGivenUp
    <2> QED
      BY <2>6, <2>7
  <1>5. CASE (Register(p) \/ Resolve(p)) /\ UNCHANGED used
    <2>1. \E o \in {"register", "resolve"} : \E e \in Entry :
              (o = "register" => e \in Registered) /\ Begin(p, o, e)
      <3>1. CASE Register(p)
        <4>1. PICK d \in Dir, x \in Usable("idents") \cup files["config"] :
                  Begin(p, "register", [store |-> holds[d], ep |-> x.id, dir |-> d])
          BY <3>1 DEF Register
        <4>2. x.id \in EndpointID /\ holds[d] \in Store
          BY DEF FilesTyped, Usable, Configured, Identity
        <4>3. [store |-> holds[d], ep |-> x.id, dir |-> d] \in Registered
          BY <4>2 DEF Registered
        <4> QED
          BY <4>1, <4>3 DEF Entry
      <3>2. CASE Resolve(p)
        <4>1. PICK s \in Store, i \in used : Begin(p, "resolve", [store |-> s, ep |-> i])
          BY <3>2 DEF Resolve
        <4>2. [store |-> s, ep |-> i] \in [store : Store, ep : EndpointID]
          BY DEF FilesTyped
        <4> QED
          BY <4>1, <4>2 DEF Entry
      <3> QED
        BY <1>5, <3>1, <3>2
    <2>2. PICK o \in {"register", "resolve"} : \E e \in Entry :
              (o = "register" => e \in Registered) /\ Begin(p, o, e)
      BY <2>1
    <2>3. PICK e \in Entry : (o = "register" => e \in Registered) /\ Begin(p, o, e)
      BY <2>2
    <2>4. used' \subseteq EndpointID
      BY <1>5 DEF FilesTyped
    <2>5. o \in Writes \cup {"resolve"} /\ o \notin {"add", "remove", "ensure"}
      BY <2>2 DEF Writes
    <2>6. /\ FilesTyped' /\ CallsTyped' /\ LocksInv' /\ DocInv' /\ ToldInv' /\ Valid' /\ ResolvesTheStore'
          /\ proc[p].at = "idle" /\ proc'[p].op = o /\ proc'[p].entry = e
          /\ \A q \in Proc \ {p} : proc'[q] = proc[q]
      BY <1>1, <2>3, <2>4, <2>5, CallBegins
    <2>7. FreshInv' /\ DropInv'
      <3>1. ~Brings(p)' /\ ~Drops(p)'
        BY <2>5, <2>6 DEF Brings, Drops
      <3>2. \A q \in Proc : /\ Brings(q)' => Brings(q) /\ proc'[q].entry = proc[q].entry
                            /\ Drops(q)' => Drops(q) /\ proc'[q].entry = proc[q].entry
        BY <2>6, <3>1 DEF Brings, Drops
      <3> QED
        BY <1>1, <1>5, <3>2, NoNewNames
    <2> QED
      BY <2>6, <2>7
  <1>6. Remove(p) => UNCHANGED used
    BY DEF Remove
  <1>7. Register(p) \/ Resolve(p) => UNCHANGED used
    BY DEF Register, Resolve
  <1> QED
    BY <1>2, <1>3, <1>4, <1>5, <1>6, <1>7 DEF Starts

\* A process renames a new document over the one it has read, whose lock it holds.
LEMMA DocumentReplaced ==
    ASSUME RegistryInv, NEW p \in Proc, proc[p].at = "save", To(p, "unlock"), NEW new,
           files' = [files EXCEPT ![FileOf[proc[p].op]] = new],
           FileOf[proc[p].op] = "config" => new \subseteq Configured,
           FileOf[proc[p].op] = "idents" => new \subseteq Identity,
           FileOf[proc[p].op] = "stores" => new \subseteq Registered,
           UNCHANGED <<lock, place, holds, used, found>>
    PROVE  FilesTyped' /\ CallsTyped' /\ LocksInv' /\ DocInv' /\ ResolvesTheStore'
  <1> USE DEF RegistryInv
  <1> DEFINE f == FileOf[proc[p].op]
  <1>1. proc[p].at \in Asks /\ proc[p].at \in Held /\ "unlock" \in Held
    BY DEF Asks, Held
  <1>2. /\ CallsTyped' /\ proc'[p].at = "unlock" /\ proc'[p].op = proc[p].op
        /\ \A q \in Proc \ {p} : proc'[q] = proc[q]
    BY <1>1, CallGoesTo
  <1>3. f \in File /\ files \in [File -> SUBSET Entry]
    BY <1>1, WritersWrite DEF FilesTyped
  <1>4. files'[f] = new /\ DOMAIN files' = File /\ \A g \in File \ {f} : files'[g] = files[g]
    BY <1>3
  <1>5. FilesTyped'
    <2>1. new \in SUBSET Entry
      BY <1>3 DEF File, Entry
    <2>2. files' \in [File -> SUBSET Entry]
      BY <1>3, <2>1
    <2>3. "config" \in File /\ "idents" \in File /\ "stores" \in File
      BY DEF File
    <2>4. /\ files'["config"] \subseteq Configured /\ files'["idents"] \subseteq Identity
          /\ files'["stores"] \subseteq Registered
      BY <1>4, <2>3 DEF FilesTyped
    <2> QED
      BY <2>2, <2>4 DEF FilesTyped
  <1>6. LocksInv'
    BY <1>1, <1>2, LocksKept
  <1>7. ASSUME NEW q \in Proc, proc'[q].at = "save" PROVE proc'[q].doc = files'[FileOf[proc'[q].op]]
    <2>1. q # p /\ proc'[q] = proc[q] /\ proc[q].at \in Held
      BY <1>2, <1>7 DEF Held
    <2>2. FileOf[proc[q].op] \in File /\ FileOf[proc[q].op] # f
      BY <1>1, <2>1, AloneOnAFile, WritersWrite
    <2> QED
      BY <1>4, <1>7, <2>1, <2>2 DEF DocInv
  <1> QED
    BY <1>2, <1>5, <1>6, <1>7 DEF DocInv, ResolvesTheStore

\* The name that is stored was the writer's own.
LEMMA NameStored ==
    ASSUME FreshInv, DropInv, used' = used, NEW p \in Proc, proc'[p].at = "unlock",
           \A q \in Proc \ {p} : proc'[q] = proc[q],
           \A x \in Named' : x \in Named \/ (Brings(p) /\ x.id = proc[p].entry.id),
           \A x \in files'["config"] : x \in files["config"] \/ (Brings(p) /\ x.id = proc[p].entry.id)
    PROVE  FreshInv' /\ DropInv'
  <1>1. ~Brings(p)' /\ ~Drops(p)'
    BY DEF Brings, Drops, Asks
  <1>2. \A q \in Proc \ {p} : (Brings(q)' <=> Brings(q)) /\ (Drops(q)' <=> Drops(q))
    BY DEF Brings, Drops
  <1>3. ASSUME NEW x \in Named' PROVE x.id \in used'
    BY DEF FreshInv
  <1>4. ASSUME NEW q \in Proc, Brings(q)'
        PROVE  proc'[q].entry.id \in used' /\ \A x \in Named' : x.id # proc'[q].entry.id
    <2>1. q # p /\ proc'[q] = proc[q] /\ Brings(q)
      BY <1>1, <1>2, <1>4
    <2> QED
      BY <2>1 DEF FreshInv
  <1>5. ASSUME NEW q \in Proc, NEW s \in Proc, Brings(q)', Brings(s)', q # s
        PROVE  proc'[q].entry.id # proc'[s].entry.id
    <2>1. /\ q # p /\ proc'[q] = proc[q] /\ Brings(q)
          /\ s # p /\ proc'[s] = proc[s] /\ Brings(s)
      BY <1>1, <1>2, <1>5
    <2> QED
      BY <1>5, <2>1 DEF FreshInv
  <1>6. ASSUME NEW q \in Proc, Drops(q)'
        PROVE  /\ proc'[q].entry.id \in used'
               /\ \A x \in files'["config"] : x.id = proc'[q].entry.id => x.alias = proc'[q].entry.alias
               /\ \A s \in Proc : Brings(s)' => proc'[s].entry.id # proc'[q].entry.id
    <2>1. q # p /\ proc'[q] = proc[q] /\ Drops(q)
      BY <1>1, <1>2, <1>6
    <2>2. \A s \in Proc : Brings(s)' => Brings(s) /\ proc'[s] = proc[s]
      BY <1>1, <1>2
    <2> QED
      BY <2>1, <2>2 DEF DropInv
  <1> QED
    BY <1>3, <1>4, <1>5, <1>6 DEF FreshInv, DropInv

\* Add, EnsureBuiltinLocal and Register put their entry into the document.
LEMMA EntryStored ==
    ASSUME RegistryInv, NEW p \in Proc, proc[p].at = "save", To(p, "unlock"), proc[p].op # "remove",
           {x \in proc[p].doc : Same(proc[p].op, x, proc[p].entry)} = {},
           ~\E x \in proc[p].doc : Clashes(proc[p].op, x, proc[p].entry),
           FileOf[proc[p].op] = "config" => ValidConfig(proc[p].doc \cup {proc[p].entry}, default),
           files' = [files EXCEPT ![FileOf[proc[p].op]] = proc[p].doc \cup {proc[p].entry}], default' = default,
           acked' \in {acked, acked \cup {<<FileOf[proc[p].op], proc[p].entry>>}},
           UNCHANGED <<lock, place, holds, used, found>>
    PROVE  RegistryInv'
  <1> USE DEF RegistryInv
  <1> DEFINE f == FileOf[proc[p].op]
             e == proc[p].entry
             new == proc[p].doc \cup {e}
  <1>1. proc[p].at \in Asks /\ proc[p].at \in Held /\ "unlock" \in Held
    BY DEF Asks, Held
  <1>2. f \in File /\ proc[p].doc = files[f] /\ files \in [File -> SUBSET Entry]
    BY <1>1, WritersWrite DEF DocInv, FilesTyped
  <1>3. /\ proc[p].op \in {"add", "ensure", "register"}
        /\ f = "config" => proc[p].op = "add"
        /\ f = "idents" => proc[p].op = "ensure"
        /\ f = "stores" => proc[p].op = "register"
    BY <1>1, WritersWrite, FileOfCall DEF Writes
  <1>4. Fits(proc[p])
    BY DEF CallsTyped
  <1>5. /\ f = "config" => new \subseteq Configured
        /\ f = "idents" => new \subseteq Identity
        /\ f = "stores" => new \subseteq Registered
    BY <1>2, <1>3, <1>4 DEF Fits, FilesTyped
  <1>6. FilesTyped' /\ CallsTyped' /\ LocksInv' /\ DocInv' /\ ResolvesTheStore'
    BY <1>5, DocumentReplaced
  <1>7. files'[f] = new /\ \A g \in File \ {f} : files'[g] = files[g]
    BY <1>2
  <1>8. "config" \in File /\ "idents" \in File /\ "stores" \in File
    BY DEF File
  <1>9. proc'[p].at = "unlock" /\ \A q \in Proc \ {p} : proc'[q] = proc[q]
    BY <1>1, CallGoesTo
  <1>10. FreshInv' /\ DropInv'
    <2>1. f # "stores" => Brings(p)
      BY <1>1, <1>3, <1>8, FileOfCall DEF Brings
    <2>2. \A x \in files'["config"] : x \in files["config"] \/ (Brings(p) /\ x.id = e.id)
      BY <1>2, <1>7, <1>8, <2>1
    <2>3. \A x \in files'["idents"] : x \in files["idents"] \/ (Brings(p) /\ x.id = e.id)
      BY <1>2, <1>7, <1>8, <2>1
    <2>4. \A x \in Named' : x \in Named \/ (Brings(p) /\ x.id = e.id)
      BY <2>2, <2>3 DEF Named
    <2> QED
      BY <1>9, <2>2, <2>4, NameStored
  <1>11. ToldInv'
    <2>1. ASSUME NEW a \in acked PROVE \E g \in File : \E y \in files'[g] : a = <<g, y>>
      <3>1. PICK g \in File : \E y \in files[g] : a = <<g, y>>
        BY DEF ToldInv
      <3>2. files[g] \subseteq files'[g]
        <4>1. CASE g = f
          BY <4>1, <1>2, <1>7
        <4>2. CASE g # f
          BY <4>2, <1>7
        <4> QED
          BY <4>1, <4>2
      <3> QED
        BY <3>1, <3>2
    <2>2. e \in files'[f] /\ f \in File
      BY <1>2, <1>7
    <2> QED
      BY <2>1, <2>2 DEF ToldInv
  <1>12. Valid'
    <2>1. CASE f = "config"
      BY <1>7, <1>8, <2>1 DEF Valid, ValidConfig, ValidRegistry, ValidIdentities
    <2>2. CASE f = "idents"
      <3>1. proc[p].op = "ensure" /\ Brings(p)
        BY <1>1, <1>3, <2>2 DEF Brings
      <3>2. \A x \in files["idents"] : x.home # e.home
        BY <1>2, <2>2, <3>1 DEF Same
      <3>3. \A x \in files["idents"] : x.id # e.id
        BY <3>1 DEF FreshInv, Named
      <3>4. files'["idents"] = files["idents"] \cup {e}
        BY <1>2, <1>7, <2>2
      <3>5. ValidIdentities(files'["idents"])
        BY <3>2, <3>3, <3>4 DEF Valid, ValidIdentities
      <3>6. files'["config"] = files["config"] /\ files'["stores"] = files["stores"]
        BY <1>7, <1>8, <2>2
      <3> QED
        BY <3>5, <3>6 DEF Valid, ValidConfig, ValidRegistry
    <2>3. CASE f = "stores"
      <3>1. proc[p].op = "register"
        BY <1>3, <2>3
      <3>2. \A x \in files["stores"] : x.store = e.store => x = e
        BY <1>2, <2>3, <3>1 DEF Clashes
      <3>3. files'["stores"] = files["stores"] \cup {e}
        BY <1>2, <1>7, <2>3
      <3>4. ValidRegistry(files'["stores"])
        BY <3>2, <3>3 DEF Valid, ValidRegistry
      <3>5. files'["config"] = files["config"] /\ files'["idents"] = files["idents"]
        BY <1>7, <1>8, <2>3
      <3> QED
        BY <3>4, <3>5 DEF Valid, ValidConfig, ValidIdentities
    <2> QED
      BY <1>2, <2>1, <2>2, <2>3 DEF File
  <1> QED
    BY <1>6, <1>10, <1>11, <1>12

\* Remove takes the endpoint of that name, and no other, out of the configuration.
LEMMA EntryRemoved ==
    ASSUME RegistryInv, NEW p \in Proc, proc[p].at = "save", To(p, "unlock"), proc[p].op = "remove",
           NEW def, ValidConfig({x \in proc[p].doc : x.id # proc[p].entry.id}, def),
           files' = [files EXCEPT !["config"] = {x \in proc[p].doc : x.id # proc[p].entry.id}], default' = def,
           acked' = acked \ {<<"config", [alias |-> proc[p].entry.alias, id |-> proc[p].entry.id]>>},
           UNCHANGED <<lock, place, holds, used, found>>
    PROVE  RegistryInv'
  <1> USE DEF RegistryInv
  <1> DEFINE e == proc[p].entry
             new == {x \in proc[p].doc : x.id # e.id}
  <1>1. proc[p].at \in Asks /\ proc[p].at \in Held /\ "unlock" \in Held
    BY DEF Asks, Held
  <1>2. FileOf[proc[p].op] = "config" /\ proc[p].doc = files["config"] /\ files["config"] \subseteq Configured
    BY FileOfCall DEF DocInv, FilesTyped
  <1>3. FilesTyped' /\ CallsTyped' /\ LocksInv' /\ DocInv' /\ ResolvesTheStore'
    <2>1. new \subseteq Configured /\ files' = [files EXCEPT ![FileOf[proc[p].op]] = new]
      BY <1>2
    <2> HIDE DEF new
    <2> QED
      BY <1>2, <2>1, DocumentReplaced
  <1>4. "config" \in File /\ "idents" \in File /\ "stores" \in File /\ files \in [File -> SUBSET Entry]
    BY DEF File, FilesTyped
  <1>5. files'["config"] = new /\ \A g \in File \ {"config"} : files'[g] = files[g]
    BY <1>4
  <1>6. proc'[p].at = "unlock" /\ \A q \in Proc \ {p} : proc'[q] = proc[q]
    BY <1>1, CallGoesTo
  <1>7. FreshInv' /\ DropInv'
    <2>1. files'["config"] \subseteq files["config"] /\ files'["idents"] = files["idents"]
      BY <1>2, <1>4, <1>5
    <2>2. Named' \subseteq Named
      BY <2>1 DEF Named
    <2> QED
      BY <1>6, <2>1, <2>2, NameStored
  <1>8. ToldInv'
    <2>1. ASSUME NEW a \in acked' PROVE \E g \in File : \E y \in files'[g] : a = <<g, y>>
      <3>1. PICK g \in File : \E y \in files[g] : a = <<g, y>>
        BY <2>1 DEF ToldInv
      <3>2. PICK y \in files[g] : a = <<g, y>>
        BY <3>1
      <3>3. CASE g # "config"
        BY <1>5, <3>2, <3>3
      <3>4. CASE g = "config"
        <4>1. y \in Configured /\ y \in files["config"]
          BY <1>2, <3>2, <3>4
        <4>2. y.id # e.id
          <5> SUFFICES ASSUME y.id = e.id PROVE FALSE
            OBVIOUS
          <5>1. y.alias = e.alias
            BY <1>1, <4>1 DEF DropInv, Drops
          <5>2. y = [alias |-> e.alias, id |-> e.id]
            BY <4>1, <5>1 DEF Configured
          <5> QED
            BY <2>1, <3>2, <3>4, <5>2
        <4>3. y \in files'["config"]
          BY <1>2, <1>5, <4>1, <4>2
        <4> QED
          BY <1>4, <3>2, <3>4, <4>3
      <3> QED
        BY <3>3, <3>4
    <2> QED
      BY <2>1 DEF ToldInv
  <1>9. Valid'
    <2>1. ValidConfig(files'["config"], default')
      BY <1>5
    <2>2. files'["idents"] = files["idents"] /\ files'["stores"] = files["stores"]
      BY <1>4, <1>5
    <2> QED
      BY <2>1, <2>2 DEF Valid, ValidRegistry, ValidIdentities
  <1> QED
    BY <1>3, <1>7, <1>8, <1>9

\* Nothing is written: what the call asked for is there, or it fails.
LEMMA NothingStored ==
    ASSUME RegistryInv, NEW p \in Proc, proc[p].at = "save", To(p, "unlock"),
           UNCHANGED <<files, default, lock, place, holds, used, found>>,
           acked' = acked \/ (proc[p].op # "remove" /\ \E S \in SUBSET proc[p].doc :
               acked' = acked \cup {<<FileOf[proc[p].op], x>> : x \in S})
    PROVE  RegistryInv'
  <1> USE DEF RegistryInv
  <1>1. proc[p].at \in Asks /\ proc[p].at \in Held /\ "unlock" \in Held
    BY DEF Asks, Held
  <1>2. /\ CallsTyped' /\ proc'[p].at = "unlock" /\ proc'[p].op = proc[p].op
        /\ \A q \in Proc \ {p} : proc'[q] = proc[q]
    BY <1>1, CallGoesTo
  <1>3. LocksInv'
    BY <1>1, <1>2, LocksKept
  <1>4. DocInv'
    BY <1>2, DocsKept
  <1>5. FreshInv' /\ DropInv'
    <2>1. \A q \in Proc : proc'[q].at \in Asks =>
              proc[q].at \in Asks /\ proc'[q].op = proc[q].op /\ proc'[q].entry = proc[q].entry
      BY <1>2 DEF Asks
    <2> QED
      BY <2>1, NamesKept
  <1>6. FilesTyped' /\ Valid' /\ ResolvesTheStore'
    BY DEF FilesTyped, Valid, ValidConfig, ValidRegistry, ValidIdentities, ResolvesTheStore
  <1>7. ToldInv'
    <2>1. FileOf[proc[p].op] \in File /\ proc[p].doc = files[FileOf[proc[p].op]]
      BY <1>1, WritersWrite DEF DocInv
    <2>2. ASSUME NEW a \in acked' PROVE \E g \in File : \E y \in files[g] : a = <<g, y>>
      <3>1. CASE a \in acked
        BY <3>1 DEF ToldInv
      <3>2. CASE a \notin acked
        <4>1. \E y \in proc[p].doc : a = <<FileOf[proc[p].op], y>>
          BY <2>2, <3>2
        <4> QED
          BY <2>1, <4>1
      <3> QED
        BY <3>1, <3>2
    <2> QED
      BY <2>2 DEF ToldInv
  <1> QED
    BY <1>2, <1>3, <1>4, <1>5, <1>6, <1>7

LEMMA DocumentSaved ==
    ASSUME RegistryInv, NEW p \in Proc, Save(p)
    PROVE  RegistryInv'
  <1> DEFINE o == proc[p].op
             e == proc[p].entry
             there == {x \in proc[p].doc : Same(o, x, e)}
             new == Changed(o, proc[p].doc, e)
  <1>1. proc[p].at = "save" /\ To(p, "unlock") /\ UNCHANGED <<lock, place, holds, used, found>>
    BY DEF Save
  <1>2. o \in Writes
    BY <1>1, WritersWrite DEF RegistryInv, Held
  <1>3. CASE there # {} /\ Returns(p, there) /\ UNCHANGED <<files, default>>
    <2>1. o # "remove"
      BY <1>3 DEF Same
    <2>2. acked' = acked \cup {<<FileOf[o], x>> : x \in there} /\ there \in SUBSET proc[p].doc
      BY <1>3, <2>1 DEF Returns
    <2> QED
      BY <1>1, <1>3, <2>1, <2>2, NothingStored
  <1>4. CASE UNCHANGED <<files, default, acked>>
    BY <1>1, <1>4, NothingStored
  <1>5. CASE /\ there = {} /\ ~\E x \in proc[p].doc : Clashes(o, x, e)
             /\ FileOf[o] = "config" => ValidConfig(new, Default(o, e))
             /\ files' = [files EXCEPT ![FileOf[o]] = new] /\ default' = Default(o, e)
             /\ \/ Returns(p, {IF o = "remove" THEN [alias |-> e.alias, id |-> e.id] ELSE e})
                \/ acked' = (IF o = "remove" THEN acked \ {<<"config", [alias |-> e.alias, id |-> e.id]>>} ELSE acked)
    <2>1. CASE o = "remove"
      <3>1. new = {x \in proc[p].doc : x.id # e.id} /\ FileOf[o] = "config"
        BY <2>1, FileOfCall DEF Changed
      <3>2. acked' = acked \ {<<"config", [alias |-> e.alias, id |-> e.id]>>}
        BY <1>5, <2>1 DEF Returns
      <3>3. files' = [files EXCEPT !["config"] = {x \in proc[p].doc : x.id # e.id}]
        BY <1>5, <3>1
      <3>4. ValidConfig({x \in proc[p].doc : x.id # e.id}, default')
        BY <1>5, <3>1
      <3> QED
        BY <1>1, <2>1, <3>2, <3>3, <3>4, EntryRemoved
    <2>2. CASE o # "remove"
      <3>1. new = proc[p].doc \cup {e} /\ Default(o, e) = default
        BY <2>2 DEF Changed, Default
      <3>2. acked' \in {acked, acked \cup {<<FileOf[o], e>>}}
        <4>1. {<<FileOf[o], x>> : x \in {e}} = {<<FileOf[o], e>>}
          OBVIOUS
        <4> QED
          BY <1>5, <2>2, <4>1 DEF Returns
      <3>3. files' = [files EXCEPT ![FileOf[o]] = proc[p].doc \cup {e}]
        BY <1>5, <3>1
      <3>4. FileOf[o] = "config" => ValidConfig(proc[p].doc \cup {e}, default)
        BY <1>5, <3>1
      <3> QED
        BY <1>1, <1>5, <2>2, <3>1, <3>2, <3>3, <3>4, EntryStored
    <2> QED
      BY <2>1, <2>2
  <1> QED
    BY <1>3, <1>4, <1>5 DEF Save

LEMMA RegistryBegins == RegistryInit => RegistryInv
  <1> SUFFICES ASSUME RegistryInit PROVE RegistryInv
    OBVIOUS
  <1>1. /\ files = [config |-> First, idents |-> {}, stores |-> {}] /\ lock = [f \in File |-> "none"]
        /\ default \in {"none"} \cup {x.alias : x \in First} \cup {x.id : x \in First}
        /\ place = [h \in CodexHome |-> "real"] /\ holds \in [Dir -> Store] /\ used = {x.id : x \in First}
        /\ proc = [p \in Proc |-> Idle] /\ acked = {<<"config", x>> : x \in First} /\ found = {}
    BY DEF RegistryInit
  <1>2. files["config"] = First /\ files["idents"] = {} /\ files["stores"] = {}
    BY <1>1
  <1>3. \A x \in First : x.id \in EndpointID /\ x.alias \in Alias
    BY NoBody DEF Configured
  <1>4. FilesTyped
    <2>1. First \in SUBSET Entry
      BY NoBody DEF Entry
    <2>2. files \in [File -> SUBSET Entry]
      <3>1. \A f \in File : files[f] \in SUBSET Entry
        BY <1>2, <2>1 DEF File
      <3>2. files = [f \in File |-> files[f]]
        BY <1>1 DEF File
      <3> QED
        BY <3>1, <3>2
    <2>3. place \in [CodexHome -> {"real"} \cup Places] /\ used \subseteq EndpointID
      BY <1>1, <1>3
    <2> QED
      BY <1>1, <1>2, <2>2, <2>3, NoBody DEF FilesTyped
  <1>5. \A p \in Proc : proc[p] = Idle
    BY <1>1
  <1>6. CallsTyped
    BY <1>1, <1>5, IdleIsARun DEF CallsTyped
  <1>7. \A p \in Proc : proc[p].at \notin Held /\ proc[p].at \notin Asks /\ proc[p].at # "save"
    BY <1>5, IdleIsARun DEF Held, Asks
  <1>8. LocksInv /\ DocInv
    BY <1>1, <1>7 DEF LocksInv, DocInv
  <1>9. FreshInv /\ DropInv
    <2>1. \A p \in Proc : ~Brings(p) /\ ~Drops(p)
      BY <1>7 DEF Brings, Drops
    <2>2. \A x \in Named : x.id \in used
      BY <1>1, <1>2 DEF Named
    <2> QED
      BY <2>1, <2>2 DEF FreshInv, DropInv
  <1>10. ToldInv
    BY <1>1, <1>2 DEF ToldInv, File
  <1>11. Valid
    <2>1. ValidConfig(First, default)
      BY <1>1, RegistryAssumption DEF ValidConfig
    <2> QED
      BY <1>2, <2>1 DEF Valid, ValidRegistry, ValidIdentities
  <1>12. ResolvesTheStore
    BY <1>1 DEF ResolvesTheStore
  <1> QED
    BY <1>4, <1>6, <1>8, <1>9, <1>10, <1>11, <1>12 DEF RegistryInv

LEMMA RegistryStep ==
    ASSUME "vanished" \notin Places, RegistryInv, [RegistryNext]_registryVars
    PROVE  RegistryInv'
  <1>1. CASE UNCHANGED registryVars
    <2>1. UNCHANGED <<files, default, lock, place, holds, used, proc, acked, found>>
      BY <1>1 DEF registryVars
    <2>2. FilesTyped' /\ CallsTyped' /\ LocksInv' /\ DocInv'
      BY <2>1 DEF RegistryInv, FilesTyped, CallsTyped, LocksInv, DocInv
    <2>3. FreshInv' /\ DropInv'
      BY <2>1, NamesKept DEF RegistryInv
    <2>4. ToldInv' /\ Valid' /\ ResolvesTheStore'
      BY <2>1 DEF RegistryInv, ToldInv, Valid, ValidConfig, ValidRegistry, ValidIdentities, ResolvesTheStore
    <2> QED
      BY <2>2, <2>3, <2>4 DEF RegistryInv
  <1>2. CASE \E p \in Proc : Starts(p) \/ Step(p) \/ Dies(p)
    <2>1. PICK p \in Proc : Starts(p) \/ Step(p) \/ Dies(p)
      BY <1>2
    <2>2. CASE Unlock(p) \/ Dies(p)
      BY <2>2, CallEnds DEF Unlock, Dies
    <2> QED
      BY <2>1, <2>2, CallStarts, LocksTaken, DocumentLoaded, DocumentSaved, RegistryRead, JournalOpened DEF Step
  <1>3. CASE (\E h \in CodexHome : HomeMoves(h)) \/ (\E d \in Dir : DirReplaced(d))
    BY <1>3, UserActs
  <1> QED
    BY <1>1, <1>2, <1>3 DEF RegistryNext

LEMMA InvGivesRegistry == RegistryInv => RegistriesAreSound /\ RegistryTypeOK
  <1> SUFFICES ASSUME RegistryInv PROVE RegistriesAreSound /\ RegistryTypeOK
    OBVIOUS
  <1> USE DEF RegistryInv
  <1>1. ASSUME NEW a \in acked PROVE a[2] \in files[a[1]] /\ a = <<a[1], a[2]>>
    BY DEF ToldInv
  <1>2. NothingOverwritten
    BY <1>1 DEF NothingOverwritten
  <1>3. NamesAreFixed
    <2>1. ASSUME NEW a \in acked, NEW b \in acked, a[1] = "idents", b[1] = "idents", a[2].home = b[2].home
          PROVE  a = b
      <3>1. a[2] \in files["idents"] /\ b[2] \in files["idents"]
        BY <1>1, <2>1
      <3>2. a[2] = b[2]
        BY <2>1, <3>1 DEF Valid, ValidIdentities
      <3> QED
        BY <1>1, <2>1, <3>2
    <2>2. ASSUME NEW a \in acked, NEW b \in acked, a[1] = "stores", b[1] = "stores", a[2].store = b[2].store
          PROVE  a = b
      <3>1. a[2] \in files["stores"] /\ b[2] \in files["stores"]
        BY <1>1, <2>2
      <3>2. a[2] = b[2]
        BY <2>2, <3>1 DEF Valid, ValidRegistry
      <3> QED
        BY <1>1, <2>2, <3>2
    <2> QED
      BY <2>1, <2>2 DEF NamesAreFixed
  <1>4. RegistriesAreSound
    BY <1>2, <1>3 DEF RegistriesAreSound, DocumentsLoad
  <1>5. RegistryTypeOK
    BY DEF RegistryTypeOK, FilesTyped, LocksInv, Held
  <1> QED
    BY <1>4, <1>5

\* For any processes, endpoints and homes: what a process was told is stored is not overwritten by another, no document
\* is left that the next process refuses, a home and a store keep the name they were given, and a registration leads to
\* the store it names, though processes race, fail or die at any step and files are replaced by rename. The homes may
\* move behind links and back; a home that vanishes behind one loses its identity when the file is next written
\* (endpoint/config.go, endpoint/builtin.go, controlreceiver/registry.go, lock_unix.go).
THEOREM RegistrySound ==
    ASSUME "vanished" \notin Places
    PROVE  RegistrySpec => []RegistriesAreSound
  <1>1. RegistryInv /\ [RegistryNext]_registryVars => RegistryInv'
    BY RegistryStep
  <1> QED
    BY <1>1, RegistryBegins, InvGivesRegistry, PTL DEF RegistrySpec

\* A lock is only ever held by a process that is working on the file it guards.
THEOREM RegistryTyped ==
    ASSUME "vanished" \notin Places
    PROVE  RegistrySpec => []RegistryTypeOK
  <1>1. RegistryInv /\ [RegistryNext]_registryVars => RegistryInv'
    BY RegistryStep
  <1> QED
    BY <1>1, RegistryBegins, InvGivesRegistry, PTL DEF RegistrySpec

-----------------------------------------------------------------------------
(***************************************************************************)
(* Artifacts: a name leads to a whole body.                                *)
(***************************************************************************)

(* Before a writer publishes, while it verifies what it found, and when it   *)
(* has compared the bytes.                                                  *)
Early == {"check", "create", "copy", "recheck", "publish"}
Verifying == {"stat", "hash", "restat", "confirm"}
Compared == {"restat", "confirm"}
Labels == Early \cup Verifying \cup {"unlink", "open"} \cup Ended

FileType == [body : Body, chunks : Nat, kind : {"regular", "wrongMode", "symlink"}, ctime : Nat]
LookType == [opened : Inode \cup {"none"}, ctime : Nat, attempt : Nat]

(* Where a writer stands (l), what it looked at (k), the files (f) and the   *)
(* name (n) agree.                                                          *)
Consistent(w, l, k, f, n) ==
    /\ l \in {"recheck", "publish"} => f[w].chunks = Chunks
    /\ l = "open" => n # "none"
    /\ l \in Verifying => k.opened \in Inode
    /\ l \in Compared => f[k.opened].body = task[w].body /\ f[k.opened].chunks = Chunks
    /\ k.attempt < MaxAttempts

(* Writers that spill the same bytes: what they find under the name stays    *)
(* there, and changes once, when its writer removes the temporary link.  So  *)
(* the number of attempts stays below the file's changes.                    *)
Alike == \A v, w \in Writer : task[v] = task[w] /\ How(w) = "spill"
Suits(f, n) == n = "old" => f["old"].kind = "regular" /\ \A w \in Writer : f["old"].body = task[w].body
Shares(w, l, k, f, n) ==
    /\ f["old"].ctime = 0 /\ f[w].ctime <= 2 /\ (n = w => 1 <= f[w].ctime)
    /\ l \in Early => f[w].ctime = 0
    /\ l \in Early \cup {"open"} => k.attempt = 0
    /\ l = "unlink" => f[w].ctime = 1
    /\ l \in Verifying => k.opened = n /\ (n \in Writer => k.attempt + 1 <= f[n].ctime)
                          /\ (n = "old" => k.attempt = 0)
    /\ l \in {"hash", "restat", "confirm"} => k.ctime <= f[n].ctime /\ (n \in Writer => k.attempt + 1 <= k.ctime)
    /\ Suits(f, n) => l # "conflict"

SpillInv ==
    /\ task \in [Writer -> [how : Hows, body : Body]] /\ pc \in [Writer -> Labels]
    /\ name \in Inode \cup {"none"} /\ temp \subseteq Writer
    /\ file \in [Inode -> FileType] /\ look \in [Writer -> LookType]
    /\ name # "none" => file[name].chunks = Chunks
    /\ \A w \in Writer : file[w].body = task[w].body /\ file[w].chunks <= Chunks
    /\ \A w \in temp : pc[w] \notin Ended \/ pc[w] \in {"published", "crashed"}
    /\ \A w \in Writer : Consistent(w, pc[w], look[w], file, name)
    /\ Alike => \A w \in Writer : Shares(w, pc[w], look[w], file, name)

-----------------------------------------------------------------------------
(* What a step of v may do to the files: write its own, change the times;    *)
(* the times of other writers' files only if somebody replaces one.         *)
FilesGo(v, f, g) ==
    /\ \A i \in Inode : /\ g[i].body = f[i].body /\ g[i].kind = f[i].kind
                        /\ f[i].ctime <= g[i].ctime
                        /\ f[i].chunks = Chunks => g[i].chunks = Chunks
    /\ Alike => \A i \in Inode \ {v} : g[i].ctime = f[i].ctime
(* And to the name.                                                         *)
NameGoes(v, n, m) == m = n \/ (m = v /\ (n = "none" \/ ~Alike))

LEMMA InodesDiffer == "old" \in Inode /\ "none" \notin Inode /\ "old" \notin Writer /\ Writer \subseteq Inode
BY SpillAssumption DEF Inode

LEMMA OthersConsistent ==
    ASSUME NEW v \in Writer, NEW w \in Writer, NEW l, NEW k, NEW f, NEW g, NEW n, NEW m,
           FilesGo(v, f, g), NameGoes(v, n, m), Consistent(w, l, k, f, n)
    PROVE  Consistent(w, l, k, g, m)
<1>1. w \in Inode /\ v # "none"
  BY InodesDiffer
<1>2. k.opened \in Inode => g[k.opened].body = f[k.opened].body
                            /\ (f[k.opened].chunks = Chunks => g[k.opened].chunks = Chunks)
  BY DEF FilesGo
<1>3. f[w].chunks = Chunks => g[w].chunks = Chunks
  BY <1>1 DEF FilesGo
<1>4. n # "none" => m # "none"
  BY <1>1 DEF NameGoes
<1> QED BY <1>2, <1>3, <1>4 DEF Consistent, Verifying, Compared

LEMMA SuitsStays ==
    ASSUME NEW v \in Writer, NEW f, NEW g, NEW n, NEW m,
           FilesGo(v, f, g), NameGoes(v, n, m), Alike, Suits(g, m)
    PROVE  Suits(f, n)
<1>1. "old" \in Inode /\ g["old"].body = f["old"].body /\ g["old"].kind = f["old"].kind
  BY InodesDiffer DEF FilesGo
<1>2. n = "old" => m = "old"
  BY DEF NameGoes
<1> QED BY <1>1, <1>2 DEF Suits

LEMMA OthersShare ==
    ASSUME NEW v \in Writer, NEW w \in Writer, w # v, NEW l, NEW k \in LookType,
           NEW f \in [Inode -> FileType], NEW g \in [Inode -> FileType],
           NEW n \in Inode \cup {"none"}, NEW m,
           FilesGo(v, f, g), NameGoes(v, n, m), Alike,
           Consistent(w, l, k, f, n), Shares(w, l, k, f, n)
    PROVE  Shares(w, l, k, g, m)
<1>1. w \in Inode \ {v} /\ "old" \in Inode \ {v}
  BY InodesDiffer
<1>2. g[w].ctime = f[w].ctime /\ g["old"].ctime = f["old"].ctime
  BY <1>1 DEF FilesGo
<1>3. m = w => n = w
  BY DEF NameGoes
<1>4. l \in Verifying => n # "none"
  BY InodesDiffer DEF Consistent, Shares
<1>5. l \in Verifying => m = n
  BY <1>4 DEF NameGoes
<1>6. n \in Inode => f[n].ctime <= g[n].ctime /\ f[n].ctime \in Nat /\ g[n].ctime \in Nat
  BY DEF FilesGo, FileType
<1>7. n \in Writer => n \in Inode
  BY InodesDiffer
<1>8. k.attempt \in Nat /\ k.ctime \in Nat
  BY DEF LookType
<1>9. l \in Verifying => k.opened = m /\ (m \in Writer => k.attempt + 1 <= g[m].ctime)
                         /\ (m = "old" => k.attempt = 0)
  BY <1>5, <1>6, <1>7, <1>8 DEF Shares
<1>10. l \in {"hash", "restat", "confirm"} =>
         k.ctime <= g[m].ctime /\ (m \in Writer => k.attempt + 1 <= k.ctime)
  <2>1. l \in {"hash", "restat", "confirm"} => l \in Verifying /\ n \in Inode
    BY <1>4 DEF Verifying
  <2> QED BY <1>5, <1>6, <1>8, <2>1 DEF Shares
<1>11. Suits(g, m) => l # "conflict"
  BY SuitsStays DEF Shares
<1>12. /\ g["old"].ctime = 0 /\ g[w].ctime <= 2 /\ (m = w => 1 <= g[w].ctime)
       /\ l \in Early => g[w].ctime = 0
       /\ l \in Early \cup {"open"} => k.attempt = 0
       /\ l = "unlink" => g[w].ctime = 1
  BY <1>2, <1>3 DEF Shares
<1> QED BY <1>9, <1>10, <1>11, <1>12 DEF Shares

(* One writer steps.                                                        *)
LEMMA WriterActs ==
    ASSUME SpillInv, NEW v \in Writer, NEW l \in Labels, NEW k \in LookType,
           task' = task, pc' = [pc EXCEPT ![v] = l], look' = [look EXCEPT ![v] = k],
           file' \in [Inode -> FileType], FilesGo(v, file, file'), NameGoes(v, name, name'),
           file'[v].chunks <= Chunks, \A i \in Inode \ {v} : file'[i].chunks = file[i].chunks,
           name' # "none" => file'[name'].chunks = Chunks,
           temp' \subseteq temp \cup {v},
           v \in temp' => l \notin Ended \/ l \in {"published", "crashed"},
           Consistent(v, l, k, file', name'),
           Alike => Shares(v, l, k, file', name')
    PROVE  SpillInv'
<1>1. pc' \in [Writer -> Labels] /\ look' \in [Writer -> LookType]
  BY DEF SpillInv
<1>2. \A w \in Writer : pc'[w] = (IF w = v THEN l ELSE pc[w]) /\ look'[w] = (IF w = v THEN k ELSE look[w])
  BY DEF SpillInv
<1>3. name' \in Inode \cup {"none"}
  BY InodesDiffer DEF SpillInv, NameGoes
<1>4. temp' \subseteq Writer
  BY DEF SpillInv
<1>5. ASSUME NEW w \in Writer PROVE file'[w].body = task'[w].body /\ file'[w].chunks <= Chunks
  <2>1. w \in Inode /\ file[w].body = task[w].body /\ file[w].chunks <= Chunks
    BY InodesDiffer DEF SpillInv
  <2>2. file'[w].body = file[w].body
    BY <2>1 DEF FilesGo
  <2>3. w # v => file'[w].chunks = file[w].chunks
    BY <2>1
  <2> QED BY <2>1, <2>2, <2>3
<1>6. ASSUME NEW w \in temp' PROVE pc'[w] \notin Ended \/ pc'[w] \in {"published", "crashed"}
  <2>1. w \in Writer /\ (w = v \/ w \in temp)
    BY <1>4, <1>6
  <2>2. CASE w = v
    BY <1>2, <1>6, <2>1, <2>2
  <2>3. CASE w # v
    BY <1>2, <2>1, <2>3 DEF SpillInv
  <2> QED BY <2>2, <2>3
<1>7. ASSUME NEW w \in Writer PROVE Consistent(w, pc'[w], look'[w], file', name')
  <2>1. CASE w = v
    BY <1>2, <2>1
  <2>2. CASE w # v
    <3>1. Consistent(w, pc[w], look[w], file, name)
      BY DEF SpillInv
    <3>2. Consistent(w, pc[w], look[w], file', name')
      BY <3>1, OthersConsistent
    <3> QED BY <1>2, <2>2, <3>2
  <2> QED BY <2>1, <2>2
<1>8. ASSUME NEW w \in Writer, Alike PROVE Shares(w, pc'[w], look'[w], file', name')
  <2>1. CASE w = v
    BY <1>2, <1>8, <2>1
  <2>2. CASE w # v
    <3>1. Consistent(w, pc[w], look[w], file, name) /\ Shares(w, pc[w], look[w], file, name)
          /\ look[w] \in LookType /\ file \in [Inode -> FileType] /\ name \in Inode \cup {"none"}
      BY <1>8 DEF SpillInv
    <3>2. Shares(w, pc[w], look[w], file', name')
      BY <1>8, <2>2, <3>1, OthersShare
    <3> QED BY <1>2, <2>2, <3>2
  <2> QED BY <2>1, <2>2
<1>9. Alike' => Alike
  BY DEF Alike, How
<1>10. \A w \in Writer : Consistent(w, pc[w], look[w], file, name)'
  BY <1>7 DEF Consistent
<1>11. Alike' => \A w \in Writer : Shares(w, pc[w], look[w], file, name)'
  <2>1. ASSUME NEW f, NEW n, Suits(f, n)' PROVE Suits(f, n)
    BY <2>1 DEF Suits
  <2> QED BY <1>8, <1>9 DEF Shares, Suits
<1>12. task' \in [Writer -> [how : Hows, body : Body]]
  BY DEF SpillInv
<1> QED BY <1>1, <1>3, <1>4, <1>5, <1>6, <1>10, <1>11, <1>12 DEF SpillInv

(* Most steps leave the files and the name alone.                           *)
LEMMA WriterMoves ==
    ASSUME SpillInv, NEW v \in Writer, NEW l \in Labels, NEW k \in LookType,
           UNCHANGED <<task, name, file>>, pc' = [pc EXCEPT ![v] = l], look' = [look EXCEPT ![v] = k],
           temp' \subseteq temp \cup {v},
           v \in temp' => l \notin Ended \/ l \in {"published", "crashed"},
           Consistent(v, l, k, file, name),
           Alike => Shares(v, l, k, file, name)
    PROVE  SpillInv'
<1>1. file \in [Inode -> FileType] /\ file[v].chunks <= Chunks
      /\ (name # "none" => file[name].chunks = Chunks)
  BY DEF SpillInv
<1>2. \A i \in Inode : file[i].ctime \in Nat
  BY <1>1 DEF FileType
<1>3. FilesGo(v, file, file') /\ NameGoes(v, name, name')
  BY <1>2 DEF FilesGo, NameGoes
<1>4. Consistent(v, l, k, file', name')
  OBVIOUS
<1>5. Alike => Shares(v, l, k, file', name')
  OBVIOUS
<1> QED BY <1>1, <1>3, <1>4, <1>5, WriterActs

LEMMA WriterTyped ==
    ASSUME SpillInv, NEW w \in Writer
    PROVE  /\ w \in Inode /\ look[w] \in LookType /\ look[w].attempt \in Nat /\ look[w].ctime \in Nat
           /\ Consistent(w, pc[w], look[w], file, name)
           /\ Alike => Shares(w, pc[w], look[w], file, name)
           /\ task[w].how \in Hows /\ How(w) = task[w].how
           /\ file[w] \in FileType /\ file[w].body = task[w].body
<1>1. look[w] \in LookType /\ w \in Inode
  BY InodesDiffer DEF SpillInv
<1>2. look[w].attempt \in Nat /\ look[w].ctime \in Nat
  BY <1>1 DEF LookType
<1> QED BY <1>1, <1>2 DEF SpillInv, How

(* The same look at another stage that promises nothing.                    *)
LEMMA WriterEnds ==
    ASSUME SpillInv, NEW v \in Writer, NEW l \in Ended,
           UNCHANGED <<task, name, file, look>>, pc' = [pc EXCEPT ![v] = l],
           temp' \subseteq temp, v \in temp' => l \in {"published", "crashed"},
           Alike /\ Suits(file, name) => l # "conflict"
    PROVE  SpillInv'
<1>1. l \in Labels /\ l \notin Early \cup Verifying \cup {"open", "unlink"}
  BY DEF Labels, Ended, Early, Verifying
<1>2. look[v] \in LookType /\ Consistent(v, pc[v], look[v], file, name)
      /\ (Alike => Shares(v, pc[v], look[v], file, name))
  BY WriterTyped
<1>3. Consistent(v, l, look[v], file, name)
  BY <1>1, <1>2 DEF Consistent, Early, Verifying, Compared
<1>4. Alike => Shares(v, l, look[v], file, name)
  BY <1>1, <1>2 DEF Shares, Verifying
<1>5. look' = [look EXCEPT ![v] = look[v]]
  BY DEF SpillInv
<1> QED BY <1>1, <1>2, <1>3, <1>4, <1>5, WriterMoves

LEMMA WriterGivesUp ==
    ASSUME SpillInv, NEW v \in Writer, NEW l \in Ended, GivesUp(v, l),
           UNCHANGED <<task, name, file, look>>,
           Alike /\ Suits(file, name) => l # "conflict"
    PROVE  SpillInv'
BY WriterEnds DEF GivesUp, WriterGoes

LEMMA TargetChecked ==
    ASSUME SpillInv, NEW w \in Writer, Check(w)
    PROVE  SpillInv'
<1>1. UNCHANGED <<task, name, file, look>> /\ pc[w] \in {"check", "recheck"}
  BY DEF Check
<1>2. CASE ~Admits(w)
  <2>1. GivesUp(w, "refused")
    BY <1>2 DEF Check
  <2> QED BY <1>1, <2>1, WriterGivesUp DEF Ended
<1>3. CASE Admits(w)
  <2> DEFINE l == IF pc[w] = "check" THEN "create" ELSE "publish"
  <2>1. pc' = [pc EXCEPT ![w] = l] /\ temp' = temp
    BY <1>3 DEF Check, WriterGoes
  <2>2. l \in {"create", "publish"} /\ (l = "publish" => pc[w] = "recheck")
    BY <1>1
  <2> HIDE DEF l
  <2>3. l \in Labels /\ l \notin Ended \cup Verifying \cup {"open", "unlink", "recheck"}
    BY <2>2 DEF Labels, Ended, Early, Verifying
  <2>4. look[w] \in LookType /\ Consistent(w, pc[w], look[w], file, name)
        /\ (Alike => Shares(w, pc[w], look[w], file, name))
    BY WriterTyped
  <2>5. Consistent(w, l, look[w], file, name)
    BY <2>2, <2>3, <2>4 DEF Consistent, Verifying, Compared
  <2>6. Alike => Shares(w, l, look[w], file, name)
    BY <1>1, <2>2, <2>3, <2>4 DEF Shares, Early, Verifying
  <2>7. look' = [look EXCEPT ![w] = look[w]]
    BY <1>1 DEF SpillInv
  <2> QED BY <1>1, <2>1, <2>3, <2>4, <2>5, <2>6, <2>7, WriterMoves
<1> QED BY <1>2, <1>3

(* The temporary file is the writer's own: others see nothing of it.        *)
LEMMA WriterWrites ==
    ASSUME SpillInv, NEW w \in Writer, pc[w] \in {"create", "copy"}, NEW l \in {"copy", "recheck"},
           UNCHANGED <<task, name, file, look>>, pc' = [pc EXCEPT ![w] = l],
           temp' \subseteq temp \cup {w}, l = "recheck" => file[w].chunks = Chunks
    PROVE  SpillInv'
<1>1. look[w] \in LookType /\ Consistent(w, pc[w], look[w], file, name)
      /\ (Alike => Shares(w, pc[w], look[w], file, name))
  BY WriterTyped
<1>2. l \in Labels /\ l \notin Ended \cup Verifying \cup {"open", "unlink", "publish"}
  BY DEF Labels, Ended, Early, Verifying
<1>3. Consistent(w, l, look[w], file, name)
  BY <1>1, <1>2 DEF Consistent, Verifying, Compared
<1>4. Alike => Shares(w, l, look[w], file, name)
  BY <1>1, <1>2 DEF Shares, Early, Verifying
<1>5. look' = [look EXCEPT ![w] = look[w]]
  BY DEF SpillInv
<1> QED BY <1>1, <1>2, <1>3, <1>4, <1>5, WriterMoves

LEMMA TempCreated ==
    ASSUME SpillInv, NEW w \in Writer, CreateTemp(w)
    PROVE  SpillInv'
BY WriterWrites DEF CreateTemp, WriterGoes

LEMMA CopyEnded ==
    ASSUME SpillInv, NEW w \in Writer, CopyEnds(w)
    PROVE  SpillInv'
BY WriterWrites DEF CopyEnds, WriterGoes

LEMMA CopyFailed ==
    ASSUME SpillInv, NEW w \in Writer, CopyFails(w)
    PROVE  SpillInv'
BY WriterGivesUp DEF CopyFails, Ended

(* A file that is still being written has no name.                          *)
LEMMA CopyGoesOn ==
    ASSUME SpillInv, NEW w \in Writer, Copy(w)
    PROVE  SpillInv'
<1> DEFINE r == [file[w] EXCEPT !.chunks = @ + 1]
<1>1. /\ pc[w] = "copy" /\ file[w].chunks < Chunks /\ file' = [file EXCEPT ![w] = r]
      /\ UNCHANGED <<task, pc, name, temp, look>>
  BY DEF Copy
<1>2. w \in Inode /\ look[w] \in LookType /\ file[w] \in FileType /\ Consistent(w, pc[w], look[w], file, name)
      /\ (Alike => Shares(w, pc[w], look[w], file, name))
  BY WriterTyped
<1>3. file[w].chunks \in Nat /\ file[w].ctime \in Nat
  BY <1>2 DEF FileType
<1>4. /\ r \in FileType /\ r.chunks = file[w].chunks + 1 /\ r.body = file[w].body
      /\ r.kind = file[w].kind /\ r.ctime = file[w].ctime
  BY <1>2, <1>3 DEF FileType
<1> HIDE DEF r
<1>5. file' \in [Inode -> FileType] /\ \A i \in Inode : file'[i] = IF i = w THEN r ELSE file[i]
  BY <1>1, <1>2, <1>4 DEF SpillInv
<1>6. file'[w].chunks <= Chunks
  BY <1>1, <1>2, <1>3, <1>4, <1>5 DEF Chunks
<1>7. FilesGo(w, file, file')
  <2>1. \A i \in Inode : file[i].ctime \in Nat
    BY DEF SpillInv, FileType
  <2>2. file[w].chunks # Chunks
    BY <1>1 DEF SpillInv, Chunks
  <2> QED BY <1>4, <1>5, <2>1, <2>2 DEF FilesGo
<1>8. name # "none" => file'[name'].chunks = Chunks
  <2>1. name # "none" => name \in Inode /\ file[name].chunks = Chunks /\ name # w
    BY <1>1 DEF SpillInv, Chunks
  <2> QED BY <1>1, <1>5, <2>1
<1>9. "copy" \in Labels /\ "copy" \in Early /\ "copy" \notin Ended \cup Verifying
  BY DEF Labels, Ended, Early, Verifying
<1>10. Consistent(w, "copy", look[w], file', name')
  BY <1>2, <1>9 DEF Consistent, Compared, Verifying
<1>11. Alike => Shares(w, "copy", look[w], file', name')
  <2>1. "old" \in Inode /\ "old" # w
    BY InodesDiffer
  <2>2. file'["old"].ctime = file["old"].ctime /\ file'[w].ctime = file[w].ctime
    BY <1>2, <1>4, <1>5, <2>1
  <2> QED BY <1>1, <1>2, <1>9, <2>2 DEF Shares, Early, Verifying
<1>12. pc' = [pc EXCEPT ![w] = "copy"] /\ look' = [look EXCEPT ![w] = look[w]]
  BY <1>1 DEF SpillInv
<1>13. NameGoes(w, name, name') /\ (name' # "none" => file'[name'].chunks = Chunks)
       /\ (\A i \in Inode \ {w} : file'[i].chunks = file[i].chunks) /\ temp' \subseteq temp \cup {w}
  BY <1>1, <1>5, <1>8 DEF NameGoes
<1> QED BY <1>1, <1>2, <1>5, <1>6, <1>7, <1>9, <1>10, <1>11, <1>12, <1>13, WriterActs

(* Publishing and removing a link only count up the changes of files.       *)
LEMMA BumpCounts ==
    ASSUME SpillInv, NEW w \in Writer, NEW is, file' = Bump(file, is), ~Alike \/ is \ {w} = {}
    PROVE  /\ file' \in [Inode -> FileType] /\ FilesGo(w, file, file')
           /\ \A i \in Inode : file'[i].chunks = file[i].chunks
           /\ \A i \in Inode : file'[i].ctime = IF i \in is THEN file[i].ctime + 1 ELSE file[i].ctime
<1>1. ASSUME NEW i \in Inode
      PROVE  /\ file'[i] \in FileType /\ file'[i].chunks = file[i].chunks
             /\ file'[i].body = file[i].body /\ file'[i].kind = file[i].kind
             /\ file'[i].ctime = IF i \in is THEN file[i].ctime + 1 ELSE file[i].ctime
  <2>1. file[i] \in FileType
    BY DEF SpillInv
  <2>2. file[i].ctime \in Nat
    BY <2>1 DEF FileType
  <2> DEFINE r == [file[i] EXCEPT !.ctime = @ + 1]
  <2>3. /\ r \in FileType /\ r.chunks = file[i].chunks /\ r.body = file[i].body
        /\ r.kind = file[i].kind /\ r.ctime = file[i].ctime + 1
    BY <2>1, <2>2 DEF FileType
  <2>4. file'[i] = IF i \in is THEN r ELSE file[i]
    BY DEF Bump
  <2> HIDE DEF r
  <2> QED BY <2>1, <2>3, <2>4
<1>2. file' \in [Inode -> FileType]
  <2>1. file' = [i \in Inode |-> file'[i]]
    BY DEF Bump
  <2> QED BY <1>1, <2>1
<1>3. \A i \in Inode : file[i].ctime <= file'[i].ctime
  <2>1. \A i \in Inode : file[i].ctime \in Nat
    BY DEF SpillInv, FileType
  <2> QED BY <1>1, <2>1
<1>4. Alike => \A i \in Inode \ {w} : file'[i].ctime = file[i].ctime
  BY <1>1
<1> QED BY <1>1, <1>2, <1>3, <1>4 DEF FilesGo

LEMMA NamePublished ==
    ASSUME SpillInv, NEW w \in Writer, Publish(w)
    PROVE  SpillInv'
<1>1. pc[w] = "publish" /\ UNCHANGED <<task, look>>
  BY DEF Publish
<1>2. /\ w \in Inode /\ look[w] \in LookType /\ Consistent(w, pc[w], look[w], file, name)
      /\ (Alike => Shares(w, pc[w], look[w], file, name)) /\ file[w] \in FileType
  BY WriterTyped
<1>3. file[w].chunks = Chunks /\ file[w].ctime \in Nat
  BY <1>1, <1>2 DEF Consistent, FileType
<1>4. look' = [look EXCEPT ![w] = look[w]]
  BY <1>1 DEF SpillInv
<1>5. CASE How(w) = "force" /\ name' = w /\ file' = Bump(file, {w, name}) /\ GivesUp(w, "receipt")
  <2>1. ~Alike
    BY <1>5 DEF Alike
  <2>2. /\ file' \in [Inode -> FileType] /\ FilesGo(w, file, file')
        /\ \A i \in Inode : file'[i].chunks = file[i].chunks
    BY <1>5, <2>1, BumpCounts
  <2>3. "receipt" \in Ended /\ "receipt" \in Labels /\ "receipt" \notin Early \cup Verifying \cup {"open"}
    BY DEF Ended, Labels, Early, Verifying
  <2>4. Consistent(w, "receipt", look[w], file', name')
    BY <1>2, <2>3 DEF Consistent, Compared, Early, Verifying
  <2>5. pc' = [pc EXCEPT ![w] = "receipt"] /\ temp' = temp \ {w} /\ NameGoes(w, name, name')
    BY <1>5, <2>1 DEF GivesUp, WriterGoes, NameGoes
  <2>6. file'[w].chunks <= Chunks /\ file'[name'].chunks = Chunks
    <3>1. file'[w].chunks = Chunks /\ name' = w
      BY <1>2, <1>3, <1>5, <2>2
    <3> QED BY <3>1 DEF Chunks
  <2> QED BY <1>1, <1>2, <1>4, <2>1, <2>2, <2>3, <2>4, <2>5, <2>6, WriterActs
<1>6. CASE /\ How(w) # "force" /\ name = "none"
           /\ name' = w /\ file' = Bump(file, {w}) /\ WriterGoes(w, "unlink") /\ UNCHANGED temp
  <2>1. /\ file' \in [Inode -> FileType] /\ FilesGo(w, file, file')
        /\ \A i \in Inode : file'[i].chunks = file[i].chunks
        /\ \A i \in Inode : file'[i].ctime = IF i \in {w} THEN file[i].ctime + 1 ELSE file[i].ctime
    <3>1. {w} \ {w} = {}
      OBVIOUS
    <3> QED BY <1>6, <3>1, BumpCounts
  <2>2. "unlink" \in Labels /\ "unlink" \notin Early \cup Verifying \cup {"open"} \cup Ended
    BY DEF Ended, Labels, Early, Verifying
  <2>3. Consistent(w, "unlink", look[w], file', name')
    BY <1>2, <2>2 DEF Consistent, Compared, Early, Verifying
  <2>4. Alike => Shares(w, "unlink", look[w], file', name')
    <3>1. "old" \in Inode \ {w} /\ file'["old"].ctime = file["old"].ctime /\ file'[w].ctime = file[w].ctime + 1
      BY <1>2, <2>1, InodesDiffer
    <3>2. Alike => file["old"].ctime = 0 /\ file[w].ctime = 0
      BY <1>1, <1>2 DEF Shares, Early
    <3> QED BY <2>2, <3>1, <3>2 DEF Shares, Verifying
  <2>5. pc' = [pc EXCEPT ![w] = "unlink"] /\ NameGoes(w, name, name')
    BY <1>6 DEF WriterGoes, NameGoes
  <2>6. file'[w].chunks <= Chunks /\ file'[name'].chunks = Chunks
    <3>1. file'[w].chunks = Chunks /\ name' = w
      BY <1>2, <1>3, <1>6, <2>1
    <3> QED BY <3>1 DEF Chunks
  <2> QED BY <1>1, <1>2, <1>4, <1>6, <2>1, <2>2, <2>3, <2>4, <2>5, <2>6, WriterActs
<1>7. CASE How(w) # "force" /\ name # "none" /\ UNCHANGED <<name, file>> /\ GivesUp(w, "refused")
  BY <1>1, <1>7, WriterGivesUp DEF Ended
<1>8. CASE How(w) # "force" /\ name # "none" /\ UNCHANGED <<name, file>> /\ WriterGoes(w, "open") /\ UNCHANGED temp
  <2>1. "open" \in Labels /\ "open" \notin Early \cup Verifying \cup {"unlink"} \cup Ended
    BY DEF Ended, Labels, Early, Verifying
  <2>2. Consistent(w, "open", look[w], file, name)
    BY <1>2, <1>8, <2>1 DEF Consistent, Compared, Early, Verifying
  <2>3. Alike => Shares(w, "open", look[w], file, name)
    BY <1>1, <1>2, <2>1 DEF Shares, Early, Verifying
  <2>4. pc' = [pc EXCEPT ![w] = "open"]
    BY <1>8 DEF WriterGoes
  <2> QED BY <1>1, <1>2, <1>4, <1>8, <2>1, <2>2, <2>3, <2>4, WriterMoves
<1> QED BY <1>5, <1>6, <1>7, <1>8 DEF Publish

LEMMA LinkRemoved ==
    ASSUME SpillInv, NEW w \in Writer, Unlink(w)
    PROVE  SpillInv'
<1>1. pc[w] = "unlink" /\ UNCHANGED <<task, name, look>>
  BY DEF Unlink
<1>2. CASE WriterGoes(w, "published") /\ UNCHANGED <<temp, file>>
  BY <1>1, <1>2, WriterEnds DEF WriterGoes, Ended
<1>3. CASE GivesUp(w, "receipt") /\ file' = Bump(file, {w})
  <2>1. /\ w \in Inode /\ look[w] \in LookType /\ Consistent(w, pc[w], look[w], file, name)
        /\ (Alike => Shares(w, pc[w], look[w], file, name)) /\ file[w] \in FileType
    BY WriterTyped
  <2>2. /\ file' \in [Inode -> FileType] /\ FilesGo(w, file, file')
        /\ \A i \in Inode : file'[i].chunks = file[i].chunks
        /\ \A i \in Inode : file'[i].ctime = IF i \in {w} THEN file[i].ctime + 1 ELSE file[i].ctime
    <3>1. {w} \ {w} = {}
      OBVIOUS
    <3> QED BY <1>3, <3>1, BumpCounts
  <2>3. "receipt" \in Labels /\ "receipt" \notin Early \cup Verifying \cup {"open", "unlink"}
    BY DEF Ended, Labels, Early, Verifying
  <2>4. Consistent(w, "receipt", look[w], file', name')
    BY <2>1, <2>3 DEF Consistent, Compared, Early, Verifying
  <2>5. Alike => Shares(w, "receipt", look[w], file', name')
    <3>1. "old" \in Inode \ {w} /\ file'["old"].ctime = file["old"].ctime /\ file'[w].ctime = file[w].ctime + 1
      BY <2>1, <2>2, InodesDiffer
    <3>2. Alike => file["old"].ctime = 0 /\ file[w].ctime = 1
      BY <1>1, <2>1 DEF Shares
    <3> QED BY <2>3, <3>1, <3>2 DEF Shares, Verifying
  <2>6. pc' = [pc EXCEPT ![w] = "receipt"] /\ temp' = temp \ {w} /\ NameGoes(w, name, name')
    BY <1>1, <1>3 DEF GivesUp, WriterGoes, NameGoes
  <2>7. file'[w].chunks <= Chunks /\ (name' # "none" => file'[name'].chunks = Chunks)
    BY <1>1, <2>1, <2>2 DEF SpillInv
  <2>8. look' = [look EXCEPT ![w] = look[w]]
    BY <1>1 DEF SpillInv
  <2> QED BY <1>1, <2>1, <2>2, <2>3, <2>4, <2>5, <2>6, <2>7, <2>8, WriterActs
<1> QED BY <1>2, <1>3 DEF Unlink

(* Reuse begins at the file the name leads to, which is whole.              *)
LEMMA ExistingOpened ==
    ASSUME SpillInv, NEW w \in Writer, OpenExisting(w)
    PROVE  SpillInv'
<1>1. pc[w] = "open" /\ UNCHANGED <<task, name, file>>
  BY DEF OpenExisting
<1>2. CASE GivesUp(w, "failed") /\ UNCHANGED look
  BY <1>1, <1>2, WriterGivesUp DEF Ended
<1>3. CASE WriterGoes(w, "stat") /\ look' = [look EXCEPT ![w].opened = name] /\ UNCHANGED temp
  <2> DEFINE k == [look[w] EXCEPT !.opened = name]
  <2>1. /\ w \in Inode /\ look[w] \in LookType /\ Consistent(w, pc[w], look[w], file, name)
        /\ (Alike => Shares(w, pc[w], look[w], file, name))
    BY WriterTyped
  <2>2. name \in Inode
    BY <1>1, <2>1 DEF Consistent, SpillInv
  <2>3. k \in LookType /\ k.opened = name /\ k.attempt = look[w].attempt
    BY <2>1, <2>2 DEF LookType
  <2>4. look' = [look EXCEPT ![w] = k] /\ pc' = [pc EXCEPT ![w] = "stat"]
    BY <1>3 DEF WriterGoes
  <2> HIDE DEF k
  <2>5. "stat" \in Labels /\ "stat" \notin Early \cup Compared \cup {"open", "unlink", "hash"} \cup Ended
    BY DEF Ended, Labels, Early, Verifying, Compared
  <2>6. Consistent(w, "stat", k, file, name)
    BY <2>1, <2>2, <2>3, <2>5 DEF Consistent, Early
  <2>7. Alike => Shares(w, "stat", k, file, name)
    <3>1. ASSUME Alike, name \in Writer PROVE 1 <= file[name].ctime
      BY <3>1, WriterTyped DEF Shares
    <3>2. Alike => k.attempt = 0
      BY <1>1, <2>1, <2>3 DEF Shares
    <3>3. ASSUME Alike, name \in Writer PROVE k.attempt + 1 <= file[name].ctime
      BY <3>1, <3>2, <3>3
    <3> QED BY <2>1, <2>3, <2>5, <3>2, <3>3 DEF Shares, Compared
  <2> QED BY <1>1, <1>3, <2>3, <2>4, <2>5, <2>6, <2>7, WriterMoves
<1> QED BY <1>2, <1>3 DEF OpenExisting

LEMMA ExistingStated ==
    ASSUME SpillInv, NEW w \in Writer, Stat(w)
    PROVE  SpillInv'
<1>1. pc[w] = "stat" /\ UNCHANGED <<task, name, file>>
  BY DEF Stat
<1>2. CASE GivesUp(w, "failed") /\ UNCHANGED look
  BY <1>1, <1>2, WriterGivesUp DEF Ended
<1>3. CASE WriterGoes(w, "hash") /\ look' = [look EXCEPT ![w].ctime = file[look[w].opened].ctime] /\ UNCHANGED temp
  <2> DEFINE t == file[look[w].opened].ctime
             k == [look[w] EXCEPT !.ctime = t]
  <2>1. /\ look[w] \in LookType /\ Consistent(w, pc[w], look[w], file, name)
        /\ (Alike => Shares(w, pc[w], look[w], file, name))
    BY WriterTyped
  <2>2. look[w].opened \in Inode /\ t \in Nat
    BY <1>1, <2>1 DEF Consistent, Verifying, SpillInv, FileType
  <2>3. k \in LookType /\ k.opened = look[w].opened /\ k.attempt = look[w].attempt /\ k.ctime = t
    BY <2>1, <2>2 DEF LookType
  <2>4. look' = [look EXCEPT ![w] = k] /\ pc' = [pc EXCEPT ![w] = "hash"]
    BY <1>3 DEF WriterGoes
  <2>5. Alike => t = file[name].ctime
    BY <1>1, <2>1 DEF Shares, Verifying
  <2> HIDE DEF k, t
  <2>6. "hash" \in Labels /\ "hash" \in Verifying
        /\ "hash" \notin Early \cup Compared \cup {"open", "unlink"} \cup Ended
    BY DEF Ended, Labels, Early, Verifying, Compared
  <2>7. Consistent(w, "hash", k, file, name)
    BY <2>1, <2>2, <2>3, <2>6 DEF Consistent, Early
  <2>8. Alike => Shares(w, "hash", k, file, name)
    <3>1. Alike => /\ look[w].opened = name
                   /\ (name \in Writer => look[w].attempt + 1 <= file[name].ctime)
                   /\ (name = "old" => look[w].attempt = 0)
      BY <1>1, <2>1 DEF Shares, Verifying
    <3> QED BY <2>1, <2>2, <2>3, <2>5, <2>6, <3>1 DEF Shares, Compared
  <2> QED BY <1>1, <1>3, <2>3, <2>4, <2>6, <2>7, <2>8, WriterMoves
<1> QED BY <1>2, <1>3 DEF Stat

(* Writers of the same bytes find the same bytes.                           *)
LEMMA ExistingHashed ==
    ASSUME SpillInv, NEW w \in Writer, Hash(w)
    PROVE  SpillInv'
<1> DEFINE f == file[look[w].opened]
<1>1. pc[w] = "hash" /\ UNCHANGED <<task, name, file, look>>
  BY DEF Hash
<1>2. /\ look[w] \in LookType /\ Consistent(w, pc[w], look[w], file, name)
      /\ (Alike => Shares(w, pc[w], look[w], file, name)) /\ look[w].opened \in Inode
  BY <1>1, WriterTyped DEF Consistent, Verifying
<1>3. CASE f.body = task[w].body /\ f.chunks = Chunks
  <2>1. pc' = [pc EXCEPT ![w] = "restat"] /\ temp' = temp
    BY <1>3 DEF Hash, WriterGoes
  <2>2. "restat" \in Labels /\ "restat" \in Verifying
        /\ "restat" \notin Early \cup {"open", "unlink"} \cup Ended
    BY DEF Ended, Labels, Early, Verifying
  <2>3. Consistent(w, "restat", look[w], file, name)
    BY <1>2, <1>3, <2>2 DEF Consistent, Early
  <2>4. Alike => Shares(w, "restat", look[w], file, name)
    BY <1>1, <1>2, <2>2 DEF Shares, Verifying
  <2>5. look' = [look EXCEPT ![w] = look[w]]
    BY <1>1 DEF SpillInv
  <2> QED BY <1>1, <1>2, <2>1, <2>2, <2>3, <2>4, <2>5, WriterMoves
<1>4. CASE ~(f.body = task[w].body /\ f.chunks = Chunks)
  <2>1. GivesUp(w, "conflict")
    BY <1>4 DEF Hash
  <2>2. ASSUME Alike, Suits(file, name) PROVE FALSE
    <3>1. look[w].opened = name
      BY <1>1, <1>2, <2>2 DEF Shares, Verifying
    <3>2. name \in Inode /\ file[name].chunks = Chunks
      BY <1>2, <3>1, InodesDiffer DEF SpillInv
    <3>3. name = "old" => file[name].body = task[w].body
      BY <2>2 DEF Suits
    <3>4. name \in Writer => file[name].body = task[name].body /\ task[name] = task[w]
      BY <2>2 DEF SpillInv, Alike
    <3> QED BY <1>4, <3>1, <3>2, <3>3, <3>4 DEF Inode
  <2> QED BY <1>1, <2>1, <2>2, WriterGivesUp DEF Ended
<1> QED BY <1>3, <1>4

(* Each new attempt is paid for by a change of the file, of which a file    *)
(* that is shared has two.                                                  *)
LEMMA VerificationRepeats ==
    ASSUME SpillInv, NEW w \in Writer, pc[w] \in Compared, Again(w), Drifted(w),
           UNCHANGED <<task, name, file>>
    PROVE  SpillInv'
<1>1. /\ look[w] \in LookType /\ Consistent(w, pc[w], look[w], file, name)
      /\ (Alike => Shares(w, pc[w], look[w], file, name))
      /\ look[w].attempt \in Nat /\ look[w].ctime \in Nat
  BY WriterTyped
<1>2. look[w].opened \in Inode /\ file[look[w].opened].ctime \in Nat /\ file[look[w].opened].ctime # look[w].ctime
  BY <1>1 DEF Consistent, Verifying, Compared, SpillInv, FileType, Drifted
<1>3. ASSUME Alike
      PROVE  name \in Writer /\ look[w].opened = name /\ look[w].attempt + 2 <= file[name].ctime
             /\ file[name].ctime <= 2
  <2>1. /\ look[w].opened = name /\ look[w].ctime <= file[name].ctime
        /\ (name \in Writer => look[w].attempt + 1 <= look[w].ctime) /\ file["old"].ctime = 0
    BY <1>1, <1>3 DEF Shares, Verifying, Compared
  <2>2. name # "old"
    BY <1>1, <1>2, <2>1
  <2>3. name \in Writer
    BY <1>2, <2>1, <2>2 DEF Inode
  <2>4. file[name].ctime <= 2
    BY <1>3, <2>3, WriterTyped DEF Shares
  <2> QED BY <1>1, <1>2, <2>1, <2>3, <2>4
<1>4. CASE /\ look[w].attempt + 1 < MaxAttempts
           /\ WriterGoes(w, "stat") /\ look' = [look EXCEPT ![w].attempt = @ + 1] /\ UNCHANGED temp
  <2> DEFINE k == [look[w] EXCEPT !.attempt = @ + 1]
  <2>1. k \in LookType /\ k.opened = look[w].opened /\ k.attempt = look[w].attempt + 1 /\ k.ctime = look[w].ctime
    BY <1>1 DEF LookType
  <2>2. look' = [look EXCEPT ![w] = k] /\ pc' = [pc EXCEPT ![w] = "stat"]
    BY <1>4 DEF WriterGoes
  <2> HIDE DEF k
  <2>3. "stat" \in Labels /\ "stat" \notin Early \cup Compared \cup {"open", "unlink", "hash"} \cup Ended
    BY DEF Ended, Labels, Early, Verifying, Compared
  <2>4. Consistent(w, "stat", k, file, name)
    BY <1>2, <1>4, <2>1, <2>3 DEF Consistent, Early
  <2>5. Alike => Shares(w, "stat", k, file, name)
    <3>1. ASSUME Alike
          PROVE  k.opened = name /\ k.attempt + 1 <= file[name].ctime /\ name # "old"
      BY <1>1, <1>2, <1>3, <2>1, <3>1, InodesDiffer
    <3> QED BY <1>1, <2>3, <3>1 DEF Shares, Compared
  <2> QED BY <1>4, <2>1, <2>2, <2>3, <2>4, <2>5, WriterMoves
<1>5. CASE look[w].attempt + 1 < MaxAttempts /\ GivesUp(w, "canceled") /\ UNCHANGED look
  BY <1>5, WriterGivesUp DEF Ended
<1>6. CASE look[w].attempt + 1 = MaxAttempts /\ GivesUp(w, "conflict") /\ UNCHANGED look
  <2>1. ~Alike
    BY <1>1, <1>2, <1>3, <1>6 DEF MaxAttempts
  <2> QED BY <1>6, <2>1, WriterGivesUp DEF Ended
<1> QED BY <1>4, <1>5, <1>6 DEF Again

LEMMA ExistingRestated ==
    ASSUME SpillInv, NEW w \in Writer, Restat(w)
    PROVE  SpillInv'
<1>1. pc[w] = "restat" /\ UNCHANGED <<task, name, file>>
  BY DEF Restat
<1>2. CASE Drifted(w)
  BY <1>1, <1>2, VerificationRepeats DEF Restat, Compared
<1>3. CASE ~Drifted(w)
  <2>1. pc' = [pc EXCEPT ![w] = "confirm"] /\ UNCHANGED <<temp, look>>
    BY <1>3 DEF Restat, WriterGoes
  <2>2. /\ look[w] \in LookType /\ Consistent(w, pc[w], look[w], file, name)
        /\ (Alike => Shares(w, pc[w], look[w], file, name))
    BY WriterTyped
  <2>3. "confirm" \in Labels /\ "confirm" \in Verifying
        /\ "confirm" \notin Early \cup {"open", "unlink"} \cup Ended
    BY DEF Ended, Labels, Early, Verifying
  <2>4. Consistent(w, "confirm", look[w], file, name)
    BY <1>1, <2>2, <2>3 DEF Consistent, Early, Compared, Verifying
  <2>5. Alike => Shares(w, "confirm", look[w], file, name)
    BY <1>1, <2>2, <2>3 DEF Shares, Verifying
  <2>6. look' = [look EXCEPT ![w] = look[w]]
    BY <2>1 DEF SpillInv
  <2> QED BY <1>1, <2>1, <2>2, <2>3, <2>4, <2>5, <2>6, WriterMoves
<1> QED BY <1>2, <1>3

LEMMA ReuseConfirmed ==
    ASSUME SpillInv, NEW w \in Writer, Confirm(w)
    PROVE  SpillInv'
<1>1. pc[w] = "confirm" /\ UNCHANGED <<task, name, file>>
  BY DEF Confirm
<1>2. CASE file[name].kind # "regular"
  <2>1. GivesUp(w, "failed") /\ UNCHANGED look
    BY <1>2 DEF Confirm
  <2> QED BY <1>1, <2>1, WriterGivesUp DEF Ended
<1>3. CASE file[name].kind = "regular" /\ name # look[w].opened
  <2>1. GivesUp(w, "conflict") /\ UNCHANGED look
    BY <1>3 DEF Confirm
  <2>2. ~Alike
    BY <1>1, <1>3, WriterTyped DEF Shares, Verifying
  <2> QED BY <1>1, <2>1, <2>2, WriterGivesUp DEF Ended
<1>4. CASE file[name].kind = "regular" /\ name = look[w].opened /\ Drifted(w)
  BY <1>1, <1>4, VerificationRepeats DEF Confirm, Compared
<1>5. CASE file[name].kind = "regular" /\ name = look[w].opened /\ ~Drifted(w)
  <2>1. GivesUp(w, "receipt") /\ UNCHANGED look
    BY <1>5 DEF Confirm
  <2> QED BY <1>1, <2>1, WriterGivesUp DEF Ended
<1> QED BY <1>2, <1>3, <1>4, <1>5

LEMMA WriterDies ==
    ASSUME SpillInv, NEW w \in Writer, Crash(w)
    PROVE  SpillInv'
BY WriterEnds DEF Crash, WriterGoes, Ended

LEMMA SpillBegins == SpillInit => SpillInv
<1> SUFFICES ASSUME SpillInit PROVE SpillInv
  OBVIOUS
<1>1. /\ task \in [Writer -> [how : Hows, body : Body]]
      /\ pc = [w \in Writer |-> "check"] /\ name \in {"none", "old"} /\ temp = {}
      /\ look = [w \in Writer |-> [opened |-> "none", ctime |-> 0, attempt |-> 0]]
  BY DEF SpillInit
<1>2. PICK b \in Body, q \in {"regular", "wrongMode", "symlink"} :
        file = [i \in Inode |-> IF i = "old" THEN [body |-> b, chunks |-> Chunks, kind |-> q, ctime |-> 0]
                                ELSE [body |-> task[i].body, chunks |-> 0, kind |-> "regular", ctime |-> 0]]
  BY DEF SpillInit
<1>3. ASSUME NEW w \in Writer
      PROVE  /\ file[w].body = task[w].body /\ file[w].chunks = 0 /\ file[w].ctime = 0
             /\ file[w] \in FileType
  <2>1. w \in Inode /\ w # "old" /\ task[w].body \in Body
    BY <1>1, InodesDiffer
  <2> QED BY <1>2, <2>1 DEF FileType
<1>4. /\ file["old"].chunks = Chunks /\ file["old"].ctime = 0
      /\ file["old"] \in FileType
  BY <1>2, InodesDiffer DEF FileType, Chunks
<1>5. file \in [Inode -> FileType]
  <2>1. \A i \in Inode : file[i] \in FileType
    BY <1>3, <1>4 DEF Inode
  <2>2. file = [i \in Inode |-> file[i]]
    BY <1>2
  <2> QED BY <2>1, <2>2
<1>6. look \in [Writer -> LookType] /\ pc \in [Writer -> Labels]
  BY <1>1 DEF LookType, Labels, Early
<1>7. "check" \in Early /\ "check" \notin Verifying \cup Compared \cup {"open", "unlink", "recheck", "publish"}
  BY DEF Early, Verifying, Compared
<1>8. ASSUME NEW w \in Writer
      PROVE  /\ Consistent(w, pc[w], look[w], file, name) /\ Shares(w, pc[w], look[w], file, name)
  <2>1. /\ pc[w] = "check" /\ look[w].attempt = 0 /\ file[w].ctime = 0 /\ file["old"].ctime = 0
        /\ name # w
    BY <1>1, <1>3, <1>4, InodesDiffer
  <2>2. Consistent(w, pc[w], look[w], file, name)
    BY <1>7, <2>1 DEF Consistent, MaxAttempts
  <2>3. Shares(w, pc[w], look[w], file, name)
    BY <1>7, <2>1 DEF Shares, Verifying
  <2> QED BY <2>2, <2>3
<1>9. name # "none" => file[name].chunks = Chunks
  BY <1>1, <1>4
<1>10. ASSUME NEW w \in Writer PROVE file[w].body = task[w].body /\ file[w].chunks <= Chunks
  <2>1. file[w].body = task[w].body /\ file[w].chunks = 0 /\ 0 <= Chunks
    BY <1>3 DEF Chunks
  <2> QED BY <2>1
<1>11. name \in Inode \cup {"none"}
  BY <1>1, InodesDiffer
<1> QED BY <1>1, <1>5, <1>6, <1>8, <1>9, <1>10, <1>11 DEF SpillInv

LEMMA SpillStutters == SpillInv /\ UNCHANGED spillVars => SpillInv'
BY DEF SpillInv, spillVars, Consistent, Shares, Suits, Alike, How

LEMMA SpillSteps == SpillInv /\ [SpillNext]_spillVars => SpillInv'
<1> SUFFICES ASSUME SpillInv, [SpillNext]_spillVars PROVE SpillInv'
  OBVIOUS
<1>1. ASSUME NEW w \in Writer,
             Check(w) \/ CreateTemp(w) \/ Copy(w) \/ CopyEnds(w) \/ CopyFails(w) \/ Publish(w) \/ Unlink(w)
      PROVE  SpillInv'
  BY <1>1, TargetChecked, TempCreated, CopyGoesOn, CopyEnded, CopyFailed, NamePublished, LinkRemoved
<1>2. ASSUME NEW w \in Writer,
             OpenExisting(w) \/ Stat(w) \/ Hash(w) \/ Restat(w) \/ Confirm(w) \/ Crash(w)
      PROVE  SpillInv'
  BY <1>2, ExistingOpened, ExistingStated, ExistingHashed, ExistingRestated, ReuseConfirmed, WriterDies
<1>3. CASE UNCHANGED spillVars
  BY <1>3, SpillStutters
<1> QED BY <1>1, <1>2, <1>3 DEF SpillNext

LEMMA InvGivesSpills == SpillInv => PublishedIsWhole /\ SameBytesAreShared /\ SpillTypeOK
<1> SUFFICES ASSUME SpillInv PROVE PublishedIsWhole /\ SameBytesAreShared /\ SpillTypeOK
  OBVIOUS
<1>1. PublishedIsWhole
  BY DEF SpillInv, PublishedIsWhole
<1>2. ASSUME Alike, Suits(file, name), NEW w \in Writer PROVE pc[w] # "conflict"
  BY <1>2, WriterTyped DEF Shares
<1>3. SameBytesAreShared
  BY <1>2 DEF SameBytesAreShared, Alike, Suits
<1>4. SpillTypeOK
  BY DEF SpillInv, SpillTypeOK, Consistent
<1> QED BY <1>1, <1>3, <1>4

ReuseStep ==
    \A w \in Writer : pc[w] = "confirm" /\ pc'[w] = "receipt" =>
        name' # "none" /\ file'[name'].body = task[w].body /\ file'[name'].chunks = Chunks
KeepStep == name # "none" /\ name' # name => \E w \in Writer : name' = w /\ How(w) = "force"

(* Another writer's step leaves a writer where it stands.                   *)
LEMMA OnlyOneMoves ==
    ASSUME SpillInv, NEW v \in Writer, NEW w \in Writer, w # v,
           \/ Check(v) \/ CreateTemp(v) \/ Copy(v) \/ CopyEnds(v) \/ CopyFails(v) \/ Publish(v) \/ Unlink(v)
           \/ OpenExisting(v) \/ Stat(v) \/ Hash(v) \/ Restat(v) \/ Confirm(v) \/ Crash(v)
    PROVE  pc'[w] = pc[w]
<1>1. pc' = pc \/ \E l : pc' = [pc EXCEPT ![v] = l]
  BY DEF Check, CreateTemp, Copy, CopyEnds, CopyFails, Publish, Unlink, OpenExisting, Stat, Hash, Restat,
     Confirm, Crash, Again, GivesUp, WriterGoes
<1> QED BY <1>1 DEF SpillInv

LEMMA ReuseIsOfMine == SpillInv /\ [SpillNext]_spillVars => ReuseStep
<1> SUFFICES ASSUME SpillInv, [SpillNext]_spillVars, NEW w \in Writer, pc[w] = "confirm", pc'[w] = "receipt"
             PROVE  name' # "none" /\ file'[name'].body = task[w].body /\ file'[name'].chunks = Chunks
  BY DEF ReuseStep
<1>1. Confirm(w)
  <2>1. ~(UNCHANGED spillVars)
    BY DEF spillVars
  <2>2. PICK v \in Writer :
          \/ Check(v) \/ CreateTemp(v) \/ Copy(v) \/ CopyEnds(v) \/ CopyFails(v) \/ Publish(v) \/ Unlink(v)
          \/ OpenExisting(v) \/ Stat(v) \/ Hash(v) \/ Restat(v) \/ Confirm(v) \/ Crash(v)
    BY <2>1 DEF SpillNext
  <2>3. v = w
    BY <2>2, OnlyOneMoves
  <2>4. ~Crash(w)
    <3>1. ASSUME Crash(w) PROVE pc'[w] = "crashed"
      BY <3>1 DEF Crash, WriterGoes, SpillInv
    <3> QED BY <3>1
  <2> QED BY <2>2, <2>3, <2>4 DEF Check, CreateTemp, Copy, CopyEnds, CopyFails, Publish, Unlink, OpenExisting,
        Stat, Hash, Restat
<1>2. UNCHANGED <<task, name, file>>
  BY <1>1 DEF Confirm
<1>3. name = look[w].opened
  <2>1. ASSUME GivesUp(w, "failed") PROVE FALSE
    BY <2>1 DEF GivesUp, WriterGoes, SpillInv
  <2>2. ASSUME GivesUp(w, "conflict") PROVE FALSE
    BY <2>2 DEF GivesUp, WriterGoes, SpillInv
  <2> QED BY <1>1, <2>1, <2>2 DEF Confirm
<1>4. /\ look[w].opened \in Inode /\ file[look[w].opened].body = task[w].body
      /\ file[look[w].opened].chunks = Chunks
  BY WriterTyped DEF Consistent, Verifying, Compared
<1> QED BY <1>2, <1>3, <1>4, InodesDiffer

LEMMA NamesAreKept == SpillInv /\ [SpillNext]_spillVars => KeepStep
BY DEF KeepStep, SpillNext, spillVars, Check, CreateTemp, Copy, CopyEnds, CopyFails, Publish, Unlink,
   OpenExisting, Stat, Hash, Restat, Confirm, Crash

(* However writers of one name race, fail or die between two system calls,  *)
(* the name leads to a whole body; a spill that reuses what is there is     *)
(* answered only for exactly its bytes; nothing that has a name is replaced *)
(* without Force; and spills of the same bytes all succeed (artifact.go     *)
(* Spill, Publish, reuseExisting): for any number of writers and bodies.    *)
THEOREM SpillsWhole == SpillSpec => SpillsAreWhole
<1>1. SpillSpec => []SpillInv
  BY SpillBegins, SpillSteps, PTL DEF SpillSpec
<1>2. SpillSpec => [](PublishedIsWhole /\ SameBytesAreShared)
  BY <1>1, InvGivesSpills, PTL
<1>3. SpillSpec => [][ReuseStep]_spillVars
  BY <1>1, ReuseIsOfMine, PTL DEF SpillSpec
<1>4. SpillSpec => [][KeepStep]_spillVars
  BY <1>1, NamesAreKept, PTL DEF SpillSpec
<1>5. SpillSpec => ReusedIsMine
  BY <1>3 DEF ReusedIsMine, ReuseStep
<1>6. SpillSpec => NoClobber
  BY <1>4 DEF NoClobber, KeepStep
<1> QED BY <1>2, <1>5, <1>6 DEF SpillsAreWhole

(* Only a writer that died or could not remove it leaves a temporary file,  *)
(* and the verification keeps its number of attempts.                       *)
THEOREM SpillTyped == SpillSpec => []SpillTypeOK
<1>1. SpillSpec => []SpillInv
  BY SpillBegins, SpillSteps, PTL DEF SpillSpec
<1> QED BY <1>1, InvGivesSpills, PTL
=============================================================================
