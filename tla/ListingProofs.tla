--------------------------- MODULE ListingProofs ---------------------------
(***************************************************************************)
(* The loop of pages and URLs, for every set of packages, every page size  *)
(* and log, and any chain of clicks: what an address bar names is what its *)
(* page shows, which links put a page inside a page, and what a reader who *)
(* follows the links to the next page sees of a log that grows meanwhile.  *)
(***************************************************************************)
EXTENDS Listing, SequenceTheorems, FiniteSetTheorems, TLAPS

(* The contents that their address names.                                  *)
Named(t) ==
    t.at # "find" /\ t.q.search = Absent => View(t.at, t.address) = View(t.at, t.q)

(* What Shows leaves in the tab, of the fields that matter here.           *)
LEMMA ShowsFields ==
    ASSUME NEW page, NEW q, NEW address, NEW nested, Shows(page, q, address, nested)
    PROVE  /\ tab'.at = page /\ tab'.q = q /\ tab'.address = address
           /\ tab'.nested = nested
  BY DEF Shows

(* Nothing tells the listings of two URLs apart that differ in mode only.  *)
LEMMA ViewOfMode ==
    ASSUME NEW page, NEW q, NEW r, q.sort = r.sort, q.order = r.order,
           q.selval = r.selval, q.search = r.search
    PROVE  View(page, q) = View(page, r)
  BY DEF View, SortOf, OrderOf

LEMMA LinkNamed ==
    ASSUME NEW page, FollowLink(page)
    PROVE  Named(tab')
<1> DEFINE q == [NoParams EXCEPT !.mode = "plain"]
<1>1. tab'.at = page /\ tab'.q = q /\ tab'.address = NoParams
  BY ShowsFields DEF FollowLink, Fetch
<1>2. View(page, q) = View(page, NoParams)
  <2>1. /\ q.sort = NoParams.sort /\ q.order = NoParams.order
        /\ q.selval = NoParams.selval /\ q.search = NoParams.search
    BY DEF NoParams, Keys
  <2> HIDE DEF q
  <2>. QED
    BY <2>1, ViewOfMode
<1> HIDE DEF q
<1>. QED
  BY <1>1, <1>2 DEF Named

LEMMA DownloadsNamed == FollowDownloads => Named(tab')
<1> SUFFICES ASSUME FollowDownloads PROVE Named(tab')
  OBVIOUS
<1>1. PICK p \in Package \cup {Absent} :
         Fetch("downloads", [NoParams EXCEPT !.mode = "plain", !.selval = p],
               [NoParams EXCEPT !.mode = "full", !.selval = p])
  BY DEF FollowDownloads
<1> DEFINE q == [NoParams EXCEPT !.mode = "plain", !.selval = p]
           a == [NoParams EXCEPT !.mode = "full", !.selval = p]
<1>2. tab'.at = "downloads" /\ tab'.q = q /\ tab'.address = a
  BY <1>1, ShowsFields DEF Fetch
<1>3. q.sort = a.sort /\ q.order = a.order /\ q.selval = a.selval /\ q.search = a.search
  BY DEF NoParams, Keys
<1> HIDE DEF q, a
<1>. QED
  BY <1>2, <1>3, ViewOfMode DEF Named

LEMMA ColumnNamed ==
    ASSUME NEW column \in Column, ClickColumn(column)
    PROVE  Named(tab')
<1>1. CASE Fetch("downloads", ColumnUrl(tab.q, column, "plain"), ColumnUrl(tab.q, column, "full"))
  <2> DEFINE q == ColumnUrl(tab.q, column, "plain")
             a == ColumnUrl(tab.q, column, "full")
  <2>1. tab'.at = "downloads" /\ tab'.q = q /\ tab'.address = a
    BY <1>1, ShowsFields DEF Fetch
  <2>2. q.sort = a.sort /\ q.order = a.order /\ q.selval = a.selval /\ q.search = a.search
    BY DEF ColumnUrl, NoParams, Keys
  <2> HIDE DEF q, a
  <2>. QED
    BY <2>1, <2>2, ViewOfMode DEF Named
<1>2. CASE /\ tab.at \in {"index", "find"}
           /\ Fetch(tab.at, ButtonFetch(tab.at, tab.q, column), ButtonPush(tab.at, tab.q, column))
  <2> DEFINE q == ButtonFetch(tab.at, tab.q, column)
             a == ButtonPush(tab.at, tab.q, column)
  <2>1. tab'.at = tab.at /\ tab'.q = q /\ tab'.address = a
    BY <1>2, ShowsFields DEF Fetch
  <2>2. tab.at # "find" =>
          q.sort = a.sort /\ q.order = a.order /\ q.selval = a.selval /\ q.search = a.search
    BY DEF ButtonFetch, ButtonPush, NoParams, Keys
  <2> HIDE DEF q, a
  <2>. QED
    BY <2>1, <2>2, ViewOfMode DEF Named
<1>. QED
  BY <1>1, <1>2 DEF ClickColumn

LEMMA StepNamed == Named(tab) /\ [Next]_listingVars => Named(tab')
<1> SUFFICES ASSUME Named(tab), [Next]_listingVars PROVE Named(tab')
  OBVIOUS
<1>1. ASSUME NEW page, NEW q, Visit(page, q) PROVE Named(tab')
  BY <1>1, ShowsFields DEF Visit, Named
<1>2. CASE Search
  <2>1. tab'.q = [NoParams EXCEPT !.mode = "plain", !.search = Garbled]
    BY <1>2, ShowsFields DEF Search, Fetch
  <2>2. tab'.q.search # Absent
    BY <2>1, ListingConstants DEF NoParams, Keys
  <2>. QED
    BY <2>2 DEF Named
<1>3. CASE Reveal
  <2>1. tab'.at = "downloads" /\ tab.at = "downloads" /\ tab'.q = tab.q
        /\ tab'.address = tab.address
    BY <1>3 DEF Reveal
  <2>. QED
    BY <2>1 DEF Named
<1>4. ASSUME UNCHANGED tab PROVE Named(tab')
  BY <1>4
<1>. QED
  BY <1>1, <1>2, <1>3, <1>4, LinkNamed, DownloadsNamed, ColumnNamed
     DEF Next, Reload, Download, Count, listingVars

(* To reload a page, or to send its address to somebody, shows the same    *)
(* listing, but for find and the search field.                             *)
THEOREM AddressesNameContent == Spec => []AddressIsOfContent
<1>1. Init => AddressIsOfContent
  BY DEF Init, AddressIsOfContent
<1>2. AddressIsOfContent /\ [Next]_listingVars => AddressIsOfContent'
  BY StepNamed DEF Named, AddressIsOfContent
<1>. QED
  BY <1>1, <1>2, PTL DEF Spec

----------------------------------------------------------------------------
(* Pages inside pages.                                                     *)

(* An answer of mode plain is fit to be put into a page.                   *)
LEMMA PlainFits ==
    ASSUME NEW page, NEW q, NEW address, Fetch(page, q, address), q.mode = "plain"
    PROVE  tab'.nested => tab.nested
<1>1. ModeOf(q) = "plain"
  BY DEF ModeOf, Parsed, Mode
<1>2. tab'.nested = (tab.nested \/ ModeOf(q) = "full")
  BY ShowsFields DEF Fetch
<1>. QED
  BY <1>1, <1>2

(* A step that puts no page into a page, but for a click on find.          *)
Fits == tab'.nested /\ ~tab.nested => tab.at = "find"

LEMMA ColumnFits ==
    ASSUME NEW column \in Column, ClickColumn(column)
    PROVE  Fits
<1>1. CASE Fetch("downloads", ColumnUrl(tab.q, column, "plain"), ColumnUrl(tab.q, column, "full"))
  <2>1. ColumnUrl(tab.q, column, "plain").mode = "plain"
    BY DEF ColumnUrl, NoParams, Keys
  <2>2. tab'.nested => tab.nested
    BY <1>1, <2>1, PlainFits
  <2>. QED
    BY <2>2 DEF Fits
<1>2. CASE /\ tab.at # "find"
           /\ Fetch(tab.at, ButtonFetch(tab.at, tab.q, column), ButtonPush(tab.at, tab.q, column))
  <2>1. ButtonFetch(tab.at, tab.q, column).mode = "plain"
    BY <1>2 DEF ButtonFetch, NoParams, Keys
  <2>2. tab'.nested => tab.nested
    BY <1>2, <2>1, PlainFits
  <2>. QED
    BY <2>2 DEF Fits
<1>3. CASE tab.at = "find"
  BY <1>3 DEF Fits
<1>. QED
  BY <1>1, <1>2, <1>3 DEF ClickColumn

LEMMA SearchFits == Search => Fits
<1> DEFINE q == [NoParams EXCEPT !.mode = "plain", !.search = Garbled]
<1>1. q.mode = "plain"
  BY DEF NoParams, Keys
<1> HIDE DEF q
<1>2. Fetch("index", q, tab.address) => (tab'.nested => tab.nested)
  BY <1>1, PlainFits
<1>3. Search => Fetch("index", q, tab.address)
  BY DEF Search, q
<1>. QED
  BY <1>2, <1>3 DEF Fits

LEMMA LinkFits ==
    ASSUME NEW page, FollowLink(page)
    PROVE  Fits
<1>1. Fetch(page, [NoParams EXCEPT !.mode = "plain"], NoParams)
  BY DEF FollowLink
<1>2. [NoParams EXCEPT !.mode = "plain"].mode = "plain"
  BY DEF NoParams, Keys
<1>. QED
  BY <1>1, <1>2, PlainFits DEF Fits

LEMMA DownloadsFits == FollowDownloads => Fits
<1> SUFFICES ASSUME FollowDownloads PROVE Fits
  OBVIOUS
<1>1. PICK p \in Package \cup {Absent} :
         Fetch("downloads", [NoParams EXCEPT !.mode = "plain", !.selval = p],
               [NoParams EXCEPT !.mode = "full", !.selval = p])
  BY DEF FollowDownloads
<1>2. [NoParams EXCEPT !.mode = "plain", !.selval = p].mode = "plain"
  BY DEF NoParams, Keys
<1>. QED
  BY <1>1, <1>2, PlainFits DEF Fits

(* The tab is the record that Init and every page make of it.              *)
TabFields == {"at", "q", "address", "nested", "seen", "count", "next", "opened", "ended"}
IsTab == DOMAIN tab = TabFields /\ tab = [f \in TabFields |-> tab[f]]

LEMMA StepIsTab == IsTab /\ [Next]_listingVars => IsTab'
<1>1. ASSUME NEW page, NEW q, NEW address, NEW nested, Shows(page, q, address, nested)
      PROVE  IsTab'
  BY <1>1 DEF Shows, IsTab, TabFields
<1>2. IsTab /\ Reveal => IsTab'
  BY DEF Reveal, IsTab, TabFields
<1>3. IsTab /\ UNCHANGED tab => IsTab'
  BY DEF IsTab
<1>4. ASSUME NEW page, NEW q, Visit(page, q) PROVE IsTab'
  BY <1>1, <1>4 DEF Visit
<1>5. ASSUME NEW page, NEW q, NEW address, Fetch(page, q, address) PROVE IsTab'
  BY <1>1, <1>5 DEF Fetch
<1>. QED
  BY <1>2, <1>3, <1>4, <1>5
     DEF Next, Reload, FollowLink, FollowDownloads, ClickColumn, Search, Download, Count, listingVars

LEMMA StepFits == IsTab /\ [Next]_listingVars => Fits
<1> SUFFICES ASSUME IsTab, [Next]_listingVars PROVE Fits
  OBVIOUS
<1>1. ASSUME NEW page, NEW q, Visit(page, q) PROVE Fits
  BY <1>1, ShowsFields DEF Visit, Fits
<1>2. CASE Reveal
  <2>1. tab'.nested = tab.nested
    BY <1>2 DEF Reveal, IsTab, TabFields
  <2>. QED
    BY <2>1 DEF Fits
<1>3. CASE UNCHANGED tab
  BY <1>3 DEF Fits
<1>. QED
  BY <1>1, <1>2, <1>3, LinkFits, DownloadsFits, ColumnFits, SearchFits
     DEF Next, Reload, Download, Count, listingVars

(* No link but the column headers of find puts a whole page into a page.   *)
THEOREM NestsOnlyThere == Spec => NestsOnlyFromFind
<1>1. Init => IsTab
  BY DEF Init, IsTab, TabFields
<1>2. IsTab /\ [Next]_listingVars => IsTab'
  BY StepIsTab
<1>3. IsTab /\ [Next]_listingVars => [tab.nested' /\ ~tab.nested => tab.at = "find"]_listingVars
  BY StepFits DEF Fits
<1>. QED
  BY <1>1, <1>2, <1>3, PTL DEF Spec, NestsOnlyFromFind

----------------------------------------------------------------------------
(* Places: how many of the rows S come before row r when they are sorted   *)
(* by a key, the greatest first and equal ones as they are in the table.   *)

Ahead(key, x, r) == key[x] > key[r] \/ (key[x] = key[r] /\ x < r)
Place(key, S, r) == Cardinality({x \in S : Ahead(key, x, r)})

LEMMA PlaceType ==
    ASSUME NEW S, IsFiniteSet(S), NEW key, NEW r
    PROVE  Place(key, S, r) \in Nat /\ IsFiniteSet({x \in S : Ahead(key, x, r)})
<1>1. {x \in S : Ahead(key, x, r)} \in SUBSET S
  OBVIOUS
<1>2. QED
  BY <1>1, FS_Subset, FS_CardinalityType DEF Place

(* A set that has less is smaller.                                         *)
LEMMA LessIsSmaller ==
    ASSUME NEW T, IsFiniteSet(T), NEW S \in SUBSET T, NEW x \in T, x \notin S
    PROVE  Cardinality(S) \in Nat /\ Cardinality(T) \in Nat /\ Cardinality(S) < Cardinality(T)
<1>1. IsFiniteSet(S) /\ Cardinality(S) <= Cardinality(T) /\ Cardinality(S) # Cardinality(T)
  BY FS_Subset
<1>2. Cardinality(S) \in Nat /\ Cardinality(T) \in Nat
  BY <1>1, FS_CardinalityType
<1>3. QED
  BY <1>1, <1>2

LEMMA AheadIsEarlier ==
    ASSUME NEW S \in SUBSET Nat, IsFiniteSet(S), NEW key, \A x \in S : key[x] \in Nat,
           NEW x \in S, NEW y \in S, Ahead(key, x, y)
    PROVE  Place(key, S, x) < Place(key, S, y)
<1> DEFINE A == {z \in S : Ahead(key, z, x)}
           B == {z \in S : Ahead(key, z, y)}
<1>1. \A z \in A : z \in B
  BY DEF Ahead
<1>2. x \in B /\ x \notin A
  BY DEF Ahead
<1>3. IsFiniteSet(B)
  BY PlaceType
<1> HIDE DEF A, B
<1>4. Cardinality(A) < Cardinality(B)
  BY <1>1, <1>2, <1>3, LessIsSmaller
<1>5. QED
  BY <1>4 DEF A, B, Place

(* No two rows have one place.                                             *)
LEMMA PlacesDiffer ==
    ASSUME NEW S \in SUBSET Nat, IsFiniteSet(S), NEW key, \A x \in S : key[x] \in Nat,
           NEW x \in S, NEW y \in S, Place(key, S, x) = Place(key, S, y)
    PROVE  x = y
<1>1. Place(key, S, x) \in Nat /\ Place(key, S, y) \in Nat
  BY PlaceType
<1>2. Ahead(key, x, y) => FALSE
  BY <1>1, AheadIsEarlier
<1>3. Ahead(key, y, x) => FALSE
  BY <1>1, AheadIsEarlier
<1>4. x # y => Ahead(key, x, y) \/ Ahead(key, y, x)
  BY DEF Ahead
<1>5. QED
  BY <1>2, <1>3, <1>4

(* No place is empty up to the last: as many rows have as many places.     *)
LEMMA PlacesFilled ==
    ASSUME NEW S \in SUBSET Nat, IsFiniteSet(S), NEW key, \A x \in S : key[x] \in Nat,
           NEW r \in S, NEW o \in Nat, o <= Place(key, S, r)
    PROVE  \E x \in S : Place(key, S, x) = o
<1> DEFINE n == Cardinality(S)
           f == [x \in S |-> Place(key, S, x)]
<1>1. n \in Nat
  BY FS_CardinalityType
<1>2. \A x \in S : Place(key, S, x) \in 0..(n - 1)
  <2>1. SUFFICES ASSUME NEW x \in S PROVE Place(key, S, x) \in 0..(n - 1)
    OBVIOUS
  <2>2. x \notin {z \in S : Ahead(key, z, x)}
    BY DEF Ahead
  <2>3. Place(key, S, x) < n
    BY <2>2, LessIsSmaller DEF Place
  <2>4. Place(key, S, x) \in Nat
    BY PlaceType
  <2> HIDE DEF n
  <2>5. QED
    BY <1>1, <2>3, <2>4
<1>3. IsFiniteSet(0..(n - 1)) /\ Cardinality(0..(n - 1)) = n
  <2> HIDE DEF n
  <2>1. n - 1 \in Int /\ 0 \in Int
    BY <1>1
  <2>2. /\ IsFiniteSet(0..(n - 1))
        /\ Cardinality(0..(n - 1)) = IF 0 > n - 1 THEN 0 ELSE (n - 1) - 0 + 1
    BY <2>1, FS_Interval
  <2>3. QED
    BY <1>1, <2>2
<1>4. ASSUME NEW D, D = 0..(n - 1) PROVE \E x \in S : f[x] = o
  <2>1. f \in [S -> D] /\ \A x, y \in S : f[x] = f[y] => x = y
    BY <1>2, <1>4, PlacesDiffer
  <2>2. f \in Injection(S, D)
    BY <2>1 DEF Injection, IsInjective
  <2>3. IsFiniteSet(D) /\ Cardinality(D) = Cardinality(S)
    BY <1>3, <1>4
  <2>4. o \in D
    <3>1. Place(key, S, r) \in 0..(n - 1)
      BY <1>2
    <3> HIDE DEF n
    <3>2. QED
      BY <1>1, <1>4, <3>1
  <2> HIDE DEF f, n
  <2>5. f \in Surjection(S, D)
    BY <2>2, <2>3, FS_Injection
  <2>6. QED
    BY <2>4, <2>5 DEF Surjection
<1>5. QED
  BY <1>4

(* A new row takes one place: the others keep theirs or move back by one.  *)
LEMMA PlacesMove ==
    ASSUME NEW S, IsFiniteSet(S), NEW n, NEW T, S \subseteq T, T \subseteq S \cup {n},
           NEW key, NEW key2, \A x \in S : key2[x] = key[x], NEW r \in S
    PROVE  Place(key2, T, r) \in {Place(key, S, r), Place(key, S, r) + 1}
<1> DEFINE A == {x \in S : Ahead(key, x, r)}
           B == {x \in T : Ahead(key2, x, r)}
<1>1. IsFiniteSet(A) /\ Cardinality(A) \in Nat
  BY PlaceType DEF Place
<1>2. B = A \/ B = A \cup {n}
  BY DEF Ahead
<1>3. Cardinality(A \cup {n}) \in {Cardinality(A), Cardinality(A) + 1}
  BY <1>1, FS_AddElement
<1> HIDE DEF A, B
<1>4. Cardinality(B) \in {Cardinality(A), Cardinality(A) + 1}
  BY <1>2, <1>3
<1>5. QED
  BY <1>4 DEF A, B, Place

(* So at most one of them is pushed over a boundary.                       *)
LEMMA OneIsPushed ==
    ASSUME NEW S \in SUBSET Nat, IsFiniteSet(S), NEW n, NEW T, S \subseteq T,
           T \subseteq S \cup {n}, NEW key, \A x \in S : key[x] \in Nat,
           NEW key2, \A x \in S : key2[x] = key[x], NEW R \in SUBSET S, NEW o \in Nat,
           NEW P, \A r : r \in P <=> r \in R /\ Place(key, S, r) >= o,
           NEW Q, \A r : r \in Q <=> r \in R /\ Place(key2, T, r) >= o
    PROVE  /\ Cardinality(P) \in Nat /\ Cardinality(Q) \in Nat
           /\ Cardinality(Q) <= Cardinality(P) + 1
<1>1. \A r \in S : /\ Place(key, S, r) \in Nat
                   /\ Place(key2, T, r) \in {Place(key, S, r), Place(key, S, r) + 1}
  BY PlaceType, PlacesMove
<1>2. \A x, y \in Q \ P : x = y
  <2>1. SUFFICES ASSUME NEW x \in Q \ P, NEW y \in Q \ P PROVE x = y
    OBVIOUS
  <2>2. ASSUME NEW r \in Q \ P PROVE r \in S /\ Place(key, S, r) = o - 1
    <3>1. r \in S /\ Place(key2, T, r) >= o /\ ~(Place(key, S, r) >= o)
      OBVIOUS
    <3>2. QED
      BY <1>1, <3>1
  <2>3. Place(key, S, x) = Place(key, S, y) /\ x \in S /\ y \in S
    BY <2>2
  <2>4. QED
    BY <2>3, PlacesDiffer
<1>3. P \in SUBSET S /\ Q \in SUBSET S
  OBVIOUS
<1>4. /\ IsFiniteSet(P) /\ Cardinality(P) \in Nat
      /\ IsFiniteSet(Q) /\ Cardinality(Q) \in Nat
  BY <1>3, FS_Subset, FS_CardinalityType
<1>5. \E m : Q \in SUBSET (P \cup {m})
  <2>1. PICK m : Q \ P # {} => m \in Q \ P
    OBVIOUS
  <2>2. \A x \in Q : x \in P \/ x = m
    BY <1>2, <2>1, Zenon
  <2>3. QED
    BY <2>2, Zenon
<1>6. Cardinality(Q) <= Cardinality(P) + 1
  <2>1. PICK m : Q \in SUBSET (P \cup {m})
    BY <1>5
  <2>2. IsFiniteSet(P \cup {m}) /\ Cardinality(P \cup {m}) <= Cardinality(P) + 1
    <3>1. Cardinality(P \cup {m}) \in {Cardinality(P), Cardinality(P) + 1}
      BY <1>4, FS_AddElement
    <3>2. IsFiniteSet(P \cup {m})
      BY <1>4, FS_AddElement
    <3>3. QED
      BY <1>4, <3>1, <3>2
  <2>3. Cardinality(Q) <= Cardinality(P \cup {m}) /\ Cardinality(P \cup {m}) \in Nat
    BY <2>1, <2>2, FS_Subset, FS_CardinalityType
  <2>4. QED
    BY <1>4, <2>2, <2>3
<1>7. QED
  BY <1>4, <1>6

----------------------------------------------------------------------------
(* Reading a listing of downloads to its end.                              *)

Selection(p) == {r \in DOMAIN log : p \in {Absent, log[r]}}

(* The place of a row in a listing that comes in descending order.         *)
PlaceIn(q, r) == Place(KeysOf(SortOf("downloads", q)), Selection(q.selval), r)

(* The parameters of a first page, and those of the pages after it.        *)
Opened(q) == q.offset = Absent /\ q.limit \in Limits \cup {Absent}

Continues(n, q) ==
    /\ n.sort = SortOf("downloads", q) /\ n.order = Garbled
    /\ n.selval = q.selval /\ n.limit = Absent /\ n.offset \in Nat

(* A row that the link to the rest will come to, and rows seen that it     *)
(* will come to again.                                                     *)
Unread(r) == PlaceIn(tab.q, r) >= tab.next.offset
Pushed == {r \in tab.seen : Unread(r)}

TabTypeOK ==
    /\ IsTab /\ log \in Seq(Package)
    /\ Opened(tab.q) /\ Opened(tab.address)
    /\ tab.opened \in 0..Len(log) /\ tab.count \in Nat
    /\ tab.seen \subseteq Selection(tab.q.selval)
    /\ tab.next # Absent =>
          tab.at = "downloads" /\ Continues(tab.next, tab.q) /\ ~tab.ended

NoneMissed ==
    \A r \in 1..tab.opened : Selected(tab.q, r) => r \in tab.seen \/ Unread(r)

(* Each row that arrives accounts for one that was repeated or will be.    *)
ArrivalsSuffice ==
    tab.count + Cardinality(Pushed) + tab.opened <= Cardinality(tab.seen) + Len(log)

ReadInv ==
    Steady =>
        /\ tab.next # Absent => NoneMissed /\ ArrivalsSuffice
        /\ NoSkips /\ RepeatsWithinArrivals

LEMMA SelectionType ==
    ASSUME log \in Seq(Package), NEW p
    PROVE  /\ Selection(p) \in SUBSET Nat /\ IsFiniteSet(Selection(p))
           /\ Selection(p) \subseteq 1..Len(log) /\ Len(log) \in Nat
<1>1. DOMAIN log = 1..Len(log) /\ Len(log) \in Nat
  BY LenProperties
<1>2. IsFiniteSet(1..Len(log))
  BY <1>1, FS_Interval
<1>3. ASSUME NEW D, IsFiniteSet(D), Selection(p) \subseteq D PROVE IsFiniteSet(Selection(p))
  BY <1>3, FS_Subset
<1>4. Selection(p) \subseteq 1..Len(log)
  BY <1>1 DEF Selection
<1>5. QED
  BY <1>1, <1>2, <1>3, <1>4

(* Rows that are sorted by time or by name keep their keys.                *)
LEMMA KeysType ==
    ASSUME log \in Seq(Package), NEW column \in {"time", "name"}
    PROVE  \A r \in DOMAIN log : KeysOf(column)[r] \in Nat
<1>1. \A r \in DOMAIN log : log[r] \in Nat /\ r \in Nat
  <2>1. DOMAIN log = 1..Len(log) /\ Len(log) \in Nat
    BY LenProperties
  <2>2. \A r \in 1..Len(log) : log[r] \in Package
    BY ElementOfSeq
  <2>3. Package \subseteq Nat
    BY ListingConstants
  <2>4. \A r \in DOMAIN log : log[r] \in Package
    BY <2>1, <2>2
  <2>5. \A r \in DOMAIN log : r \in Nat
    BY <2>1
  <2>6. QED
    BY <2>3, <2>4, <2>5
<1>2. KeysOf("time") = [r \in DOMAIN log |-> r] /\ KeysOf("name") = log
  BY DEF KeysOf
<1>3. QED
  BY <1>1, <1>2

(* What a page of a listing in descending order has: the rows at its       *)
(* places.                                                                 *)
LEMMA RowsByPlace ==
    ASSUME NEW q, OrderOf("downloads", q) = "descending"
    PROVE  Rows(q) = {r \in Selection(q.selval) :
                        PlaceIn(q, r) \in OffsetOf(q)..(OffsetOf(q) + LimitOf(q) - 1)}
<1> DEFINE S == {r \in DOMAIN log : Selected(q, r)}
           key == KeysOf(SortOf("downloads", q))
           before == RowsBefore(q, S)
<1>1. S = Selection(q.selval)
  BY DEF Selected, Selection
<1>2. before = [r \in S |-> {x \in S : Ahead(key, x, r)}]
  BY DEF RowsBefore, Ahead
<1>3. Rows(q) = {r \in DOMAIN before :
                   Cardinality(before[r]) \in OffsetOf(q)..(OffsetOf(q) + LimitOf(q) - 1)}
  BY Zenon DEF Rows
<1>4. DOMAIN before = S /\ \A r \in S : before[r] = {x \in S : Ahead(key, x, r)}
  BY <1>2
<1> HIDE DEF before, S
<1>5. \A r \in S : Cardinality(before[r]) = PlaceIn(q, r)
  BY <1>1, <1>4 DEF PlaceIn, Place
<1>6. QED
  BY <1>1, <1>3, <1>4, <1>5

(* A first page begins at the first place, and the next one after it.      *)
LEMMA FirstPage ==
    ASSUME NEW q, Opened(q)
    PROVE  /\ OffsetOf(q) = 0 /\ LimitOf(q) \in Nat \ {0}
           /\ NextPage(q).offset = LimitOf(q) /\ Continues(NextPage(q), q)
<1>1. OffsetOf(q) = 0 /\ LimitOf(q) \in Nat \ {0}
  BY ListingConstants DEF Opened, OffsetOf, LimitOf, Number
<1>2. QED
  BY <1>1 DEF NextPage, NextOffset, Continues, NoParams, Keys

LEMMA LaterPage ==
    ASSUME NEW n, NEW q, Continues(n, q)
    PROVE  /\ OffsetOf(n) = n.offset /\ LimitOf(n) \in Nat \ {0}
           /\ NextPage(n).offset = n.offset + LimitOf(n) /\ Continues(NextPage(n), q)
           /\ OrderOf("downloads", n) = "descending"
           /\ SortOf("downloads", n) = SortOf("downloads", q)
<1>1. OffsetOf(n) = n.offset /\ LimitOf(n) = PageSize
  BY ListingConstants DEF Continues, OffsetOf, LimitOf, Number
<1>2. OrderOf("downloads", n) = "descending"
  BY ListingConstants DEF Continues, OrderOf, Parsed, Order, DefaultOrder
<1>3. SortOf("downloads", q) \in Column
  BY DEF SortOf, Parsed, DefaultSort, Column
<1>4. SortOf("downloads", n) = SortOf("downloads", q)
  BY <1>3 DEF Continues, SortOf, Parsed
<1>5. QED
  BY <1>1, <1>2, <1>4, ListingConstants DEF NextPage, NextOffset, Continues, NoParams, Keys

(* A page that opens a listing, or that is none of downloads.              *)
LEMMA ShowsReads ==
    ASSUME TabTypeOK, NEW page, NEW q, NEW address, NEW nested, Opened(q), Opened(address),
           Shows(page, q, address, nested), UNCHANGED <<log, counter>>
    PROVE  TabTypeOK' /\ ReadInv'
<1> DEFINE rows == IF page = "downloads" THEN Rows(q) ELSE {}
<1>1. tab' = [at |-> page, q |-> q, address |-> address, nested |-> nested,
              seen |-> rows, count |-> Cardinality(rows), next |-> NextOf(q, rows),
              opened |-> IF rows = {} THEN 0 ELSE Len(log),
              ended |-> page = "downloads" /\ rows = {}]
  BY DEF Shows
<1>2. log \in Seq(Package) /\ Len(log) \in Nat
  BY LenProperties DEF TabTypeOK
<1>3. rows \in SUBSET Selection(q.selval)
  BY DEF Rows, RowsBefore, Selected, Selection
<1>4. IsFiniteSet(rows) /\ Cardinality(rows) \in Nat
  <2> HIDE DEF rows
  <2>1. IsFiniteSet(Selection(q.selval))
    BY <1>2, SelectionType
  <2>2. QED
    BY <1>3, <2>1, FS_Subset, FS_CardinalityType
<1>5. page # "downloads" => rows = {}
  OBVIOUS
<1>6. TabTypeOK'
  <2> HIDE DEF rows
  <2>1. IsTab'
    BY <1>1 DEF IsTab, TabFields
  <2>2. (tab.seen \subseteq Selection(tab.q.selval))'
    BY <1>1, <1>3 DEF Selection
  <2>3. tab'.opened \in 0..Len(log') /\ tab'.count \in Nat
    BY <1>1, <1>2, <1>4
  <2>4. ASSUME tab'.next # Absent
        PROVE  tab'.at = "downloads" /\ Continues(tab'.next, tab'.q) /\ ~tab'.ended
    <3>1. rows # {} /\ tab'.next = NextPage(q)
      BY <1>1, <2>4 DEF NextOf
    <3>2. QED
      BY <1>1, <1>5, <3>1, FirstPage
  <2>5. QED
    BY <1>1, <1>2, <2>1, <2>2, <2>3, <2>4 DEF TabTypeOK
<1>7. ASSUME Steady', tab'.next # Absent PROVE NoneMissed' /\ ArrivalsSuffice'
  <2>1. rows # {} /\ tab'.next = NextPage(q) /\ tab'.q = q /\ tab'.seen = rows
        /\ tab'.opened = Len(log) /\ tab'.count = Cardinality(rows)
    BY <1>1, <1>7 DEF NextOf
  <2>2. OrderOf("downloads", q) = "descending" /\ rows = Rows(q)
    BY <1>1, <1>5, <1>7, <2>1 DEF Steady, View
  <2>3. /\ OffsetOf(q) = 0 /\ LimitOf(q) \in Nat \ {0}
        /\ NextPage(q).offset = LimitOf(q)
    BY FirstPage
  <2>4. rows = {r \in Selection(q.selval) : PlaceIn(q, r) \in 0..(LimitOf(q) - 1)}
    BY <2>2, <2>3, RowsByPlace
  <2>5. \A r \in Selection(q.selval) : PlaceIn(q, r) \in Nat
    BY <1>2, SelectionType, PlaceType DEF PlaceIn
  <2> HIDE DEF rows
  <2>6. \A r \in Selection(q.selval) : r \in rows \/ PlaceIn(q, r) >= LimitOf(q)
    BY <2>3, <2>4, <2>5
  <2>7. \A r \in rows : ~(PlaceIn(q, r) >= LimitOf(q))
    BY <2>3, <2>4, <2>5
  <2>8. \A r : Unread(r)' <=> PlaceIn(q, r) >= LimitOf(q)
    BY <2>1, <2>3 DEF Unread, PlaceIn, KeysOf, Selection, Place, Ahead
  <2>9. NoneMissed'
    <3>1. \A r \in 1..Len(log) : Selected(q, r) => r \in Selection(q.selval)
      BY <1>2, LenProperties DEF Selected, Selection
    <3>2. QED
      BY <2>1, <2>6, <2>8, <3>1 DEF NoneMissed, Selected
  <2>10. Pushed' = {}
    BY <2>1, <2>7, <2>8 DEF Pushed
  <2>11. QED
    BY <1>2, <1>4, <2>1, <2>9, <2>10, FS_EmptySet DEF ArrivalsSuffice
<1>8. NoSkips' /\ RepeatsWithinArrivals'
  <2> HIDE DEF rows
  <2>1. tab'.ended => tab'.opened = 0
    BY <1>1
  <2>2. tab'.count = Cardinality(tab'.seen) /\ Len(log') - tab'.opened \in Nat
    BY <1>1, <1>2
  <2>3. tab'.count - Cardinality(tab'.seen) = 0
    BY <1>1, <1>4
  <2>4. QED
    BY <2>1, <2>2, <2>3 DEF NoSkips, RepeatsWithinArrivals
<1>9. QED
  BY <1>6, <1>7, <1>8 DEF ReadInv

(* The next page: what it shows again was pushed behind its beginning.     *)
LEMMA RevealReads ==
    ASSUME TabTypeOK, ReadInv, Reveal
    PROVE  TabTypeOK' /\ ReadInv'
<1> DEFINE n == tab.next
           q == tab.q
           rows == Rows(n)
           o == n.offset
           L == LimitOf(n)
<1>1. /\ tab' = [tab EXCEPT !.seen = @ \cup rows, !.count = @ + Cardinality(rows),
                             !.next = NextOf(n, rows), !.ended = rows = {}]
      /\ UNCHANGED <<log, counter>> /\ n # Absent
  BY DEF Reveal
<1>2. /\ tab'.at = tab.at /\ tab'.q = q /\ tab'.address = tab.address
      /\ tab'.opened = tab.opened /\ tab'.seen = tab.seen \cup rows
      /\ tab'.count = tab.count + Cardinality(rows) /\ tab'.next = NextOf(n, rows)
      /\ tab'.ended = (rows = {}) /\ IsTab'
  BY <1>1 DEF TabTypeOK, IsTab, TabFields
<1>3. /\ tab.at = "downloads" /\ Continues(n, q)
      /\ log \in Seq(Package) /\ Len(log) \in Nat
  BY <1>1, LenProperties DEF TabTypeOK
<1>4. /\ OffsetOf(n) = o /\ L \in Nat \ {0} /\ o \in Nat
      /\ NextPage(n).offset = o + L /\ Continues(NextPage(n), q)
  BY <1>3, LaterPage DEF Continues
<1> DEFINE S == Selection(q.selval)
<1>5. S \in SUBSET Nat /\ IsFiniteSet(S)
  BY <1>3, SelectionType
<1>6. \A r \in S : PlaceIn(q, r) \in Nat
  BY <1>5, PlaceType DEF PlaceIn
<1>7. rows = {r \in S : PlaceIn(q, r) \in o..(o + L - 1)}
  <2>1. /\ n.selval = q.selval /\ OrderOf("downloads", n) = "descending"
        /\ SortOf("downloads", n) = SortOf("downloads", q)
    BY <1>3, LaterPage DEF Continues
  <2>2. \A r : PlaceIn(n, r) = PlaceIn(q, r)
    BY <2>1 DEF PlaceIn
  <2>3. QED
    BY <1>4, <2>1, <2>2, RowsByPlace
<1> HIDE DEF rows, L
<1>8. /\ tab.seen \in SUBSET S /\ rows \in SUBSET S
      /\ tab.count \in Nat /\ tab.opened \in 0..Len(log)
  BY <1>7 DEF TabTypeOK
<1> HIDE DEF S
<1>9. /\ IsFiniteSet(tab.seen) /\ Cardinality(tab.seen) \in Nat
      /\ IsFiniteSet(rows) /\ Cardinality(rows) \in Nat
  BY <1>5, <1>8, FS_Subset, FS_CardinalityType
<1>10. TabTypeOK'
  <2>1. (tab.seen \subseteq Selection(tab.q.selval))'
    BY <1>1, <1>2, <1>8 DEF S, Selection
  <2>2. tab'.opened \in 0..Len(log') /\ tab'.count \in Nat
    BY <1>1, <1>2, <1>8, <1>9
  <2>3. ASSUME tab'.next # Absent
        PROVE  tab'.at = "downloads" /\ Continues(tab'.next, tab'.q) /\ ~tab'.ended
    <3>1. rows # {} /\ tab'.next = NextPage(n)
      BY <1>2, <2>3 DEF NextOf
    <3>2. QED
      BY <1>2, <1>3, <1>4, <3>1
  <2>4. QED
    BY <1>1, <1>2, <2>1, <2>2, <2>3 DEF TabTypeOK
<1>11. ASSUME Steady' PROVE Steady
  BY <1>2, <1>11 DEF Steady
<1>12. ASSUME Steady
       PROVE  NoneMissed /\ ArrivalsSuffice /\ SortOf("downloads", q) \in {"time", "name"}
  BY <1>1, <1>12 DEF ReadInv, Steady, View, SortOf, Parsed, DefaultSort, Column
<1>13. \A r : PlaceIn(q, r)' = PlaceIn(q, r)
  BY <1>1, <1>2 DEF PlaceIn, KeysOf, Selection, Place, Ahead
<1>14. \A r \in 1..tab.opened : Selected(q, r) => r \in S
  BY <1>3, <1>8, LenProperties DEF Selected, Selection, S
<1>15. ASSUME Steady, tab'.next # Absent PROVE NoneMissed'
  <2>1. tab'.next.offset = o + L
    BY <1>2, <1>4, <1>15 DEF NextOf
  <2>2. \A r \in S : PlaceIn(q, r) >= o => r \in rows \/ PlaceIn(q, r) >= o + L
    BY <1>4, <1>6, <1>7
  <2>3. \A r : Unread(r)' <=> PlaceIn(q, r) >= o + L
    BY <1>2, <1>13, <2>1 DEF Unread
  <2>4. \A r \in 1..tab.opened : Selected(q, r) => r \in tab.seen \/ PlaceIn(q, r) >= o
    BY <1>12, <1>15 DEF NoneMissed, Unread
  <2>5. \A r \in 1..tab.opened : Selected(q, r)' <=> Selected(q, r)
    BY <1>1, <1>2 DEF Selected
  <2>6. QED
    BY <1>2, <1>14, <2>2, <2>3, <2>4, <2>5 DEF NoneMissed
<1>16. ASSUME Steady
       PROVE  /\ tab'.count + tab'.opened <= Cardinality(tab'.seen) + Len(log')
              /\ tab'.next # Absent => ArrivalsSuffice'
  <2> DEFINE A == tab.seen \cap rows
             B == {r \in tab.seen : PlaceIn(q, r) >= o + L}
             P == {r \in tab.seen : PlaceIn(q, r) >= o}
  <2>1. P = A \cup B /\ A \cap B = {}
    <3>1. \A r \in tab.seen : PlaceIn(q, r) \in Nat /\ r \in S
      BY <1>6, <1>8
    <3>2. QED
      BY <1>4, <1>7, <3>1
  <2>2. A \in SUBSET tab.seen /\ B \in SUBSET tab.seen
    OBVIOUS
  <2>3. P = Pushed
    BY DEF Pushed, Unread
  <2>4. tab'.seen = tab.seen \cup rows
    BY <1>2
  <2>5. tab'.next # Absent => Pushed' = B
    <3>1. SUFFICES ASSUME tab'.next # Absent PROVE Pushed' = B
      OBVIOUS
    <3>2. tab'.next.offset = o + L
      BY <1>2, <1>4, <3>1 DEF NextOf
    <3>3. Pushed' = {r \in tab.seen \cup rows : PlaceIn(q, r) >= o + L}
      BY <1>2, <1>13, <3>2 DEF Pushed, Unread
    <3>4. \A r \in rows : ~(PlaceIn(q, r) >= o + L)
      BY <1>4, <1>7, <1>6
    <3>5. QED
      BY <3>3, <3>4
  <2>6. tab.count + Cardinality(P) + tab.opened <= Cardinality(tab.seen) + Len(log)
    <3> HIDE DEF P
    <3>1. QED
      BY <1>12, <1>16, <2>3 DEF ArrivalsSuffice
  <2> DEFINE a == Cardinality(A)
             b == Cardinality(B)
             s == Cardinality(tab.seen)
             k == Cardinality(rows)
  <2> HIDE DEF A, B, P
  <2>7. IsFiniteSet(A) /\ IsFiniteSet(B) /\ a \in Nat /\ b \in Nat
    BY <1>9, <2>2, FS_Subset, FS_CardinalityType
  <2>8. Cardinality(P) = a + b
    BY <2>1, <2>7, FS_Union, FS_EmptySet
  <2>9. Cardinality(tab'.seen) = s + k - a
    BY <1>9, <2>4, FS_Union DEF A
  <2>10. s \in Nat /\ k \in Nat /\ tab'.count = tab.count + k /\ tab'.opened = tab.opened
         /\ log' = log
    BY <1>1, <1>2, <1>9
  <2> HIDE DEF a, b, s, k
  <2>11. a + b + tab.count + tab.opened <= s + Len(log)
    <3>1. tab.count + (a + b) + tab.opened <= s + Len(log)
      BY <2>6, <2>8 DEF s
    <3>2. QED
      BY <1>3, <1>8, <2>7, <2>10, <3>1
  <2>12. tab'.count + b + tab'.opened <= Cardinality(tab'.seen) + Len(log')
    BY <1>3, <1>8, <2>7, <2>9, <2>10, <2>11
  <2>13. tab'.count + tab'.opened <= Cardinality(tab'.seen) + Len(log')
    BY <1>3, <1>8, <2>7, <2>9, <2>10, <2>11
  <2>14. QED
    BY <2>5, <2>12, <2>13 DEF ArrivalsSuffice, b
<1>17. ASSUME Steady PROVE NoSkips'
  <2>1. SUFFICES ASSUME rows = {}, NEW r \in 1..tab.opened, Selected(q, r), r \notin tab.seen
                 PROVE  FALSE
    BY <1>1, <1>2 DEF NoSkips, Selected
  <2>2. r \in S /\ PlaceIn(q, r) >= o
    BY <1>12, <1>14, <1>17, <2>1 DEF NoneMissed, Unread
  <2> DEFINE key == KeysOf(SortOf("downloads", q))
  <2>3. \A x \in S : key[x] \in Nat
    BY <1>3, <1>12, <1>17, KeysType DEF S, Selection
  <2>4. \A x \in S : PlaceIn(q, x) = Place(key, S, x)
    BY DEF PlaceIn, S
  <2> HIDE DEF key
  <2>5. \E x \in S : Place(key, S, x) = o
    <3>1. o <= Place(key, S, r)
      BY <1>4, <1>6, <2>2, <2>4
    <3>2. QED
      BY <1>4, <1>5, <2>2, <2>3, <3>1, PlacesFilled
  <2>6. PICK x \in S : PlaceIn(q, x) = o
    BY <2>4, <2>5
  <2>7. x \in rows
    BY <1>4, <1>7, <2>6
  <2>8. QED
    BY <2>1, <2>7
<1>18. ASSUME Steady' PROVE RepeatsWithinArrivals'
  <2>1. /\ tab'.count + tab'.opened <= Cardinality(tab'.seen) + Len(log')
        /\ tab'.count \in Nat /\ tab'.opened \in Nat /\ Len(log') \in Nat
    BY <1>1, <1>2, <1>3, <1>8, <1>9, <1>11, <1>16, <1>18
  <2>2. Cardinality(tab'.seen) \in Nat
    BY <1>2, <1>9, FS_Union, FS_CardinalityType
  <2>3. tab'.count - Cardinality(tab'.seen) <= Len(log') - tab'.opened
    BY <2>1, <2>2
  <2>4. QED
    BY <2>3 DEF RepeatsWithinArrivals
<1>19. QED
  BY <1>10, <1>11, <1>15, <1>16, <1>17, <1>18 DEF ReadInv

(* A download: rows come in anywhere, and push at most one over a boundary.*)
LEMMA DownloadReads ==
    ASSUME TabTypeOK, ReadInv, NEW p \in Package, Download(p)
    PROVE  TabTypeOK' /\ ReadInv'
<1> DEFINE q == tab.q
           S == Selection(q.selval)
           T == Selection(q.selval)'
           m == Len(log) + 1
<1>1. /\ log' = Append(log, p) /\ log \in Seq(Package) /\ Len(log) \in Nat
      /\ counter' = counter /\ tab' = tab
  BY LenProperties DEF Download, TabTypeOK
<1>2. /\ log' \in Seq(Package) /\ Len(log') = m
      /\ DOMAIN log = 1..Len(log) /\ DOMAIN log' = 1..m
      /\ \A r \in DOMAIN log : log'[r] = log[r]
  BY <1>1, AppendProperties, LenProperties
<1>3. S \subseteq T /\ T \subseteq S \cup {m} /\ S \subseteq DOMAIN log
  BY <1>1, <1>2 DEF Selection
<1>4. S \in SUBSET Nat /\ IsFiniteSet(S)
  BY <1>1, SelectionType
<1>5. TabTypeOK'
  <2>1. (tab.seen \subseteq Selection(tab.q.selval))'
    BY <1>1, <1>3 DEF TabTypeOK
  <2>2. tab'.opened \in 0..Len(log')
    BY <1>1, <1>2 DEF TabTypeOK
  <2>3. QED
    BY <1>1, <1>2, <2>1, <2>2 DEF TabTypeOK, IsTab
<1>6. /\ tab.seen \in SUBSET S /\ tab.count \in Nat /\ tab.opened \in 0..Len(log)
      /\ IsFiniteSet(tab.seen) /\ Cardinality(tab.seen) \in Nat
  BY <1>4, FS_Subset, FS_CardinalityType DEF TabTypeOK
<1>7. \A r \in 1..tab.opened : (Selected(q, r)' <=> Selected(q, r)) /\ (Selected(q, r) => r \in S)
  BY <1>1, <1>2, <1>6 DEF Selected, Selection
<1>8. ASSUME Steady' PROVE Steady /\ SortOf("downloads", q) \in {"time", "name"}
  BY <1>1, <1>8 DEF Steady, View, SortOf, Parsed, DefaultSort, Column
<1>9. ASSUME Steady, SortOf("downloads", q) \in {"time", "name"}, tab.next # Absent
      PROVE  NoneMissed' /\ ArrivalsSuffice'
  <2> DEFINE key == KeysOf(SortOf("downloads", q))
             key2 == KeysOf(SortOf("downloads", q))'
             o == tab.next.offset
  <2>1. \A x \in S : key[x] \in Nat
    BY <1>1, <1>3, <1>9, KeysType
  <2>2. \A x \in S : key2[x] = key[x]
    <3>1. KeysOf("time")' = [r \in DOMAIN log' |-> r] /\ KeysOf("name")' = log'
      BY DEF KeysOf
    <3>2. KeysOf("time") = [r \in DOMAIN log |-> r] /\ KeysOf("name") = log
      BY DEF KeysOf
    <3>3. \A x \in S : x \in DOMAIN log /\ x \in DOMAIN log'
      BY <1>2, <1>3, <1>1
    <3>4. key2 = (IF SortOf("downloads", q) = "time" THEN KeysOf("time")' ELSE KeysOf("name")')
      BY <1>1, <1>9 DEF KeysOf
    <3>5. QED
      BY <1>2, <1>9, <3>1, <3>2, <3>3, <3>4
  <2>3. o \in Nat
    BY <1>9 DEF TabTypeOK, Continues
  <2>4. /\ \A r : PlaceIn(q, r) = Place(key, S, r)
        /\ \A r : PlaceIn(q, r)' = Place(key2, T, r)
    BY <1>1 DEF PlaceIn, Place, Ahead
  <2> HIDE DEF S, T, key, key2, m
  <2>5. \A r \in S : /\ Place(key, S, r) \in Nat
                     /\ Place(key2, T, r) \in {Place(key, S, r), Place(key, S, r) + 1}
    BY <1>3, <1>4, <2>2, PlaceType, PlacesMove
  <2>6. NoneMissed'
    <3>1. SUFFICES ASSUME NEW r \in 1..tab.opened, Selected(q, r)', r \notin tab.seen
                   PROVE  PlaceIn(q, r)' >= o
      BY <1>1 DEF NoneMissed, Unread
    <3>2. r \in S /\ PlaceIn(q, r) >= o
      BY <1>7, <1>9, <3>1 DEF ReadInv, NoneMissed, Unread
    <3>3. QED
      BY <2>3, <2>4, <2>5, <3>2
  <2> DEFINE P == {r \in tab.seen : Place(key, S, r) >= o}
             Q == {r \in tab.seen : Place(key2, T, r) >= o}
  <2>7. /\ Cardinality(P) \in Nat /\ Cardinality(Q) \in Nat
        /\ Cardinality(Q) <= Cardinality(P) + 1
    <3>1. ASSUME NEW P1, P1 = P, NEW Q1, Q1 = Q
          PROVE  /\ Cardinality(P1) \in Nat /\ Cardinality(Q1) \in Nat
                 /\ Cardinality(Q1) <= Cardinality(P1) + 1
      <4>1. /\ \A r : r \in P1 <=> r \in tab.seen /\ Place(key, S, r) >= o
            /\ \A r : r \in Q1 <=> r \in tab.seen /\ Place(key2, T, r) >= o
        BY <3>1
      <4>2. tab.seen \in SUBSET S
        BY <1>6
      <4> HIDE DEF o, P, Q, q
      <4>3. QED
        BY <1>3, <1>4, <2>1, <2>2, <2>3, <4>1, <4>2, OneIsPushed, ZenonT(30)
    <3> HIDE DEF P, Q
    <3>2. QED
      BY <3>1
  <2>8. P = Pushed /\ Q = Pushed'
    BY <1>1, <2>4 DEF Pushed, Unread
  <2> HIDE DEF P, Q
  <2>9. tab.count + Cardinality(P) + tab.opened <= Cardinality(tab.seen) + Len(log)
    BY <1>9, <2>8 DEF ReadInv, ArrivalsSuffice
  <2>10. tab.count + Cardinality(Q) + tab.opened <= Cardinality(tab.seen) + m
    BY <1>1, <1>6, <2>7, <2>9 DEF m
  <2>11. ArrivalsSuffice'
    BY <1>1, <1>2, <2>8, <2>10 DEF ArrivalsSuffice
  <2>12. QED
    BY <2>6, <2>11
<1>10. ASSUME Steady PROVE NoSkips'
  BY <1>1, <1>7, <1>10 DEF ReadInv, NoSkips
<1>11. ASSUME Steady PROVE RepeatsWithinArrivals'
  BY <1>1, <1>2, <1>6, <1>11 DEF ReadInv, RepeatsWithinArrivals
<1>12. QED
  BY <1>1, <1>5, <1>8, <1>9, <1>10, <1>11 DEF ReadInv

(* A package's counter moves: only a listing by downloads has it for key.  *)
LEMMA CountReads ==
    ASSUME TabTypeOK, ReadInv, NEW p \in Package, Count(p)
    PROVE  TabTypeOK' /\ ReadInv'
<1>1. log' = log /\ tab' = tab
  BY DEF Count
<1>2. TabTypeOK'
  BY <1>1 DEF TabTypeOK, IsTab, Selection
<1>3. ASSUME Steady' PROVE Steady /\ SortOf("downloads", tab.q) \in {"time", "name"}
  BY <1>1, <1>3 DEF Steady, View, SortOf, Parsed, DefaultSort, Column
<1>4. ASSUME Steady, SortOf("downloads", tab.q) \in {"time", "name"}
      PROVE  \A r : PlaceIn(tab.q, r)' = PlaceIn(tab.q, r)
  BY <1>1, <1>4 DEF PlaceIn, KeysOf, Selection, Place, Ahead
<1>5. ASSUME Steady, SortOf("downloads", tab.q) \in {"time", "name"}, tab.next # Absent
      PROVE  NoneMissed' /\ ArrivalsSuffice'
  <2>1. \A r : Unread(r)' <=> Unread(r)
    BY <1>1, <1>4, <1>5 DEF Unread
  <2>2. Pushed' = Pushed
    BY <1>1, <2>1 DEF Pushed
  <2>3. QED
    BY <1>1, <1>5, <2>1, <2>2 DEF ReadInv, NoneMissed, ArrivalsSuffice, Selected
<1>6. QED
  BY <1>1, <1>2, <1>3, <1>5 DEF ReadInv, NoSkips, RepeatsWithinArrivals, Selected

LEMMA FetchReads ==
    ASSUME TabTypeOK, NEW page, NEW q, NEW address, Opened(q), Opened(address),
           Fetch(page, q, address)
    PROVE  TabTypeOK' /\ ReadInv'
  BY ShowsReads DEF Fetch

LEMMA ReadKept == TabTypeOK /\ ReadInv /\ [Next]_listingVars => TabTypeOK' /\ ReadInv'
<1> SUFFICES ASSUME TabTypeOK, ReadInv, [Next]_listingVars PROVE TabTypeOK' /\ ReadInv'
  OBVIOUS
<1>1. ASSUME NEW page, NEW q, Opened(q), Visit(page, q) PROVE TabTypeOK' /\ ReadInv'
  BY <1>1, ShowsReads DEF Visit
<1>2. Opened(NoParams) /\ Opened(tab.q) /\ Opened(tab.address)
  BY DEF TabTypeOK, Opened, NoParams, Keys
<1>3. ASSUME NEW q \in Bookmarks, Visit("downloads", q) PROVE TabTypeOK' /\ ReadInv'
  <2>1. Opened(q)
    BY <1>3 DEF Bookmarks, Opened, NoParams, Keys
  <2>2. QED
    BY <1>1, <1>3, <2>1
<1>4. ASSUME NEW page, Visit(page, NoParams) PROVE TabTypeOK' /\ ReadInv'
  BY <1>1, <1>2, <1>4
<1>5. CASE Reload
  BY <1>1, <1>2, <1>5 DEF Reload
<1>6. ASSUME NEW page, FollowLink(page) PROVE TabTypeOK' /\ ReadInv'
  <2>1. Opened([NoParams EXCEPT !.mode = "plain"])
    BY DEF Opened, NoParams, Keys
  <2>2. QED
    BY <1>2, <1>6, <2>1, FetchReads DEF FollowLink
<1>7. CASE FollowDownloads
  <2>1. PICK p \in Package \cup {Absent} :
           Fetch("downloads", [NoParams EXCEPT !.mode = "plain", !.selval = p],
                 [NoParams EXCEPT !.mode = "full", !.selval = p])
    BY <1>7 DEF FollowDownloads
  <2>2. /\ Opened([NoParams EXCEPT !.mode = "plain", !.selval = p])
        /\ Opened([NoParams EXCEPT !.mode = "full", !.selval = p])
    BY DEF Opened, NoParams, Keys
  <2>3. QED
    BY <2>1, <2>2, FetchReads
<1>8. ASSUME NEW column \in Column, ClickColumn(column) PROVE TabTypeOK' /\ ReadInv'
  <2>1. \A q, mode : Opened(ColumnUrl(q, column, mode))
    BY DEF Opened, ColumnUrl, NoParams, Keys
  <2>2. \A page, q : Opened(ButtonFetch(page, q, column)) /\ Opened(ButtonPush(page, q, column))
    BY DEF Opened, ButtonFetch, ButtonPush, NoParams, Keys
  <2>3. QED
    BY <1>8, <2>1, <2>2, FetchReads DEF ClickColumn
<1>9. CASE Search
  <2>1. Opened([NoParams EXCEPT !.mode = "plain", !.search = Garbled])
    BY DEF Opened, NoParams, Keys
  <2>2. QED
    BY <1>2, <1>9, <2>1, FetchReads DEF Search
<1>10. CASE UNCHANGED listingVars
  <2>1. log' = log /\ counter' = counter /\ tab' = tab
    BY <1>10 DEF listingVars
  <2>2. TabTypeOK'
    BY <2>1 DEF TabTypeOK, IsTab, Selection
  <2>3. \A r : PlaceIn(tab.q, r)' = PlaceIn(tab.q, r)
    BY <2>1 DEF PlaceIn, KeysOf, Selection, Place, Ahead
  <2>4. (\A r : Unread(r)' <=> Unread(r)) /\ Pushed' = Pushed
    BY <2>1, <2>3 DEF Unread, Pushed
  <2>5. NoneMissed' <=> NoneMissed
    BY <2>1, <2>4 DEF NoneMissed, Selected
  <2>6. ArrivalsSuffice' <=> ArrivalsSuffice
    BY <2>1, <2>4 DEF ArrivalsSuffice
  <2>7. QED
    BY <2>1, <2>2, <2>5, <2>6
    DEF ReadInv, Steady, NoSkips, RepeatsWithinArrivals, Selected
<1>11. QED
  BY <1>3, <1>4, <1>5, <1>6, <1>7, <1>8, <1>9, <1>10, RevealReads, DownloadReads, CountReads
  DEF Next

LEMMA ReadInitially == Init => TabTypeOK /\ ReadInv
<1> SUFFICES ASSUME Init PROVE TabTypeOK /\ ReadInv
  OBVIOUS
<1>1. tab = [at |-> "none", q |-> NoParams, address |-> NoParams, nested |-> FALSE,
             seen |-> {}, count |-> 0, next |-> Absent, opened |-> 0, ended |-> FALSE]
  BY DEF Init
<1>2. log \in Seq(Package)
  <2>1. PICK k \in 0..MaxInitialRows : log \in [1..k -> Package]
    BY DEF Init
  <2>2. QED
    BY <2>1, IsASeq
<1>3. IsTab /\ Opened(tab.q) /\ Opened(tab.address)
  BY <1>1 DEF IsTab, TabFields, Opened, NoParams, Keys
<1>4. /\ tab.at = "none" /\ tab.seen = {} /\ tab.count = 0 /\ tab.next = Absent
      /\ tab.opened = 0 /\ Len(log) \in Nat
  BY <1>1, <1>2, LenProperties
<1>5. QED
  BY <1>2, <1>3, <1>4 DEF TabTypeOK, ReadInv, Steady

LEMMA ReadInvariant == Spec => [](TabTypeOK /\ ReadInv)
<1>1. QED
  BY ReadInitially, ReadKept, PTL DEF Spec

(* A log of downloads that was read to its end, page by page and for any   *)
(* number of arrivals between the pages, showed each row that was there.   *)
THEOREM NothingIsSkipped == Spec => []NoSkips
<1>1. TabTypeOK /\ ReadInv => NoSkips
  BY DEF ReadInv, NoSkips
<1>2. QED
  BY <1>1, ReadInvariant, PTL

(* And it repeated at most as many rows as arrived in the meantime.        *)
THEOREM RepeatsAreArrivals == Spec => []RepeatsWithinArrivals
<1>1. TabTypeOK /\ ReadInv => RepeatsWithinArrivals
  BY DEF ReadInv, RepeatsWithinArrivals
<1>2. QED
  BY <1>1, ReadInvariant, PTL

=============================================================================
