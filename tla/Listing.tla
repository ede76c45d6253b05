------------------------------ MODULE Listing ------------------------------
(***************************************************************************)
(* One browser tab on the pages that list: the packages ("/"), the         *)
(* archives of a package ("/find/p") and the log of downloads, which is    *)
(* served a page at a time while downloads go on. What a page shows        *)
(* depends on the parameters of its URL, and every URL is written by an    *)
(* earlier page: this module is about that loop, through main's parsing    *)
(* of the parameters, not about layout.                                    *)
(***************************************************************************)
EXTENDS Naturals, Sequences, FiniteSets

CONSTANTS
    Package,       \* package names: numbers, for their order
    PageSize,      \* rows of a page without a limit (100)
    Limits,        \* the limits that a bookmark may carry
    Absent,        \* the value of a parameter that the URL does not have
    Garbled,       \* a text that names no mode, order, column or number
    MaxRows,       \* bound: downloads in the log
    MaxInitialRows \* bound: downloads when the tab opens

ASSUME ListingConstants ==
    /\ Package \subseteq Nat
    /\ PageSize \in Nat \ {0}
    /\ Limits \subseteq Nat \ {0}
    /\ Garbled # Absent
    /\ \A text \in {Absent, Garbled} :
          text \notin Nat \cup {"full", "plain", "append", "ascending", "descending",
                              "time", "name", "downloads"}

VARIABLES
    log,        \* Download rows in the order of their times: their packages
    counter,    \* [Package -> the downloads column of its row]
    tab         \* what the browser shows

listingVars == <<log, counter, tab>>

----------------------------------------------------------------------------
(* URLs: their parameters, and what main makes of them. "sort" stands for  *)
(* the parameter sort of index and find and for sortidx of downloads.      *)

Keys == {"mode", "sort", "order", "offset", "limit", "selval", "search"}

NoParams == [k \in Keys |-> Absent]

Mode == {"full", "plain", "append"}
Order == {"ascending", "descending"}
Column == {"time", "name", "downloads"}

(* enumTo, value_or: a text that is no name of the enum counts as absent.  *)
Parsed(text, names, default) == IF text \in names THEN text ELSE default

Number(value, default) == IF value \in {Absent, Garbled} THEN default ELSE value

ModeOf(q) == Parsed(q.mode, Mode, "full")

DefaultSort(page) == IF page = "downloads" THEN "time" ELSE "default"
SortOf(page, q) == Parsed(q.sort, Column, DefaultSort(page))

DefaultOrder(page) == IF page = "downloads" THEN "descending" ELSE "ascending"
OrderOf(page, q) == Parsed(q.order, Order, DefaultOrder(page))

OffsetOf(q) == Number(q.offset, 0)
LimitOf(q) == Number(q.limit, PageSize)

(* What tells one listing from another, apart from how far it was read.    *)
View(page, q) ==
    [sort |-> SortOf(page, q), order |-> OrderOf(page, q),
     selval |-> q.selval, search |-> q.search]

----------------------------------------------------------------------------
(* executeQueary: rows with equal keys come in the order of the table. The *)
(* rows of a page are a set: nothing here depends on their layout.         *)

KeysOf(column) ==
    CASE column = "time" -> [r \in DOMAIN log |-> r]
      [] column = "name" -> log
      [] column = "downloads" -> [r \in DOMAIN log |-> counter[log[r]]]

RowsBefore(q, rows) ==
    LET key == KeysOf(SortOf("downloads", q))
        up == OrderOf("downloads", q) = "ascending"
    IN  [r \in rows |-> {x \in rows : \/ key[x] = key[r] /\ x < r
                                     \/ IF up THEN key[x] < key[r] ELSE key[x] > key[r]}]

Selected(q, r) == q.selval \in {Absent, log[r]}

Rows(q) ==
    LET before == RowsBefore(q, {r \in DOMAIN log : Selected(q, r)})
    IN  {r \in DOMAIN before :
            Cardinality(before[r]) \in OffsetOf(q)..(OffsetOf(q) + LimitOf(q) - 1)}

----------------------------------------------------------------------------
(* The links of a page.                                                    *)

(* mutants: the size of a page is taken for its limit, and the last row of *)
(* a page for the first row of the next.                                   *)
OffsetByPageSize(q) == OffsetOf(q) + PageSize
OffsetOfLastRow(q) == OffsetOf(q) + LimitOf(q) - 1

NextOffset(q) == OffsetOf(q) + LimitOf(q)

(* turl: fmt writes the optional order as "optional(ascending)" or "none". *)
NextPage(q) ==
    [NoParams EXCEPT !.mode = "append", !.sort = SortOf("downloads", q),
                     !.order = Garbled, !.offset = NextOffset(q),
                     !.selval = q.selval]

Toggled(page, q, column) ==
    IF SortOf(page, q) = column /\ OrderOf(page, q) = "ascending"
    THEN "descending" ELSE "ascending"

(* mutants: the order is only written to the URL that is fetched, and the  *)
(* mode is set before either is formatted.                                 *)
ColumnUrlLosesOrder(q, column, mode) ==
    [NoParams EXCEPT !.mode = mode, !.sort = column, !.selval = q.selval,
        !.order = IF mode = "plain" THEN Toggled("downloads", q, column) ELSE Absent]

ColumnUrlFull(q, column, mode) ==
    [NoParams EXCEPT !.mode = "full", !.sort = column, !.selval = q.selval,
                     !.order = Toggled("downloads", q, column)]

(* buttonIdx: fetched with mode plain, shown in the address bar with full. *)
ColumnUrl(q, column, mode) ==
    [NoParams EXCEPT !.mode = mode, !.sort = column, !.selval = q.selval,
                     !.order = Toggled("downloads", q, column)]

(* button: "?" and its parameters appended to a path. The path that find   *)
(* hands it ends in "?mode=plain" already, so that the second "?" becomes  *)
(* part of the value of mode and takes the first parameter with it.        *)
ButtonFetch(page, q, column) ==
    [NoParams EXCEPT !.sort = column, !.order = Toggled(page, q, column),
                     !.mode = IF page = "find" THEN Garbled ELSE "plain"]

ButtonPush(page, q, column) ==
    [NoParams EXCEPT !.order = Toggled(page, q, column),
                     !.sort = IF page = "find" THEN Absent ELSE column,
                     !.mode = IF page = "find" THEN Garbled ELSE Absent]

----------------------------------------------------------------------------
(* The tab: at: its page; q: the parameters its content was asked with;    *)
(* address: those of its address bar; nested: a whole page inside the      *)
(* content; seen, count, next, opened, ended: the downloads it showed so   *)
(* far, how many rows that took, the link to the rest, the length of the   *)
(* log at its first page, and whether a page came back empty.              *)

NextOf(q, rows) == IF rows = {} THEN Absent ELSE NextPage(q)

Shows(page, q, address, nested) ==
    LET rows == IF page = "downloads" THEN Rows(q) ELSE {}
    IN  tab' = [at |-> page, q |-> q, address |-> address, nested |-> nested,
                seen |-> rows, count |-> Cardinality(rows), next |-> NextOf(q, rows),
                opened |-> IF rows = {} THEN 0 ELSE Len(log), ended |-> page = "downloads" /\ rows = {}]

(* A new document, from a bookmark or by typing. *)
Visit(page, q) ==
    /\ Shows(page, q, q, FALSE)
    /\ UNCHANGED <<log, counter>>

Reload == Visit(tab.at, tab.address)

(* htmx puts an answer into the content element: fit for mode plain only.  *)
Fetch(page, q, address) ==
    /\ Shows(page, q, address, tab.nested \/ ModeOf(q) = "full")
    /\ UNCHANGED <<log, counter>>

(* navItem and link. *)
FollowLink(page) ==
    /\ tab.at # "none"
    /\ page \in {"index", "find"}
    /\ Fetch(page, [NoParams EXCEPT !.mode = "plain"], NoParams)

(* downloadsLink: all downloads from the index, those of the package from  *)
(* its page.                                                               *)
FollowDownloads ==
    \E p \in Package \cup {Absent} :
        /\ IF p = Absent THEN tab.at = "index" ELSE tab.at = "find"
        /\ Fetch("downloads", [NoParams EXCEPT !.mode = "plain", !.selval = p],
                 [NoParams EXCEPT !.mode = "full", !.selval = p])

ClickColumn(column) ==
    \/ /\ tab.at = "downloads"
       /\ Fetch("downloads", ColumnUrl(tab.q, column, "plain"),
                ColumnUrl(tab.q, column, "full"))
    \/ /\ tab.at \in {"index", "find"}
       /\ Fetch(tab.at, ButtonFetch(tab.at, tab.q, column),
                ButtonPush(tab.at, tab.q, column))

(* The search field names no address: the tab keeps the one it has.        *)
Search ==
    /\ tab.at = "index"
    /\ Fetch("index", [NoParams EXCEPT !.mode = "plain", !.search = Garbled],
             tab.address)

(* The last row comes into sight and fetches the page after it.            *)
Reveal ==
    /\ tab.at = "downloads"
    /\ tab.next # Absent
    /\ LET rows == Rows(tab.next)
       IN  tab' = [tab EXCEPT !.seen = @ \cup rows, !.count = @ + Cardinality(rows),
                              !.next = NextOf(tab.next, rows), !.ended = rows = {}]
    /\ UNCHANGED <<log, counter>>

----------------------------------------------------------------------------
(* A GET of an archive logs a download and counts it for the package.      *)

Download(p) ==
    /\ Len(log) < MaxRows
    /\ log' = Append(log, p)
    /\ UNCHANGED <<counter, tab>>

Count(p) ==
    /\ counter[p] < Cardinality({r \in DOMAIN log : log[r] = p})
    /\ counter' = [counter EXCEPT ![p] = @ + 1]
    /\ UNCHANGED <<log, tab>>

----------------------------------------------------------------------------

Init ==
    /\ log \in UNION {[1..n -> Package] : n \in 0..MaxInitialRows}
    /\ counter = [p \in Package |-> Cardinality({r \in DOMAIN log : log[r] = p})]
    /\ tab = [at |-> "none", q |-> NoParams, address |-> NoParams, nested |-> FALSE,
              seen |-> {}, count |-> 0, next |-> Absent, opened |-> 0, ended |-> FALSE]

Bookmarks == {[NoParams EXCEPT !.limit = n] : n \in Limits \cup {Absent}}

Next ==
    \/ \E q \in Bookmarks : Visit("downloads", q)
    \/ \E page \in {"index", "find"} : Visit(page, NoParams)
    \/ tab.at # "none" /\ Reload
    \/ \E page \in {"index", "find"} : FollowLink(page)
    \/ FollowDownloads
    \/ \E column \in Column : ClickColumn(column)
    \/ Search
    \/ Reveal
    \/ \E p \in Package : Download(p) \/ Count(p)

Spec == Init /\ [][Next]_listingVars

----------------------------------------------------------------------------
(* Safety.                                                                 *)

(* The order and column whose rows no download moves forward: new rows may *)
(* come in anywhere, and so push others back, but none overtakes another.  *)
Steady ==
    /\ tab.at = "downloads"
    /\ View("downloads", tab.q).order = "descending"
    /\ View("downloads", tab.q).sort # "downloads"

(* A listing of downloads that was read to its end shows every row that it *)
(* selects and that was there when it was opened, however many downloads   *)
(* were logged between its pages and whatever limit it began with. (In     *)
(* ascending order it does not: the second page comes descending.)         *)
NoSkips ==
    Steady /\ tab.ended =>
        \A r \in 1..tab.opened : Selected(tab.q, r) => r \in tab.seen

(* It repeats at most as many rows as were logged since it was opened.     *)
RepeatsWithinArrivals ==
    Steady => tab.count - Cardinality(tab.seen) <= Len(log) - tab.opened

(* To reload the page, or to send its address to somebody, shows the same  *)
(* listing: what is fetched and what is pushed to the address bar are two  *)
(* URLs written apart. (find and the search field fail to do this.)        *)
AddressIsOfContent ==
    tab.at # "find" /\ tab.q.search = Absent =>
        View(tab.at, tab.address) = View(tab.at, tab.q)

(* A page is put inside another only by a column of find: every other link *)
(* of these pages asks for the content alone, through any chain of clicks. *)
NestsOnlyFromFind ==
    [][tab.nested' /\ ~tab.nested => tab.at = "find"]_listingVars

=============================================================================
