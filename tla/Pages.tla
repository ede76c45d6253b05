------------------------------- MODULE Pages -------------------------------
(***************************************************************************)
(* The whole server: CacheServer and the pages that read the store and the *)
(* database (site.cpp), served by the same pool of threads. allInfos gives *)
(* a view of the Valid entries that holds smtx, shared, for as long as the *)
(* expression around it lasts; what a page keeps beyond that are pointers  *)
(* to Infos. match and the listing of downloads keep neither. A walk of    *)
(* several steps makes smtx visible: who holds it shared, and which of the *)
(* server's steps take it exclusively.                                     *)
(***************************************************************************)
EXTENDS CacheServer

VARIABLE page   \* [Worker -> the page that its thread is building]

pageVars == <<vars, page>>

(* held: the entries that a pointer or the walk refers to; left: package   *)
(* names or entries still to look up; busy, a history: whether some        *)
(* archive was not fully recorded when the page first looked at the store. *)
PageAt == {"none", "packages", "walk", "count", "info", "failed"}
NoPage == [at |-> "none", package |-> NoName, left |-> {}, held |-> {}, busy |-> FALSE]

ReadableSet == {s \in Sha : Readable(s)}

(* The archive of s cannot be shown: its Info or one of its rows is not    *)
(* there yet.                                                              *)
Unrecorded(s) ==
    \/ infos[s].info = NoInfo
    \/ CacheIds(s) = {}
    \/ PackageIds(NameOf(infos[s].info)) = {}

Busy == \E s \in ReadableSet : Unrecorded(s)

----------------------------------------------------------------------------
(* Steps of a page.                                                        *)

(* A page changes nothing of the server.                                   *)
InPage(w, p) ==
    /\ page' = [page EXCEPT ![w] = p]
    /\ UNCHANGED vars

StartPage(w, p) ==
    /\ pc[w] = "idle"
    /\ page[w] = NoPage
    /\ InPage(w, p)

EndPage(w) == InPage(w, NoPage)

(* The getter throws, and the exception handler answers 500.               *)
FailPage(w) == InPage(w, [page[w] EXCEPT !.at = "failed", !.left = {}, !.held = {}])

(* mutant: only what was downloaded counts *)
DownloadedPackages(n) == {k \in PackageIds(n) : packages[k].downloads > 0}

(* What getPackageDownloadsAndLastUse and getCacheDownloadsAndLastUse find.*)
PackageStats(n) == PackageIds(n)
CacheStats(s) == CacheIds(s)

----------------------------------------------------------------------------
(* index: collects pointers to all Infos by the package each has at that   *)
(* moment, and looks the packages up after the lock is gone.               *)

IndexCollect(w) ==
    \E i \in [ReadableSet -> Info] :
        /\ \A s \in ReadableSet : i[s] \in RacingInfos(s)
        /\ StartPage(w, [at |-> "packages", package |-> NoName,
                         left |-> {NameOf(i[s]) : s \in ReadableSet},
                         held |-> ReadableSet, busy |-> Busy])

IndexPackage(w) ==
    /\ page[w].at = "packages"
    /\ \E n \in page[w].left :
        /\ PackageStats(n) # {}
        /\ InPage(w, [page[w] EXCEPT !.left = @ \ {n}])

IndexThrows(w) ==
    /\ page[w].at = "packages"
    /\ \E n \in page[w].left : PackageStats(n) = {}
    /\ FailPage(w)

IndexEnd(w) ==
    /\ page[w].at = "packages"
    /\ page[w].left = {}
    /\ EndPage(w)

----------------------------------------------------------------------------
(* find: looks up the row of each archive of the package while it walks    *)
(* the entries, and then walks them again for their number and size.       *)

FindOpen(w, p) ==
    StartPage(w, [at |-> "walk", package |-> p, left |-> ReadableSet,
                  held |-> ReadableSet, busy |-> Busy])

(* The package and the sha of an entry are read one after the other.       *)
FindEntry(w) ==
    /\ page[w].at = "walk"
    /\ \E s \in page[w].left :
        /\ \E i, j \in RacingInfos(s) :
             NameOf(i) = page[w].package => CacheStats(ShaOf(s, j)) # {}
        /\ InPage(w, [page[w] EXCEPT !.left = @ \ {s}])

FindThrows(w) ==
    /\ page[w].at = "walk"
    /\ \E s \in page[w].left : \E i, j \in RacingInfos(s) :
        NameOf(i) = page[w].package /\ CacheStats(ShaOf(s, j)) = {}
    /\ FailPage(w)

FindRelease(w) ==
    /\ page[w].at = "walk"
    /\ page[w].left = {}
    /\ InPage(w, [page[w] EXCEPT !.at = "count", !.held = {}])

FindCount(w) ==
    /\ page[w].at = "count"
    /\ EndPage(w)

----------------------------------------------------------------------------
(* compare and sha: keep a pointer to one Info; a hash that is not         *)
(* readable gets a page that says so.                                      *)

InfoOpen(w, s) ==
    /\ Readable(s)
    /\ StartPage(w, [at |-> "info", package |-> NoName, left |-> {},
                     held |-> {s}, busy |-> Busy])

InfoEnd(w) ==
    /\ page[w].at = "info"
    /\ EndPage(w)

----------------------------------------------------------------------------

PageReply(w) ==
    /\ page[w].at = "failed"
    /\ EndPage(w)

OpenPage(w) ==
    \/ IndexCollect(w)
    \/ \E p \in Package : FindOpen(w, p)
    \/ \E s \in Sha : InfoOpen(w, s)

PageHandler(w) ==
    \/ IndexPackage(w) \/ IndexThrows(w) \/ IndexEnd(w)
    \/ FindEntry(w) \/ FindThrows(w) \/ FindRelease(w) \/ FindCount(w)
    \/ InfoEnd(w) \/ PageReply(w)

(* The view of a walk holds smtx from its first to its last row.           *)
SharedHolders == {w \in Worker : page[w].at = "walk"}

(* mutant: remove looks the entry up without the lock *)
ExclusiveButRemove ==
    \E w \in Worker :
        \/ \E s \in Sha : PutOpen(w, s) \/ PutConflict(w, s) \/ PutThrows(w, s)
        \/ PutPublish(w) \/ PutInfoDisk(w)

(* Store::write, ~StoreWriter where it publishes, Store::info where it     *)
(* enters a file that it found, and Store::remove hold smtx alone, for as  *)
(* long as their one step lasts.                                           *)
Exclusive ==
    \/ \E w \in Worker :
        \/ \E s \in Sha : PutOpen(w, s) \/ PutConflict(w, s) \/ PutThrows(w, s)
        \/ PutPublish(w) \/ PutInfoDisk(w)
    \/ MaintainRemove \/ MaintainDies

(* A thread that builds a page takes no other request.                     *)
ServerStep ==
    /\ Next
    /\ SharedHolders # {} => ~Exclusive
    /\ \A w \in Worker : page[w] # NoPage => pc'[w] = "idle"
    /\ UNCHANGED page

PagesInit == Init /\ page = [w \in Worker |-> NoPage]

PagesNext ==
    \/ \E w \in Worker : OpenPage(w) \/ PageHandler(w)
    \/ ServerStep

PagesSpec == PagesInit /\ [][PagesNext]_pageVars

----------------------------------------------------------------------------
(* Safety.                                                                 *)

(* A page fails only if some archive was not fully recorded (a first       *)
(* upload was running or had failed, or its rows were not there) when the  *)
(* page first looked: what starts afterwards does not break it, because    *)
(* rows stay and a walk holds the lock. A dry run's rollback takes rows.   *)
FailsOnlyIfBusy ==
    ~DryRun => \A w \in Worker : page[w].at = "failed" => page[w].busy

(* The archives that a page walks are those that are readable, from its    *)
(* first to its last row: WrapWithLock keeps the lock as long as the view, *)
(* and every call that changes the state of an entry takes it exclusively. *)
(* (The unlocked assignment of an Info does not: see RacingInfos.)         *)
WalkIsStable ==
    \A w \in Worker : page[w].at = "walk" => page[w].held = ReadableSet

(* Every Info that a page points to without the lock stays in the table    *)
(* (store.hpp: we make sure to never remove any info items), through       *)
(* evictions and uploads.                                                  *)
HeldEntriesStay ==
    \A w \in Worker : \A s \in page[w].held : infos[s].st # "Absent"

=============================================================================
