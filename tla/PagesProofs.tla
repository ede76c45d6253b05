---------------------------- MODULE PagesProofs ----------------------------
(***************************************************************************)
(* The pages: they leave the server as it is, the entries that they hold   *)
(* on to stay, and a walk sees one set of archives from its first row to   *)
(* its last, and fail only if they found the cache busy, for every number  *)
(* of threads, hashes and pages at once.                                   *)
(***************************************************************************)
EXTENDS Pages, CacheProofs

(* Whatever a page does, the rest of the server stutters.                  *)
LEMMA PagesStep == [PagesNext]_pageVars => [Next]_vars
<1> SUFFICES ASSUME [PagesNext]_pageVars PROVE [Next]_vars
  OBVIOUS
<1>1. CASE UNCHANGED pageVars
  BY <1>1 DEF pageVars
<1>2. ASSUME NEW w \in Worker, OpenPage(w) PROVE UNCHANGED vars
  BY <1>2 DEF OpenPage, IndexCollect, FindOpen, InfoOpen, StartPage, InPage
<1>3. ASSUME NEW w \in Worker, PageHandler(w) PROVE UNCHANGED vars
  BY <1>3 DEF PageHandler, IndexPackage, IndexThrows, IndexEnd, FindEntry, FindThrows,
       FindRelease, FindCount, InfoEnd, PageReply, EndPage, FailPage, InPage
<1>4. CASE ServerStep
  BY <1>4 DEF ServerStep
<1>. QED
  BY <1>1, <1>2, <1>3, <1>4 DEF PagesNext

LEMMA PagesImplementServer == PagesSpec => Spec
<1>1. PagesInit => Init
  BY DEF PagesInit
<1>. QED
  BY <1>1, PagesStep, PTL DEF PagesSpec, Spec

(* So the server with its pages keeps what is proved of the server: the    *)
(* promise of the cache, whole downloads, rows, counters, and the archives *)
(* that a dry run lists.                                                   *)
THEOREM PagesKeepPromises ==
    PagesSpec => /\ ImplementsCache
                 /\ [](OneUpload /\ ValidOnDisk /\ StreamsComplete)
                 /\ [](CountsWithinLog /\ AcknowledgedIsRecorded)
                 /\ DryRunKeepsArchives
  BY PagesImplementServer, ServerImplementsCache, OneUploadAtATime, ReadableIsOnDisk,
     StreamsAreComplete, CountersWithinLog, AcknowledgedAreRecorded, DryRunsKeepArchives, PTL

(* The server with its pages still never has two uploads of one hash, nor  *)
(* one whose hash has a live row.                                          *)
THEOREM PagesKeepUploads == PagesSpec => []UploadInv
  BY PagesImplementServer, UploadInvariant, PTL

----------------------------------------------------------------------------
(* What the pages hold.                                                    *)

PageRecord ==
    [at : PageAt, package : PackageName, left : SUBSET (Sha \cup PackageName),
     held : SUBSET Sha, busy : BOOLEAN]

PageShape == page \in [Worker -> PageRecord]

PagesInv == UploadInv /\ PageShape /\ WalkIsStable /\ HeldEntriesStay

(* A page that starts holds readable entries, all of them if it walks.     *)
Opens(w, p) ==
    /\ p \in PageRecord
    /\ p.held \subseteq ReadableSet
    /\ p.at = "walk" => p.held = ReadableSet
    /\ InPage(w, p)

(* A page that goes on takes hold of nothing, and is still walking only if *)
(* it holds what it held.                                                  *)
GoesOn(w, p) ==
    /\ p \in PageRecord
    /\ p.held \subseteq page[w].held
    /\ p.at = "walk" => page[w].at = "walk" /\ p.held = page[w].held
    /\ InPage(w, p)

LEMMA NoPageShape == NoPage \in PageRecord /\ NoPage.held = {} /\ NoPage.at = "none"
  BY ServerConstants DEF NoPage, PageRecord, PageAt

LEMMA OpenPageOpens ==
    ASSUME NEW w \in Worker, OpenPage(w)
    PROVE  \E p \in PageRecord : Opens(w, p)
<1>0. Busy \in BOOLEAN
  BY DEF Busy
<1>1. ASSUME IndexCollect(w) PROVE \E p \in PageRecord : Opens(w, p)
  <2>1. PICK i \in [ReadableSet -> Info] :
           StartPage(w, [at |-> "packages", package |-> NoName,
                         left |-> {NameOf(i[s]) : s \in ReadableSet},
                         held |-> ReadableSet, busy |-> Busy])
    BY <1>1 DEF IndexCollect
  <2>2. {NameOf(i[s]) : s \in ReadableSet} \subseteq PackageName
    <3>1. \A x \in Info : NameOf(x) \in PackageName
      BY ServerConstants DEF NameOf, Info
    <3>. QED
      BY <2>1, <3>1
  <2> DEFINE p == [at |-> "packages", package |-> NoName,
                   left |-> {NameOf(i[s]) : s \in ReadableSet},
                   held |-> ReadableSet, busy |-> Busy]
  <2>3. p \in PageRecord
    BY <1>0, <2>2, ServerConstants DEF PageRecord, PageAt, ReadableSet
  <2>4. Opens(w, p)
    BY <2>1, <2>3 DEF Opens, StartPage
  <2>. QED
    BY <2>3, <2>4
<1>2. ASSUME NEW q \in Package, FindOpen(w, q) PROVE \E p \in PageRecord : Opens(w, p)
  <2> DEFINE p == [at |-> "walk", package |-> q, left |-> ReadableSet,
                   held |-> ReadableSet, busy |-> Busy]
  <2>1. p \in PageRecord
    BY <1>0, ServerConstants DEF PageRecord, PageAt, ReadableSet
  <2>2. Opens(w, p)
    BY <1>2, <2>1 DEF Opens, FindOpen, StartPage
  <2>. QED
    BY <2>1, <2>2
<1>3. ASSUME NEW s \in Sha, InfoOpen(w, s) PROVE \E p \in PageRecord : Opens(w, p)
  <2> DEFINE p == [at |-> "info", package |-> NoName, left |-> {}, held |-> {s}, busy |-> Busy]
  <2>1. p \in PageRecord
    BY <1>0, ServerConstants DEF PageRecord, PageAt
  <2>2. Opens(w, p)
    BY <1>3, <2>1 DEF Opens, InfoOpen, StartPage, ReadableSet
  <2>. QED
    BY <2>1, <2>2
<1>. QED
  BY <1>1, <1>2, <1>3 DEF OpenPage

LEMMA HandlerGoesOn ==
    ASSUME PageShape, NEW w \in Worker, PageHandler(w)
    PROVE  \E p \in PageRecord : GoesOn(w, p)
<1>1. page[w] \in PageRecord
  BY DEF PageShape
<1>2. ASSUME EndPage(w) PROVE \E p \in PageRecord : GoesOn(w, p)
  BY <1>2, NoPageShape DEF EndPage, GoesOn
<1>3. ASSUME FailPage(w) PROVE \E p \in PageRecord : GoesOn(w, p)
  <2> DEFINE p == [page[w] EXCEPT !.at = "failed", !.left = {}, !.held = {}]
  <2>1. p \in PageRecord /\ p.held = {} /\ p.at = "failed"
    BY <1>1 DEF PageRecord, PageAt
  <2>. QED
    BY <1>3, <2>1 DEF FailPage, GoesOn
<1>4. ASSUME NEW n, InPage(w, [page[w] EXCEPT !.left = @ \ {n}])
      PROVE  \E p \in PageRecord : GoesOn(w, p)
  <2> DEFINE p == [page[w] EXCEPT !.left = @ \ {n}]
  <2>1. p \in PageRecord /\ p.held = page[w].held /\ p.at = page[w].at
    BY <1>1 DEF PageRecord
  <2>. QED
    BY <1>4, <2>1 DEF GoesOn
<1>5. ASSUME FindRelease(w) PROVE \E p \in PageRecord : GoesOn(w, p)
  <2> DEFINE p == [page[w] EXCEPT !.at = "count", !.held = {}]
  <2>1. p \in PageRecord /\ p.held = {} /\ p.at = "count"
    BY <1>1 DEF PageRecord, PageAt
  <2>. QED
    BY <1>5, <2>1 DEF FindRelease, GoesOn
<1>. QED
  BY <1>2, <1>3, <1>4, <1>5 DEF PageHandler, IndexPackage, IndexThrows, IndexEnd,
     FindEntry, FindThrows, FindCount, InfoEnd, PageReply

(* No step changes the state of an entry but those that hold smtx alone.   *)
LEMMA StatesNeedTheLock ==
    ASSUME TypeOK, Next, ~Exclusive, NEW s \in Sha
    PROVE  infos'[s].st = infos[s].st
<1> USE DEF TypeOK, StoreTypeOK
<1>1. CASE UNCHANGED infos
  BY <1>1
<1>2. ASSUME NEW w \in Worker, Request(w) PROVE UNCHANGED infos
  BY <1>2 DEF Request, PutRefused, GetOpen, GetNotFound, Read, storeVars, Exclusive
<1>3. ASSUME NEW w \in Worker, PutAssign(w) PROVE infos'[s].st = infos[s].st
  BY <1>3 DEF PutAssign, AssignInfo
<1>4. ASSUME NEW w \in Worker, Get(w) \/ Throw(w) \/ Reply(w) PROVE UNCHANGED infos
  BY <1>4 DEF Get, GetLookup, GetLog, GetReadCache, GetWriteCache, GetReadPackage,
     GetWritePackage, GetSize, Throw, Reply, storeVars
<1>5. ASSUME NEW w \in Worker, Put(w), ~PutAssign(w) PROVE UNCHANGED infos
  BY <1>5 DEF Put, PutReceive, PutExtract, PutExtractThrows, PutInfo, PutInfoMisses,
     PutUnrecorded, PutFindPackage, PutMissPackage, PutAddPackage, PutPackageId,
     PutAddCache, storeVars, Exclusive
<1>6. ASSUME MaintainBegin \/ MaintainStep \/ Environment PROVE UNCHANGED infos
  BY <1>6 DEF MaintainBegin, MaintainStep, MaintainMark, MaintainDryRun, MaintainCommit,
     MaintainEnd, Environment, ExternalAdd, storeVars, Exclusive
<1>. QED
  BY <1>1, <1>2, <1>3, <1>4, <1>5, <1>6 DEF Next, Handler

(* No step takes an entry out of the table: store.hpp's claim that the     *)
(* pointers of the pages rest on.                                          *)
LEMMA EntriesStay ==
    ASSUME UploadInv, [Next]_vars, NEW s \in Sha, infos[s].st # "Absent"
    PROVE  infos'[s].st # "Absent"
<1>1. Calm(s) \/ Stirs(s)
  BY EachHash DEF UploadInv
<1>. QED
  BY <1>1 DEF Stirs, Calm, Begins, Noticed, Advances, Ends, Evicted, Arrives, Turns

LEMMA PagesInitially == PagesInit => PagesInv
<1> SUFFICES ASSUME PagesInit PROVE PagesInv
  OBVIOUS
<1>1. UploadInv
  BY InitInOrder DEF PagesInit
<1>2. page = [w \in Worker |-> NoPage]
  BY DEF PagesInit
<1>. QED
  BY <1>1, <1>2, NoPageShape DEF PagesInv, PageShape, WalkIsStable, HeldEntriesStay

LEMMA PagesStepKeeps == PagesInv /\ UploadInv' /\ [PagesNext]_pageVars => PagesInv'
<1> SUFFICES ASSUME PagesInv, UploadInv', [PagesNext]_pageVars PROVE PagesInv'
  OBVIOUS
<1> USE DEF PagesInv
<1>1. CASE UNCHANGED pageVars
  <2>1. UNCHANGED <<page, infos>>
    BY <1>1 DEF pageVars, vars, storeVars
  <2>. QED
    BY <2>1 DEF PageShape, WalkIsStable, HeldEntriesStay, ReadableSet, Readable
<1>2. ASSUME NEW w \in Worker, NEW p \in PageRecord, Opens(w, p) PROVE PagesInv'
  <2>1. UNCHANGED infos /\ page' = [page EXCEPT ![w] = p]
    BY <1>2 DEF Opens, InPage, vars, storeVars
  <2>2. PageShape'
    BY <2>1 DEF PageShape
  <2>3. \A s \in ReadableSet : infos[s].st # "Absent"
    BY DEF ReadableSet, Readable
  <2>4. ReadableSet' = ReadableSet
    BY <2>1 DEF ReadableSet, Readable
  <2>5. WalkIsStable'
    BY <1>2, <2>1, <2>4 DEF WalkIsStable, PageShape, Opens
  <2>6. HeldEntriesStay'
    BY <1>2, <2>1, <2>3 DEF HeldEntriesStay, PageShape, Opens
  <2>. QED
    BY <2>2, <2>5, <2>6
<1>3. ASSUME NEW w \in Worker, NEW p \in PageRecord, GoesOn(w, p) PROVE PagesInv'
  <2>1. UNCHANGED infos /\ page' = [page EXCEPT ![w] = p]
    BY <1>3 DEF GoesOn, InPage, vars, storeVars
  <2>2. PageShape'
    BY <2>1 DEF PageShape
  <2>3. ReadableSet' = ReadableSet
    BY <2>1 DEF ReadableSet, Readable
  <2>4. WalkIsStable'
    BY <1>3, <2>1, <2>3 DEF WalkIsStable, PageShape, GoesOn
  <2>5. HeldEntriesStay'
    BY <1>3, <2>1 DEF HeldEntriesStay, PageShape, GoesOn
  <2>. QED
    BY <2>2, <2>4, <2>5
<1>4. CASE ServerStep
  <2>1. UNCHANGED page /\ [Next]_vars
    BY <1>4 DEF ServerStep
  <2>2. PageShape'
    BY <2>1 DEF PageShape
  <2>3. ASSUME NEW w \in Worker, page[w].at = "walk" PROVE page[w].held = ReadableSet'
    <3>1. Next /\ ~Exclusive
      BY <1>4, <2>3 DEF ServerStep, SharedHolders
    <3>2. ReadableSet' = ReadableSet
      BY <3>1, StatesNeedTheLock DEF ReadableSet, Readable, UploadInv
    <3>. QED
      BY <2>3, <3>2 DEF WalkIsStable
  <2>4. WalkIsStable'
    BY <2>1, <2>3 DEF WalkIsStable
  <2>5. ASSUME NEW w \in Worker, NEW s \in page[w].held PROVE infos'[s].st # "Absent"
    <3>1. s \in Sha
      BY DEF PageShape, PageRecord
    <3>2. infos[s].st # "Absent"
      BY DEF HeldEntriesStay
    <3>. QED
      BY <2>1, <3>1, <3>2, EntriesStay
  <2>6. HeldEntriesStay'
    BY <2>1, <2>5 DEF HeldEntriesStay
  <2>. QED
    BY <2>2, <2>4, <2>6
<1>. QED
  BY <1>1, <1>2, <1>3, <1>4, OpenPageOpens, HandlerGoesOn DEF PagesNext

LEMMA PagesInvariant == PagesSpec => []PagesInv
  BY PagesInitially, PagesStepKeeps, PagesKeepUploads, PTL DEF PagesSpec

(* Every Info that a page points to stays in the table, through evictions, *)
(* uploads and failures, for as long as the page points to it.             *)
THEOREM HeldEntriesAlwaysStay == PagesSpec => []HeldEntriesStay
<1>1. PagesInv => HeldEntriesStay
  BY DEF PagesInv
<1>. QED
  BY <1>1, PagesInvariant, PTL

(* What find walks are the readable archives, from its first row to its    *)
(* last: its view keeps smtx for that long.                                *)
THEOREM WalksAreStable == PagesSpec => []WalkIsStable
<1>1. PagesInv => WalkIsStable
  BY DEF PagesInv
<1>. QED
  BY <1>1, PagesInvariant, PTL

----------------------------------------------------------------------------
(* What the pages look up.                                                 *)

(* updateLastUse writes a package's row back under the name it read.       *)
PackageNamed(w) ==
    pc[w] = "writePackage" =>
        /\ row[w].package \in DOMAIN packages
        /\ prow[w].name = packages[row[w].package].name

PackagesNamed == ~DryRun => \A w \in Worker : PackageNamed(w)

PackagesStay ==
    \A k \in DOMAIN packages : k \in DOMAIN packages' /\ packages'[k].name = packages[k].name

LEMMA PackagesStayThere ==
    ASSUME TypeOK, PackagesNamed, ~DryRun, [Next]_vars
    PROVE  PackagesStay
<1> USE DEF TypeOK, DatabaseTypeOK, WorkerTypeOK
<1>1. CASE UNCHANGED packages
  BY <1>1 DEF PackagesStay
<1>2. ASSUME NEW w \in Worker, GetWritePackage(w) PROVE PackagesStay
  <2>1. /\ row[w].package \in DOMAIN packages
        /\ packages' = [packages EXCEPT ![row[w].package] = Bumped(prow[w])]
        /\ Bumped(prow[w]).name = packages[row[w].package].name
    BY <1>2 DEF GetWritePackage, UpdatePackage, PackageExists, PackagesNamed, PackageNamed,
       Bumped, PackageRow
  <2>. QED
    BY <2>1 DEF PackagesStay
<1>3. ASSUME NEW w \in Worker, PutAddPackage(w) PROVE PackagesStay
  BY <1>3, AppendProperties, LenProperties DEF PutAddPackage, InsertPackage, PackagesStay
<1>4. ASSUME NEW w \in Worker,
             \/ Request(w) \/ Throw(w) \/ Reply(w)
             \/ Get(w) /\ ~GetWritePackage(w)
             \/ Put(w) /\ ~PutAddPackage(w)
      PROVE  UNCHANGED packages
  BY <1>4 DEF Request, PutRefused, GetOpen, GetNotFound, PutOpen, PutConflict, PutThrows,
     Get, GetLookup, GetLog, GetReadCache, GetWriteCache, GetReadPackage, GetSize, Put,
     PutReceive, PutExtract, PutExtractThrows, PutAssign, PutPublish, PutInfo, PutInfoMisses,
     PutInfoDisk, PutUnrecorded, PutFindPackage, PutMissPackage, PutPackageId, PutAddCache,
     Throw, Reply, InsertDownload, UpdateCache, InsertCache, dbVars
<1>5. ASSUME MaintainBegin \/ MaintainStep \/ Environment \/ UNCHANGED vars
      PROVE  UNCHANGED packages
  BY <1>5 DEF MaintainBegin, Begin, MaintainStep, MaintainMark, MarkRowDeleted,
     MaintainDryRun, MaintainCommit, Commit, MaintainRemove, MaintainDies, MaintainEnd,
     Environment, vars, dbVars
<1>. QED
  BY <1>1, <1>2, <1>3, <1>4, <1>5 DEF Next, Handler

LEMMA PackagesNamedKept ==
    ASSUME TypeOK, PackagesNamed, [Next]_vars
    PROVE  PackagesNamed'
<1> USE DEF TypeOK, WorkerTypeOK
<1> SUFFICES ASSUME ~DryRun, NEW v \in Worker, pc'[v] = "writePackage"
             PROVE  PackageNamed(v)'
  BY DEF PackagesNamed, PackageNamed
<1>1. PackagesStay
  BY PackagesStayThere
<1>2. ASSUME pc'[v] = pc[v], row'[v] = row[v], prow'[v] = prow[v] PROVE PackageNamed(v)'
  <2> DEFINE k == row[v].package
  <2>1. k \in DOMAIN packages /\ prow[v].name = packages[k].name
    BY <1>2 DEF PackagesNamed, PackageNamed
  <2>2. k \in DOMAIN packages' /\ packages'[k].name = packages[k].name
    BY <1>1, <2>1 DEF PackagesStay
  <2>. QED
    BY <1>2, <2>1, <2>2 DEF PackageNamed
<1>3. ASSUME NEW w \in Worker, Request(w) \/ Handler(w) PROVE PackageNamed(v)'
  <2>1. CASE v # w
    BY <1>2, <1>3, <2>1, OthersUntouched
  <2>2. CASE v = w
    <3>1. CASE PutFindPackage(w) \/ PutMissPackage(w)
      <4>1. \E to \in {"addCache", "addPackage"} : pc' = [pc EXCEPT ![w] = to]
        BY <3>1 DEF PutFindPackage, PutMissPackage, Goto
      <4>. QED
        BY <2>2, <4>1
    <3>2. CASE ~(PutFindPackage(w) \/ PutMissPackage(w))
      <4>1. GetReadPackage(w)
        BY <1>3, <2>2, <3>2 DEF Request, PutRefused, GetOpen, GetNotFound, PutOpen,
           PutConflict, PutThrows, Accept, AnswerAtOnce, Handler, Get, GetLookup, GetLog,
           GetReadCache, GetWriteCache, GetWritePackage, GetSize, Put, PutReceive, PutExtract,
           PutExtractThrows, PutAssign, PutPublish, PutInfo, PutInfoMisses, PutInfoDisk,
           PutUnrecorded, PutAddPackage, PutPackageId, PutAddCache, Throw, Reply, Answer, Goto
      <4>. QED
        BY <2>2, <4>1 DEF GetReadPackage, PackageExists, PackageNamed, dbVars
    <3>. QED
      BY <3>1, <3>2
  <2>. QED
    BY <2>1, <2>2
<1>4. ASSUME MaintainBegin \/ MaintainStep \/ Environment \/ UNCHANGED vars
      PROVE  UNCHANGED workerVars
  BY <1>4 DEF MaintainBegin, MaintainStep, MaintainMark, MaintainDryRun, MaintainCommit,
     MaintainRemove, MaintainDies, MaintainEnd, Environment, vars
<1>. QED
  BY <1>2, <1>3, <1>4 DEF Next, workerVars, requestVars

(* What an archive needs for a page to show it.                            *)
Shown(s) == infos[s].info # NoInfo /\ Recorded(s)

(* A page that found the cache in order has not failed, and will find what *)
(* it still has to look up.                                                *)
PageInOrder(w) ==
    /\ page[w].at # "none" => pc[w] = "idle"
    /\ page[w].at = "walk" => page[w].left \subseteq page[w].held
    /\ ~DryRun /\ ~page[w].busy =>
        /\ page[w].at # "failed"
        /\ page[w].at = "packages" => \A n \in page[w].left : PackageIds(n) # {}
        /\ page[w].at = "walk" => \A s \in page[w].left : Shown(s)

LookupInv ==
    PagesInv /\ RecordInv /\ PackagesNamed /\ \A w \in Worker : PageInOrder(w)

(* A readable archive with its Info has no other Info that a racing read   *)
(* could see.                                                              *)
LEMMA ShownHasOneInfo ==
    ASSUME NEW s \in Sha, HashInv(s), Readable(s), infos[s].info # NoInfo,
           NEW i \in RacingInfos(s)
    PROVE  i = infos[s].info
<1>1. \A v \in Worker : ~(pc[v] = "assign" /\ target[v] = s)
  BY DEF HashInv, WriterInOrder, Uploads, WriterPC
<1>. QED
  BY <1>1 DEF RacingInfos

(* A page that opens finds everything, or the cache busy.                  *)
LEMMA OpenInOrder ==
    ASSUME UploadInv, PageShape, NEW w \in Worker, OpenPage(w)
    PROVE  PageInOrder(w)'
<1> USE DEF PageShape
<1>1. ASSUME NEW p, StartPage(w, p)
      PROVE  page'[w] = p /\ pc'[w] = "idle" /\ UNCHANGED <<infos, caches, packages>>
  BY <1>1 DEF StartPage, InPage, vars, storeVars, dbVars, workerVars
<1>2. ASSUME IndexCollect(w) PROVE PageInOrder(w)'
  <2>1. PICK i \in [ReadableSet -> Info] :
           /\ \A s \in ReadableSet : i[s] \in RacingInfos(s)
           /\ StartPage(w, [at |-> "packages", package |-> NoName,
                            left |-> {NameOf(i[s]) : s \in ReadableSet},
                            held |-> ReadableSet, busy |-> Busy])
    BY <1>2 DEF IndexCollect
  <2>2. /\ page'[w] = [at |-> "packages", package |-> NoName,
                       left |-> {NameOf(i[s]) : s \in ReadableSet},
                       held |-> ReadableSet, busy |-> Busy]
        /\ pc'[w] = "idle" /\ UNCHANGED <<infos, caches, packages>>
    BY <1>1, <2>1
  <2>3. ASSUME ~Busy, NEW s \in ReadableSet PROVE PackageIds(NameOf(i[s])) # {}
    <3>1. s \in Sha /\ Readable(s) /\ infos[s].info # NoInfo
          /\ PackageIds(NameOf(infos[s].info)) # {}
      BY <2>3 DEF Busy, Unrecorded, ReadableSet
    <3>. QED
      BY <2>1, <3>1, ShownHasOneInfo DEF UploadInv
  <2>. QED
    BY <2>2, <2>3 DEF PageInOrder, PackageIds
<1>3. ASSUME NEW q \in Package, FindOpen(w, q) PROVE PageInOrder(w)'
  <2>1. /\ page'[w] = [at |-> "walk", package |-> q, left |-> ReadableSet,
                       held |-> ReadableSet, busy |-> Busy]
        /\ pc'[w] = "idle" /\ UNCHANGED <<infos, caches, packages>>
    BY <1>1, <1>3 DEF FindOpen
  <2>2. ASSUME ~Busy, NEW s \in ReadableSet PROVE Shown(s)
    BY <2>2 DEF Busy, Unrecorded, Shown, Recorded
  <2>. QED
    BY <2>1, <2>2 DEF PageInOrder, Shown, Recorded, CacheIds
<1>4. ASSUME NEW s \in Sha, InfoOpen(w, s) PROVE PageInOrder(w)'
  <2>1. page'[w].at = "info" /\ pc'[w] = "idle"
    BY <1>1, <1>4 DEF InfoOpen
  <2>. QED
    BY <2>1 DEF PageInOrder
<1>. QED
  BY <1>2, <1>3, <1>4 DEF OpenPage

LEMMA HandlerInOrder ==
    ASSUME LookupInv, NEW w \in Worker, PageHandler(w)
    PROVE  PageInOrder(w)'
<1> USE DEF LookupInv, PagesInv, PageShape
<1>0. page[w] \in PageRecord /\ PageInOrder(w)
  OBVIOUS
<1>1. ASSUME NEW p, InPage(w, p)
      PROVE  page'[w] = p /\ UNCHANGED <<pc, infos, caches, packages>>
  BY <1>1 DEF InPage, vars, storeVars, dbVars, workerVars
<1>2. ASSUME EndPage(w) PROVE PageInOrder(w)'
  BY <1>1, <1>2, NoPageShape DEF EndPage, PageInOrder
<1>3. ASSUME NEW n, InPage(w, [page[w] EXCEPT !.left = @ \ {n}]), page[w].at # "failed"
      PROVE  PageInOrder(w)'
  <2> DEFINE p == [page[w] EXCEPT !.left = @ \ {n}]
  <2>1. /\ p.at = page[w].at /\ p.held = page[w].held /\ p.busy = page[w].busy
        /\ p.left \subseteq page[w].left
    BY <1>0 DEF PageRecord
  <2>2. page'[w] = p /\ UNCHANGED <<pc, infos, caches, packages>>
    BY <1>1, <1>3
  <2> HIDE DEF p
  <2>. QED
    BY <1>0, <2>1, <2>2 DEF PageInOrder, Shown, Recorded, CacheIds, PackageIds
<1>4. ASSUME FailPage(w), DryRun \/ page[w].busy, page[w].at # "none" PROVE PageInOrder(w)'
  <2> DEFINE p == [page[w] EXCEPT !.at = "failed", !.left = {}, !.held = {}]
  <2>1. p.at = "failed" /\ p.busy = page[w].busy
    BY <1>0 DEF PageRecord
  <2>2. page'[w] = p /\ UNCHANGED pc
    BY <1>1, <1>4 DEF FailPage
  <2> HIDE DEF p
  <2>. QED
    BY <1>0, <1>4, <2>1, <2>2 DEF PageInOrder
<1>5. ASSUME IndexThrows(w) PROVE PageInOrder(w)'
  BY <1>0, <1>4, <1>5 DEF IndexThrows, PageInOrder, PackageStats
<1>6. ASSUME FindThrows(w) PROVE PageInOrder(w)'
  <2>1. PICK s \in page[w].left : \E j \in RacingInfos(s) : CacheStats(ShaOf(s, j)) = {}
    BY <1>6 DEF FindThrows
  <2>2. page[w].at = "walk" /\ FailPage(w)
    BY <1>6 DEF FindThrows
  <2>3. s \in Sha /\ Readable(s)
    BY <1>0, <2>1, <2>2 DEF PageInOrder, WalkIsStable, ReadableSet
  <2>4. ~Shown(s)
    BY <2>1, <2>3, ShownHasOneInfo DEF UploadInv, Shown, Recorded, ShaOf, CacheStats
  <2>. QED
    BY <1>0, <1>4, <2>1, <2>2, <2>4 DEF PageInOrder
<1>7. ASSUME FindRelease(w) PROVE PageInOrder(w)'
  <2> DEFINE p == [page[w] EXCEPT !.at = "count", !.held = {}]
  <2>1. p.at = "count"
    BY <1>0 DEF PageRecord
  <2>2. page'[w] = p /\ UNCHANGED pc /\ page[w].at = "walk"
    BY <1>1, <1>7 DEF FindRelease
  <2> HIDE DEF p
  <2>. QED
    BY <1>0, <2>1, <2>2 DEF PageInOrder
<1>. QED
  BY <1>2, <1>3, <1>5, <1>6, <1>7 DEF PageHandler, IndexPackage, IndexEnd, FindEntry,
     FindCount, InfoEnd, PageReply

(* The server goes on while pages are built: rows and names stay, and so   *)
(* do the Infos that a walk is still to show.                              *)
LEMMA ServerKeepsPages ==
    ASSUME LookupInv, ServerStep, NEW v \in Worker
    PROVE  PageInOrder(v)'
<1> USE DEF LookupInv, PagesInv, PageShape
<1>0. /\ [Next]_vars /\ UNCHANGED page /\ PageInOrder(v) /\ TypeOK
      /\ page[v] # NoPage => pc'[v] = "idle"
  BY DEF ServerStep, UploadInv
<1>1. page[v].at # "none" => pc'[v] = "idle"
  BY <1>0, NoPageShape
<1>2. ASSUME ~DryRun, NEW n, PackageIds(n) # {} PROVE PackageIds(n)' # {}
  BY <1>0, <1>2, PackagesStayThere DEF PackagesStay, PackageIds
<1>3. ASSUME ~DryRun, NEW s \in page[v].left, page[v].at = "walk", Shown(s)
      PROVE  Shown(s)'
  <2>1. s \in Sha /\ Readable(s)
    BY <1>0, <1>3 DEF PageInOrder, WalkIsStable, ReadableSet
  <2>2. infos'[s].info # NoInfo
    BY <1>0, <1>3, <2>1, EachHash, InfoStays DEF UploadInv, Shown, Readable
  <2>3. Recorded(s)'
    BY <1>0, <1>3, RowsStayThere, RecordedStays DEF RecordInv, Shown
  <2>. QED
    BY <2>2, <2>3 DEF Shown
<1>. QED
  BY <1>0, <1>1, <1>2, <1>3 DEF PageInOrder

LEMMA LookupKept ==
    ASSUME LookupInv, PagesInv', RecordInv', [PagesNext]_pageVars
    PROVE  LookupInv'
<1> USE DEF LookupInv, PagesInv, PageShape
<1>1. PackagesNamed'
  BY PagesStep, PackagesNamedKept DEF UploadInv
<1>2. ASSUME NEW v \in Worker, page'[v] = page[v], UNCHANGED vars PROVE PageInOrder(v)'
  <2>1. UNCHANGED <<pc, infos, caches, packages>>
    BY <1>2 DEF vars, storeVars, dbVars, workerVars
  <2>. QED
    BY <1>2, <2>1 DEF PageInOrder, Shown, Recorded, CacheIds, PackageIds
<1>3. ASSUME NEW w \in Worker, OpenPage(w) \/ PageHandler(w), NEW v \in Worker
      PROVE  PageInOrder(v)'
  <2>1. CASE v = w
    BY <1>3, <2>1, OpenInOrder, HandlerInOrder
  <2>2. CASE v # w
    <3>1. \E p : InPage(w, p)
      BY <1>3, OpenPageOpens, HandlerGoesOn DEF Opens, GoesOn
    <3>. QED
      BY <1>2, <2>2, <3>1 DEF InPage
  <2>. QED
    BY <2>1, <2>2
<1>4. CASE UNCHANGED pageVars
  BY <1>1, <1>2, <1>4 DEF pageVars
<1>. QED
  BY <1>1, <1>3, <1>4, ServerKeepsPages DEF PagesNext

LEMMA LookupInvariant == PagesSpec => []LookupInv
<1>1. PagesInit => PackagesNamed /\ \A w \in Worker : PageInOrder(w)
  BY NoPageShape DEF PagesInit, Init, PackagesNamed, PackageNamed, PageInOrder, NoPage
<1>2. PagesSpec => []RecordInv
  BY PagesImplementServer, RecordInvariant, PTL
<1>3. LookupInv /\ PagesInv' /\ RecordInv' /\ [PagesNext]_pageVars => LookupInv'
  BY LookupKept
<1>4. PagesInv /\ RecordInv /\ PackagesNamed /\ (\A w \in Worker : PageInOrder(w)) => LookupInv
  BY DEF LookupInv
<1>. QED
  BY <1>1, <1>2, <1>3, <1>4, PagesInvariant, PTL DEF PagesSpec

(* A page fails only if an archive had no Info or no row when the page     *)
(* first looked: what uploads, evictions and passes do later never breaks  *)
(* it, unless a dry run takes rows back.                                   *)
THEOREM PagesFailOnlyIfBusy == PagesSpec => []FailsOnlyIfBusy
<1>1. LookupInv => FailsOnlyIfBusy
  BY DEF LookupInv, PageInOrder, FailsOnlyIfBusy
<1>. QED
  BY <1>1, LookupInvariant, PTL

=============================================================================
