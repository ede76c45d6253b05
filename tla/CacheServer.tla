---------------------------- MODULE CacheServer ----------------------------
(***************************************************************************)
(* The running server (main.cpp, maintenance.cpp): request threads that    *)
(* serve GET and PUT /cache/<sha>, and the maintenance thread, over one    *)
(* Store and one Database. Every action is one call into the store or one  *)
(* database statement, because nothing else separates the threads: the     *)
(* store locks inside each call and the database not at all.               *)
(***************************************************************************)
EXTENDS Store, Database, FiniteSets

CONSTANTS
    Package,      \* package names that an archive's CONTROL file may give
    PackageOf,    \* [Archive -> Package]
    NoName,       \* the empty string, the package of a default Info
    Bodies,       \* what clients upload: a subset of Content
    External,     \* what other processes put into the directory: likewise
    DryRun,       \* settings.maintenance.dryrun
    MaxDownloads, \* bound: no GET starts once the log or a counter is there
    MaxInitialRows \* bound: rows in each table when the server has started

Worker == Client

ASSUME ServerConstants ==
    /\ NoName \notin Package
    /\ PackageOf \in [Archive -> Package]
    /\ Bodies \subseteq Content
    /\ External \subseteq Content
    /\ DryRun \in BOOLEAN
    /\ MaxDownloads \in Nat
    /\ MaxInitialRows \in Nat
    /\ RowSha = Sha \cup {NoSha}
    /\ PackageName = Package \cup {NoName}

VARIABLES
    pc,         \* [Worker -> where its handler is]
    target,     \* [Worker -> the hash its request names]
    seen,       \* [Worker -> the Info it extracted or whose size it announced]
    cid,        \* [Worker -> the cache id it dereferenced]
    row,        \* [Worker -> the caches row it read or is about to insert]
    prow,       \* [Worker -> the packages row it read or is about to insert]
    status,     \* [Worker -> the HTTP status of its response, 0 before one]
    mpc,        \* where the maintenance thread is
    toDelete    \* the hashes that this maintenance pass marked

requestVars == <<target, seen, cid, row, prow, status>>
maintenanceVars == <<mpc, toDelete>>
workerVars == <<pc, requestVars>>
vars == <<storeVars, dbVars, workerVars, maintenanceVars>>

NoCacheRow == [sha |-> NoSha, package |-> 0, downloads |-> 0, deleted |-> FALSE]
NoPackageRow == [name |-> NoName, downloads |-> 0]

NameOf(i) == IF i = NoInfo THEN NoName ELSE PackageOf[i]

GetPC == {"lookup", "log", "readCache", "writeCache", "readPackage",
          "writePackage", "size", "stream"}
WriterPC == {"receive", "extract", "assign", "publish"}
RecordPC == {"info", "infoDisk", "package", "addPackage", "packageId", "addCache"}
Serving == GetPC \cup WriterPC \cup RecordPC
PC == {"idle", "done"} \cup Serving

WorkerTypeOK ==
    /\ pc \in [Worker -> PC]
    /\ target \in [Worker -> Sha \cup {NoSha}]
    /\ seen \in [Worker -> Info]
    /\ cid \in [Worker -> Nat]
    /\ row \in [Worker -> CacheRow]
    /\ prow \in [Worker -> PackageRow]
    /\ status \in [Worker -> {0, 200, 401, 403, 404, 409, 500}]

ServingOK == \A w \in Worker : pc[w] \in Serving => target[w] \in Sha

MaintenanceTypeOK ==
    /\ mpc \in {"idle", "mark", "remove", "dead"}
    /\ toDelete \in Seq(RowSha)
    /\ mpc = "mark" => saved # NoTransaction

TypeOK ==
    StoreTypeOK /\ DatabaseTypeOK /\ WorkerTypeOK /\ ServingOK /\ MaintenanceTypeOK

----------------------------------------------------------------------------
(* After startup, from a directory and a database that the previous        *)
(* lifetime left in order: an entry for every archive in the directory, a  *)
(* row for every entry, no undeleted row without an archive. A row may be  *)
(* deleted although its archive is there (a crash before store.remove).    *)

InitialPackages ==
    UNION {[1..n -> [name : Package, downloads : {0}]] : n \in 0..MaxInitialRows}

InitialCaches ==
    UNION {[1..n -> [sha : Sha, package : 1..MaxInitialRows,
                     downloads : {0}, deleted : BOOLEAN]] : n \in 0..MaxInitialRows}

InOrder ==
    /\ \A k, l \in DOMAIN packages : packages[k].name = packages[l].name => k = l
    /\ \A k, l \in DOMAIN caches : caches[k].sha = caches[l].sha => k = l
    /\ \A k \in DOMAIN caches :
        /\ PackageExists(caches[k].package)
        /\ IF disk[caches[k].sha] = NoFile
           THEN caches[k].deleted
           ELSE packages[caches[k].package].name = PackageOf[disk[caches[k].sha]]
    /\ \A s \in Sha : disk[s] # NoFile => CacheIds(s) # {}

Init ==
    /\ disk \in [Sha -> Archive \cup {NoFile}]
    /\ infos = ScannedInfos(disk)
    /\ handle = [c \in Client |-> Closed]
    /\ packages \in InitialPackages
    /\ caches \in InitialCaches
    /\ InOrder
    /\ downloads = <<>>
    /\ lastId = 0
    /\ saved = NoTransaction
    /\ pc = [w \in Worker |-> "idle"]
    /\ target = [w \in Worker |-> NoSha]
    /\ seen = [w \in Worker |-> NoInfo]
    /\ cid = [w \in Worker |-> 0]
    /\ row = [w \in Worker |-> NoCacheRow]
    /\ prow = [w \in Worker |-> NoPackageRow]
    /\ status = [w \in Worker |-> 0]
    /\ mpc = "idle"
    /\ toDelete = <<>>

----------------------------------------------------------------------------
(* Steps of a handler.                                                     *)

Goto(w, to) == pc' = [pc EXCEPT ![w] = to]

(* The handler is left with a response of the given status.                *)
Answer(w, code) ==
    /\ Goto(w, "done")
    /\ status' = [status EXCEPT ![w] = code]
    /\ UNCHANGED <<target, seen, cid, row, prow>>

Accept(w, s, to) ==
    /\ pc[w] = "idle"
    /\ Goto(w, to)
    /\ target' = [target EXCEPT ![w] = s]
    /\ UNCHANGED <<seen, cid, row, prow, status>>

(* A request answered by the handler's first call.                         *)
AnswerAtOnce(w, s, code) ==
    /\ pc[w] = "idle"
    /\ Goto(w, "done")
    /\ target' = [target EXCEPT ![w] = s]
    /\ status' = [status EXCEPT ![w] = code]
    /\ UNCHANGED <<seen, cid, row, prow>>

(* ~StoreWriter assigns the entry's Info without smtx, member by member. A *)
(* read of a member meanwhile is a data race, which finds the old value or *)
(* the new one.                                                            *)
RacingInfos(s) ==
    {infos[s].info} \cup
    {seen[v] : v \in {u \in Worker : pc[u] = "assign" /\ target[u] = s}}

(* The response has left: readers and the handler's locals are destroyed.  *)
Reply(w) ==
    /\ pc[w] \in {"stream", "done"}
    /\ pc' = [pc EXCEPT ![w] = "idle"]
    /\ target' = [target EXCEPT ![w] = NoSha]
    /\ seen' = [seen EXCEPT ![w] = NoInfo]
    /\ cid' = [cid EXCEPT ![w] = 0]
    /\ row' = [row EXCEPT ![w] = NoCacheRow]
    /\ prow' = [prow EXCEPT ![w] = NoPackageRow]
    /\ status' = [status EXCEPT ![w] = 0]
    /\ Close(w)
    /\ UNCHANGED <<infos, disk, dbVars, maintenanceVars>>

----------------------------------------------------------------------------
(* GET /cache/<sha>.                                                       *)

WithinBound ==
    /\ Len(downloads) < MaxDownloads
    /\ \A k \in DOMAIN caches : caches[k].downloads < MaxDownloads
    /\ \A k \in DOMAIN packages : packages[k].downloads < MaxDownloads
    /\ \A v \in Worker : row[v].downloads < MaxDownloads /\ prow[v].downloads < MaxDownloads

GetOpen(w, s) ==
    /\ WithinBound
    /\ Accept(w, s, "lookup")
    /\ \E i \in RacingInfos(s) : Read(w, s, i)
    /\ UNCHANGED <<dbVars, maintenanceVars>>

GetNotFound(w, s) ==
    /\ ~Readable(s)
    /\ AnswerAtOnce(w, s, 404)
    /\ UNCHANGED <<storeVars, dbVars, maintenanceVars>>

GetLookup(w) ==
    /\ pc[w] = "lookup"
    /\ Goto(w, "log")
    /\ \E i \in RacingInfos(target[w]) :
       \E k \in DerefCacheId(ShaOf(target[w], i)) :
          cid' = [cid EXCEPT ![w] = k]
    /\ UNCHANGED <<target, seen, row, prow, status, storeVars, dbVars, maintenanceVars>>

GetLog(w) ==
    /\ pc[w] = "log"
    /\ CanInsertDownload(cid[w])
    /\ Goto(w, "readCache")
    /\ InsertDownload(cid[w])
    /\ UNCHANGED <<requestVars, storeVars, maintenanceVars>>

GetReadCache(w) ==
    /\ pc[w] = "readCache"
    /\ CacheExists(cid[w])
    /\ Goto(w, "writeCache")
    /\ row' = [row EXCEPT ![w] = caches[cid[w]]]
    /\ UNCHANGED <<target, seen, cid, prow, status, storeVars, dbVars, maintenanceVars>>

(* mutant: the download is counted twice *)
BumpedTwice(r) == [r EXCEPT !.downloads = @ + 2]

(* updateLastUse writes back the row it read, one download up.             *)
Bumped(r) == [r EXCEPT !.downloads = @ + 1]

GetWriteCache(w) ==
    /\ pc[w] = "writeCache"
    /\ CanUpdateCache(cid[w], Bumped(row[w]))
    /\ Goto(w, "readPackage")
    /\ UpdateCache(cid[w], Bumped(row[w]))
    /\ UNCHANGED <<requestVars, storeVars, maintenanceVars>>

GetReadPackage(w) ==
    /\ pc[w] = "readPackage"
    /\ PackageExists(row[w].package)
    /\ Goto(w, "writePackage")
    /\ prow' = [prow EXCEPT ![w] = packages[row[w].package]]
    /\ UNCHANGED <<target, seen, cid, row, status, storeVars, dbVars, maintenanceVars>>

GetWritePackage(w) ==
    /\ pc[w] = "writePackage"
    /\ CanUpdatePackage(row[w].package, Bumped(prow[w]))
    /\ Goto(w, "size")
    /\ UpdatePackage(row[w].package, Bumped(prow[w]))
    /\ UNCHANGED <<requestVars, storeVars, maintenanceVars>>

(* The response announces info.size and the content provider then reads    *)
(* that many bytes of the stream opened at the start.                      *)
GetSize(w) ==
    /\ pc[w] = "size"
    /\ Goto(w, "stream")
    /\ \E i \in RacingInfos(target[w]) : seen' = [seen EXCEPT ![w] = i]
    /\ status' = [status EXCEPT ![w] = 200]
    /\ UNCHANGED <<target, cid, row, prow, storeVars, dbVars, maintenanceVars>>

----------------------------------------------------------------------------
(* PUT /cache/<sha>.                                                       *)

(* authorizeRequest turns the request away: no header, or no write token.  *)
PutRefused(w) ==
    /\ pc[w] = "idle"
    /\ \E code \in {401, 403} : Answer(w, code)
    /\ UNCHANGED <<storeVars, dbVars, maintenanceVars>>

PutConflict(w, s) ==
    /\ AnswerAtOnce(w, s, 409)
    /\ WriteConflict(s) \/ WriteDiscover(s)
    /\ UNCHANGED <<dbVars, maintenanceVars>>

PutThrows(w, s) ==
    /\ AnswerAtOnce(w, s, 500)
    /\ WriteDiscoverThrows(s) \/ (DiskFaults /\ WriteOpenThrows(s))
    /\ UNCHANGED <<dbVars, maintenanceVars>>

PutOpen(w, s) ==
    /\ Accept(w, s, "receive")
    /\ WriteAgain(w, s) \/ WriteFresh(w, s)
    /\ UNCHANGED <<dbVars, maintenanceVars>>

(* The content reader's result is ignored: a body cut short is a Partial.  *)
PutReceive(w) ==
    /\ pc[w] = "receive"
    /\ Goto(w, "extract")
    /\ \E x \in Bodies : WriteBody(w, target[w], x)
    /\ UNCHANGED <<infos, requestVars, dbVars, maintenanceVars>>

PutExtract(w) ==
    /\ pc[w] = "extract"
    /\ Extractable(target[w])
    /\ Goto(w, "assign")
    /\ seen' = [seen EXCEPT ![w] = disk[target[w]]]
    /\ Close(w)
    /\ UNCHANGED <<target, cid, row, prow, status, infos, disk, dbVars, maintenanceVars>>

(* ~StoreWriter logs the exception and leaves the entry as it is.          *)
PutExtractThrows(w) ==
    /\ pc[w] = "extract"
    /\ Unextractable(target[w])
    /\ Goto(w, "info")
    /\ Close(w)
    /\ UNCHANGED <<requestVars, infos, disk, dbVars, maintenanceVars>>

PutAssign(w) ==
    /\ pc[w] = "assign"
    /\ Goto(w, "publish")
    /\ AssignInfo(target[w], seen[w])
    /\ UNCHANGED <<requestVars, dbVars, maintenanceVars>>

PutPublish(w) ==
    /\ pc[w] = "publish"
    /\ Goto(w, "info")
    /\ Publish(target[w])
    /\ UNCHANGED <<requestVars, dbVars, maintenanceVars>>

(* Store::info: the entry, or else the file. Without either, the handler   *)
(* warns and leaves the response as it is.                                 *)
PutInfo(w) ==
    /\ pc[w] = "info"
    /\ Readable(target[w])
    /\ Goto(w, "package")
    /\ UNCHANGED <<requestVars, storeVars, dbVars, maintenanceVars>>

PutInfoMisses(w) ==
    /\ pc[w] = "info"
    /\ ~Readable(target[w])
    /\ Goto(w, "infoDisk")
    /\ UNCHANGED <<requestVars, storeVars, dbVars, maintenanceVars>>

PutInfoDisk(w) ==
    /\ pc[w] = "infoDisk"
    /\ Extractable(target[w])
    /\ Goto(w, "package")
    /\ infos' = TryEmplace(target[w], disk[target[w]])
    /\ UNCHANGED <<requestVars, disk, handle, dbVars, maintenanceVars>>

PutUnrecorded(w) ==
    /\ pc[w] = "infoDisk"
    /\ disk[target[w]] = NoFile
    /\ Answer(w, 200)
    /\ UNCHANGED <<storeVars, dbVars, maintenanceVars>>

(* getOrAddPackageId selects the package of the Info it was handed.        *)
PutFindPackage(w) ==
    /\ pc[w] = "package"
    /\ \E i \in RacingInfos(target[w]) : \E p \in PackageIds(NameOf(i)) :
        /\ prow' = [prow EXCEPT ![w].name = NameOf(i)]
        /\ row' = [row EXCEPT ![w] = [@ EXCEPT !.sha = ShaOf(target[w], i), !.package = p]]
    /\ Goto(w, "addCache")
    /\ UNCHANGED <<target, seen, cid, status, storeVars, dbVars, maintenanceVars>>

PutMissPackage(w) ==
    /\ pc[w] = "package"
    /\ \E i \in RacingInfos(target[w]) :
        /\ PackageIds(NameOf(i)) = {}
        /\ prow' = [prow EXCEPT ![w].name = NameOf(i)]
        /\ row' = [row EXCEPT ![w].sha = ShaOf(target[w], i)]
    /\ Goto(w, "addPackage")
    /\ UNCHANGED <<target, seen, cid, status, storeVars, dbVars, maintenanceVars>>

PutAddPackage(w) ==
    /\ pc[w] = "addPackage"
    /\ CanInsertPackage(prow[w].name)
    /\ Goto(w, "packageId")
    /\ InsertPackage(prow[w].name)
    /\ UNCHANGED <<requestVars, storeVars, maintenanceVars>>

PutPackageId(w) ==
    /\ pc[w] = "packageId"
    /\ Goto(w, "addCache")
    /\ row' = [row EXCEPT ![w].package = lastId]
    /\ UNCHANGED <<target, seen, cid, prow, status, storeVars, dbVars, maintenanceVars>>

PutAddCache(w) ==
    /\ pc[w] = "addCache"
    /\ CanInsertCache(row[w])
    /\ Answer(w, 200)
    /\ InsertCache(row[w])
    /\ UNCHANGED <<storeVars, maintenanceVars>>

----------------------------------------------------------------------------
(* A database constraint or extractInfo throws out of a handler; the       *)
(* exception handler answers and what the handler did so far stays.        *)

GetThrowing(w) ==
    \/ pc[w] = "log" /\ ~CanInsertDownload(cid[w])
    \/ pc[w] = "readCache" /\ ~CacheExists(cid[w])
    \/ pc[w] = "writeCache" /\ ~CanUpdateCache(cid[w], Bumped(row[w]))
    \/ pc[w] = "readPackage" /\ ~PackageExists(row[w].package)
    \/ pc[w] = "writePackage" /\ ~CanUpdatePackage(row[w].package, Bumped(prow[w]))

(* mutant: an insert that violates a constraint is tried again *)
PutThrowingBeforeInsert(w) ==
    pc[w] = "infoDisk" /\ disk[target[w]] # NoFile /\ Unextractable(target[w])

PutThrowing(w) ==
    \/ pc[w] = "infoDisk" /\ disk[target[w]] # NoFile /\ Unextractable(target[w])
    \/ pc[w] = "addPackage" /\ ~CanInsertPackage(prow[w].name)
    \/ pc[w] = "addCache" /\ ~CanInsertCache(row[w])

Throw(w) ==
    /\ GetThrowing(w) \/ PutThrowing(w)
    /\ Answer(w, 500)
    /\ UNCHANGED <<storeVars, dbVars, maintenanceVars>>

----------------------------------------------------------------------------
(* maintain, called by the maintenance thread. Which rows a pass removes   *)
(* is the subject of module Maintenance: here it may be any undeleted row. *)

MaintainBegin ==
    /\ mpc = "idle"
    /\ mpc' = "mark"
    /\ Begin
    /\ UNCHANGED <<toDelete, storeVars, workerVars>>

MaintainMark(k) ==
    /\ mpc = "mark"
    /\ ~caches[k].deleted
    /\ MarkRowDeleted(k)
    /\ toDelete' = Append(toDelete, caches[k].sha)
    /\ UNCHANGED <<mpc, storeVars, workerVars>>

(* mutant: a dry run goes on to remove *)
MaintainForgetsDryRun ==
    /\ mpc = "mark"
    /\ DryRun
    /\ mpc' = "remove"
    /\ Rollback
    /\ UNCHANGED <<toDelete, storeVars, workerVars>>

MaintainDryRun ==
    /\ mpc = "mark"
    /\ DryRun
    /\ mpc' = "idle"
    /\ toDelete' = <<>>
    /\ Rollback
    /\ UNCHANGED <<storeVars, workerVars>>

MaintainCommit ==
    /\ mpc = "mark"
    /\ ~DryRun
    /\ mpc' = "remove"
    /\ Commit
    /\ UNCHANGED <<toDelete, storeVars, workerVars>>

(* mutant: the loop over toDelete does not advance *)
MaintainRemoveFirst ==
    /\ mpc = "remove"
    /\ toDelete # <<>>
    /\ IF Head(toDelete) \in Sha
       THEN Remove(Head(toDelete)) \/ RemoveSkips(Head(toDelete))
       ELSE UNCHANGED storeVars
    /\ UNCHANGED <<mpc, toDelete, dbVars, workerVars>>

(* The row of an empty hash has no entry in infos.                         *)
MaintainRemove ==
    /\ mpc = "remove"
    /\ toDelete # <<>>
    /\ toDelete' = Tail(toDelete)
    /\ IF Head(toDelete) \in Sha
       THEN Remove(Head(toDelete)) \/ RemoveSkips(Head(toDelete))
       ELSE UNCHANGED storeVars
    /\ UNCHANGED <<mpc, dbVars, workerVars>>

(* The exception leaves maintain and ends the thread's loop for good.      *)
MaintainDies ==
    /\ DiskFaults
    /\ mpc = "remove"
    /\ toDelete # <<>>
    /\ Head(toDelete) \in Sha
    /\ RemoveThrows(Head(toDelete))
    /\ mpc' = "dead"
    /\ toDelete' = <<>>
    /\ UNCHANGED <<dbVars, workerVars>>

MaintainEnd ==
    /\ mpc = "remove"
    /\ toDelete = <<>>
    /\ mpc' = "idle"
    /\ UNCHANGED <<toDelete, storeVars, dbVars, workerVars>>

----------------------------------------------------------------------------

Get(w) ==
    \/ GetLookup(w) \/ GetLog(w) \/ GetReadCache(w) \/ GetWriteCache(w)
    \/ GetReadPackage(w) \/ GetWritePackage(w) \/ GetSize(w)

Put(w) ==
    \/ PutReceive(w) \/ PutExtract(w) \/ PutExtractThrows(w)
    \/ PutAssign(w) \/ PutPublish(w)
    \/ PutInfo(w) \/ PutInfoMisses(w) \/ PutInfoDisk(w) \/ PutUnrecorded(w)
    \/ PutFindPackage(w) \/ PutMissPackage(w)
    \/ PutAddPackage(w) \/ PutPackageId(w) \/ PutAddCache(w)

Request(w) ==
    \/ PutRefused(w)
    \/ \E s \in Sha : \/ GetOpen(w, s) \/ GetNotFound(w, s)
                      \/ PutOpen(w, s) \/ PutConflict(w, s) \/ PutThrows(w, s)

Handler(w) == Get(w) \/ Put(w) \/ Throw(w) \/ Reply(w)

MaintainStep ==
    \/ \E k \in DOMAIN caches : MaintainMark(k)
    \/ MaintainDryRun \/ MaintainCommit
    \/ MaintainRemove \/ MaintainDies \/ MaintainEnd

(* Another process that shares the cache directory.                        *)
Environment ==
    /\ \E s \in Sha, x \in External : ExternalAdd(s, x)
    /\ UNCHANGED <<dbVars, workerVars, maintenanceVars>>

Next ==
    \/ \E w \in Worker : Request(w) \/ Handler(w)
    \/ MaintainBegin
    \/ MaintainStep
    \/ Environment

Spec == Init /\ [][Next]_vars

(* The thread pool runs every accepted request, the client (or its read    *)
(* timeout) ends every body, and the maintenance thread is never blocked.  *)
Fairness ==
    /\ \A w \in Worker : WF_vars(Handler(w))
    /\ WF_vars(MaintainStep)

FairSpec == Spec /\ Fairness

----------------------------------------------------------------------------
(* Safety.                                                                 *)

Uploads(s) == {w \in Worker : pc[w] \in WriterPC /\ target[w] = s}
Recorders(s) == {w \in Worker : pc[w] \in RecordPC /\ target[w] = s}

(* At most one StoreWriter is alive for a hash: no two PUTs ever write the *)
(* same file or the same entry (Store::write answers the second with 409). *)
OneUploadOf(s) == \A v, w \in Uploads(s) : v = w
OneUpload == \A s \in Sha : OneUploadOf(s)

(* A download never streams a file that an upload is still writing or has  *)
(* truncated, whenever the reader opened it and whatever removed or        *)
(* replaced the archive since (StoreReader keeps its stream open).         *)
StreamsComplete ==
    ~DiskFaults =>
        \A w \in Worker : pc[w] \in GetPC => handle[w].file # Partial

(* The Info that a readable entry publishes is that of the file on disk,   *)
(* through unlocked assignments, evictions and uploads.                    *)
OnDisk(s) == Readable(s) /\ infos[s].info # NoInfo => disk[s] = infos[s].info
ValidOnDisk == \A s \in Sha : OnDisk(s)

(* A hash with a live row is past its first upload, and that upload did    *)
(* not fail: maintenance, which only removes what has a live row, unlinks  *)
(* no file that is being uploaded and removes no entry without an Info.    *)
PastUpload(s) == infos[s].st # "Absent" /\ (Readable(s) => Uploads(s) = {})
Settled(s) == PastUpload(s) /\ (Readable(s) => infos[s].info # NoInfo)

HasLiveRow(rows, s) == \E k \in DOMAIN rows : rows[k].sha = s /\ ~rows[k].deleted

LiveRowsSettled == \A s \in Sha : HasLiveRow(caches, s) => Settled(s)

(* Why all this holds through every step, hash by hash: the writer's entry *)
(* is claimed, and what it extracted is on disk when it assigns it; a PUT  *)
(* records its hash after its upload; and neither a copy of a row that a   *)
(* request may write, nor the tables that a rollback may put back, nor the *)
(* list of a pass names an archive whose upload is still running.          *)
WriterInOrder(s) ==
    \A w \in Uploads(s) :
        /\ Claimed(s)
        /\ pc[w] \in {"assign", "publish"} => seen[w] \in Archive /\ disk[s] = seen[w]
        /\ IF pc[w] = "publish" THEN infos[s].info = seen[w]
                                ELSE Readable(s) => infos[s].info = NoInfo

Named(s) ==
    \/ HasLiveRow(caches, s)
    \/ HasLiveRow(row, s)
    \/ saved # NoTransaction /\ HasLiveRow(saved[2], s)
    \/ \E k \in DOMAIN toDelete : toDelete[k] = s

HashInv(s) ==
    /\ OneUploadOf(s) /\ WriterInOrder(s) /\ OnDisk(s)
    /\ Recorders(s) # {} => PastUpload(s)
    /\ Named(s) => Settled(s)

UploadInv == TypeOK /\ \A s \in Sha : HashInv(s)

(* updateLastUse may lose downloads but never invents one: the counter of  *)
(* a cache stays within the downloads logged for it (addDownload runs      *)
(* first), unless a dry run's rollback takes the log away.                 *)
Logged(k) == {d \in DOMAIN downloads : downloads[d] = k}

CountsWithinLog ==
    ~DryRun => \A k \in DOMAIN caches :
                  caches[k].downloads <= Cardinality(Logged(k))

(* A PUT of a well-formed archive that is answered 200 has left a row for  *)
(* its hash, whatever maintenance and other requests did meanwhile.        *)
AcknowledgedIsRecorded ==
    ~DryRun =>
        \A w \in Worker :
            pc[w] = "done" /\ status[w] = 200 /\ seen[w] \in Archive
                => CacheIds(target[w]) # {}

(* The store implements the abstract cache of archives.                    *)
ContentOf(s) ==
    IF Uploads(s) # {} THEN "uploading"
    ELSE IF infos[s].st \in {"Absent", "Deleted"} THEN "none"
    ELSE IF Readable(s) /\ infos[s].info # NoInfo THEN infos[s].info
    ELSE "broken"

Cache == INSTANCE ArchiveCache
         WITH None <- "none", Uploading <- "uploading", Broken <- "broken",
              content <- [s \in Sha |-> ContentOf(s)]

ImplementsCache == Cache!Spec

(* A dry run evicts nothing: what is readable stays readable.              *)
DryRunKeepsArchives ==
    [][DryRun => \A s \in Sha : Readable(s) => Readable(s)']_vars

----------------------------------------------------------------------------
(* Liveness.                                                               *)

(* Every request is answered and its thread returns to the pool.           *)
RequestsAnswered == \A w \in Worker : pc[w] # "idle" ~> pc[w] = "idle"

(* Every maintenance pass ends, if only with the thread that runs it.      *)
PassEnds == mpc # "idle" ~> mpc \in {"idle", "dead"}

(* What a pass committed to remove stops being served, unless a file that  *)
(* could not be removed ends the thread before.                            *)
VictimsEvicted ==
    \A s \in Sha :
        (mpc = "remove" /\ \E k \in DOMAIN toDelete : toDelete[k] = s)
            ~> ~Readable(s) \/ mpc = "dead"

(* An upload becomes readable, unless ~StoreWriter could not close its     *)
(* file or read it back: what it did extract is published, whatever else   *)
(* goes on meanwhile.                                                      *)
Landed(s) == Readable(s) /\ infos[s].info # NoInfo
NotExtracted(s) == \E w \in Recorders(s) : pc[w] = "info" /\ seen[w] = NoInfo

UploadsLand ==
    \A s \in Sha : Uploads(s) # {} ~> Landed(s) \/ NotExtracted(s)

----------------------------------------------------------------------------
(* What the code's comments, tests and settings claim and the code denies. *)

(* store.hpp: smtx synchronizes reading and writing infos. A reader of     *)
(* infos then sees one Info, so a 200 streams the archive it announced.    *)
ResponseIsOneArchive ==
    \A w \in Worker :
        pc[w] = "stream" /\ seen[w] # NoInfo => handle[w].file = seen[w]

(* test_database: getOrAddPackageId creates separate packages for          *)
(* different names. Two PUTs about to insert their rows then never hold    *)
(* one package id for archives of two packages.                            *)
SeparatePackages ==
    \A v, w \in Worker :
        pc[v] = "addCache" /\ pc[w] = "addCache" /\ prow[v].name # prow[w].name
            => row[v].package # row[w].package

(* settings: max_total_size bounds the entire cache. Between passes no     *)
(* archive is served whose row the pass does not count.                    *)
ServedIsCounted ==
    (mpc = "idle" /\ \A w \in Worker : pc[w] = "idle") =>
        \A k \in DOMAIN caches :
            caches[k].sha \in Sha /\ caches[k].deleted => ~Readable(caches[k].sha)

(* settings: a dry run only reports; it deletes nothing.                   *)
DryRunOnlyReports ==
    [][DryRun => \A k \in DOMAIN caches : k \in DOMAIN caches']_vars

=============================================================================
