------------------------- MODULE CacheServerProofs -------------------------
(***************************************************************************)
(* Theorems about CacheServer for every set of hashes, archives and        *)
(* threads, checked by TLAPS.                                              *)
(***************************************************************************)
EXTENDS CacheServer, SequenceTheorems, TLAPS

----------------------------------------------------------------------------
(* Type correctness, one lemma per component.                              *)

(* The file operations of the store keep its files and handles typed.      *)
LEMMA RewriteTyped ==
    ASSUME StoreTypeOK, NEW c \in Client, NEW s \in Sha \cup {NoSha},
           NEW x \in Content, Rewrite(c, s, x)
    PROVE  /\ disk' \in [Sha -> Content \cup {NoFile}]
           /\ handle' \in [Client -> Handle]
<1>1. Linked(s, x) \in Handle
  BY DEF Linked, Handle
<1>2. \A d \in Client : (IF d = c \/ handle[d].path = s THEN Linked(s, x) ELSE handle[d]) \in Handle
  BY <1>1 DEF StoreTypeOK
<1>3. QED
  BY <1>2 DEF Rewrite, StoreTypeOK

(* Unlinking detaches handles and leaves them typed.                       *)
LEMMA UnlinkTyped ==
    ASSUME StoreTypeOK, NEW s \in Sha, Unlink(s)
    PROVE  /\ disk' \in [Sha -> Content \cup {NoFile}]
           /\ handle' \in [Client -> Handle]
<1>1. \A h \in Handle : [h EXCEPT !.path = NoSha] \in Handle
  BY DEF Handle
<1>2. \A d \in Client : (IF handle[d].path = s THEN [handle[d] EXCEPT !.path = NoSha] ELSE handle[d]) \in Handle
  BY <1>1 DEF StoreTypeOK
<1>3. QED
  BY <1>2 DEF Unlink, StoreTypeOK

(* So do the assignments to the members of an entry.                       *)
LEMMA StateTyped ==
    ASSUME StoreTypeOK, NEW s, NEW st \in InfoState
    PROVE  [infos EXCEPT ![s].st = st] \in [Sha -> [st : InfoState, info : Info]]
<1>1. \A e \in [st : InfoState, info : Info] : [e EXCEPT !.st = st] \in [st : InfoState, info : Info]
  OBVIOUS
<1>2. CASE s \in Sha
  BY <1>1, <1>2 DEF StoreTypeOK
<1>3. CASE s \notin Sha
  BY <1>3 DEF StoreTypeOK
<1>4. QED
  BY <1>2, <1>3

(* Changes to one entry keep the table of entries typed.                   *)
LEMMA InfoTyped ==
    ASSUME StoreTypeOK, NEW s, NEW i \in Info
    PROVE  [infos EXCEPT ![s].info = i] \in [Sha -> [st : InfoState, info : Info]]
<1>1. \A e \in [st : InfoState, info : Info] : [e EXCEPT !.info = i] \in [st : InfoState, info : Info]
  OBVIOUS
<1>2. CASE s \in Sha
  BY <1>1, <1>2 DEF StoreTypeOK
<1>3. CASE s \notin Sha
  BY <1>3 DEF StoreTypeOK
<1>4. QED
  BY <1>2, <1>3

(* Every step keeps the store typed.                                       *)
LEMMA StoreTyped ==
    ASSUME TypeOK, [Next]_vars
    PROVE  StoreTypeOK'
<1> USE StoreConstants, ServerConstants
<1> USE DEF TypeOK, StoreTypeOK, WorkerTypeOK
<1>1. ASSUME NEW w \in Worker, NEW s \in Sha, GetOpen(w, s) PROVE StoreTypeOK'
  <2>1. Closed \in Handle /\ \A i \in Info : ReaderStream(s, i) \in Handle
    BY DEF ReaderStream, Closed, Linked, Handle
  <2>2. PICK h \in Handle : handle' = [handle EXCEPT ![w] = h]
    <3>1. PICK i \in RacingInfos(s) : Read(w, s, i)
      BY <1>1 DEF GetOpen
    <3>2. i \in Info
      BY DEF RacingInfos, Worker
    <3>3. PICK h \in {ReaderStream(s, i), Closed} : handle' = [handle EXCEPT ![w] = h]
      BY <3>1 DEF Read
    <3>4. h \in Handle
      BY <2>1, <3>2, <3>3
    <3>5. QED
      BY <3>3, <3>4
  <2>3. QED
    BY <1>1, <2>2 DEF GetOpen, Read, Worker
<1>2. ASSUME NEW w \in Worker, NEW s \in Sha, PutOpen(w, s) PROVE StoreTypeOK'
  <2>1. CASE WriteAgain(w, s)
    BY <2>1, RewriteTyped DEF WriteAgain, MarkWriting, OpenForWriting, Content, InfoState, Worker
  <2>2. CASE WriteFresh(w, s)
    BY <2>2, RewriteTyped DEF WriteFresh, TryEmplace, OpenForWriting, Content, Info, InfoState, Worker
  <2>3. QED
    BY <1>2, <2>1, <2>2 DEF PutOpen
<1>3. ASSUME NEW w \in Worker, NEW s \in Sha, PutConflict(w, s) PROVE StoreTypeOK'
  <2>1. CASE WriteDiscover(s)
    BY <2>1 DEF WriteDiscover, Extractable, TryEmplace, Info, InfoState
  <2>2. CASE WriteConflict(s)
    BY <2>2 DEF WriteConflict, storeVars
  <2>3. QED
    BY <1>3, <2>1, <2>2 DEF PutConflict
<1>4. ASSUME NEW w \in Worker, NEW s \in Sha, PutThrows(w, s) PROVE StoreTypeOK'
  <2>1. CASE WriteOpenThrows(s)
    BY <2>1 DEF WriteOpenThrows, MarkWriting, TryEmplace, Info, InfoState
  <2>2. CASE WriteDiscoverThrows(s)
    BY <2>2 DEF WriteDiscoverThrows, storeVars
  <2>3. QED
    BY <1>4, <2>1, <2>2 DEF PutThrows
<1>5. ASSUME NEW w \in Worker, PutReceive(w) PROVE StoreTypeOK'
  <2>1. PICK x \in Bodies : WriteBody(w, target[w], x)
    BY <1>5 DEF PutReceive
  <2>2. CASE handle[w].path = target[w]
    BY <1>5, <2>1, <2>2, RewriteTyped DEF PutReceive, WriteBody, Worker
  <2>3. CASE handle[w].path # target[w]
    <3>1. [handle[w] EXCEPT !.file = x] \in Handle
      BY DEF Handle, Worker
    <3>2. handle' = [handle EXCEPT ![w] = [handle[w] EXCEPT !.file = x]] /\ UNCHANGED <<infos, disk>>
      BY <1>5, <2>1, <2>3 DEF PutReceive, WriteBody
    <3>3. QED
      BY <3>1, <3>2
  <2>4. QED
    BY <2>2, <2>3
<1>6. ASSUME NEW w \in Worker, PutExtract(w) \/ PutExtractThrows(w) \/ Reply(w) PROVE StoreTypeOK'
  <2>1. Closed \in Handle
    BY DEF Closed, Handle
  <2>2. Close(w) /\ UNCHANGED <<infos, disk>>
    BY <1>6 DEF PutExtract, PutExtractThrows, Reply
  <2>3. QED
    BY <2>1, <2>2 DEF Close
<1>7. ASSUME NEW w \in Worker, PutAssign(w) PROVE StoreTypeOK'
  <2>1. UNCHANGED <<disk, handle>> /\ infos' = [infos EXCEPT ![target[w]].info = seen[w]]
    BY <1>7 DEF PutAssign, AssignInfo
  <2>2. seen[w] \in Info
    BY DEF Worker
  <2>3. QED
    BY <2>1, <2>2, InfoTyped
<1>8. ASSUME NEW w \in Worker, PutPublish(w) PROVE StoreTypeOK'
  <2>1. UNCHANGED <<disk, handle>> /\ infos' = [infos EXCEPT ![target[w]].st = "Valid"]
    BY <1>8 DEF PutPublish, Publish
  <2>2. "Valid" \in InfoState
    BY DEF InfoState
  <2>3. QED
    BY <2>1, <2>2, StateTyped
<1>9. ASSUME NEW w \in Worker, PutInfoDisk(w) PROVE StoreTypeOK'
  BY <1>9 DEF PutInfoDisk, Extractable, TryEmplace, Info, InfoState
<1>10. ASSUME MaintainRemove PROVE StoreTypeOK'
  <2>1. ASSUME NEW s \in Sha, Remove(s) PROVE StoreTypeOK'
    BY <2>1, UnlinkTyped DEF Remove, MarkDeleted, InfoState
  <2>2. ASSUME UNCHANGED storeVars PROVE StoreTypeOK'
    BY <2>2 DEF storeVars
  <2>3. QED
    BY <1>10, <2>1, <2>2 DEF MaintainRemove, RemoveSkips
<1>11. ASSUME MaintainDies PROVE StoreTypeOK'
  <2>1. PICK s \in Sha : RemoveThrows(s)
    BY <1>11 DEF MaintainDies
  <2>2. QED
    BY <2>1 DEF RemoveThrows, MarkDeleted, InfoState
<1>12. ASSUME Environment PROVE StoreTypeOK'
  BY <1>12 DEF Environment, ExternalAdd
<1>13. ASSUME UNCHANGED storeVars PROVE StoreTypeOK'
  BY <1>13 DEF storeVars
<1>14. ASSUME NEW w \in Worker,
              \/ PutRefused(w) \/ \E s \in Sha : GetNotFound(w, s)
              \/ Get(w) \/ Throw(w)
              \/ PutInfo(w) \/ PutInfoMisses(w) \/ PutUnrecorded(w)
              \/ PutFindPackage(w) \/ PutMissPackage(w)
              \/ PutAddPackage(w) \/ PutPackageId(w) \/ PutAddCache(w)
       PROVE  UNCHANGED storeVars
  BY <1>14 DEF PutRefused, GetNotFound, Get, GetLookup, GetLog, GetReadCache,
       GetWriteCache, GetReadPackage, GetWritePackage, GetSize, Throw, PutInfo,
       PutInfoMisses, PutUnrecorded, PutFindPackage, PutMissPackage,
       PutAddPackage, PutPackageId, PutAddCache
<1>15. ASSUME \/ MaintainBegin \/ MaintainDryRun \/ MaintainCommit \/ MaintainEnd
              \/ \E k \in DOMAIN caches : MaintainMark(k)
       PROVE  UNCHANGED storeVars
  BY <1>15 DEF MaintainBegin, MaintainDryRun, MaintainCommit, MaintainEnd, MaintainMark
<1>16. QED
  BY <1>1, <1>2, <1>3, <1>4, <1>5, <1>6, <1>7, <1>8, <1>9, <1>10, <1>11, <1>12, <1>13,
     <1>14, <1>15 DEF Next, vars, Request, Handler, Put, MaintainStep

(* Writing back a row with one more download keeps it a row.               *)
LEMMA BumpedTyped ==
    /\ \A r \in CacheRow : Bumped(r) \in CacheRow
    /\ \A r \in PackageRow : Bumped(r) \in PackageRow
<1>1. ASSUME NEW r \in CacheRow PROVE Bumped(r) \in CacheRow
  <2>1. r.downloads + 1 \in Nat
    BY DEF CacheRow
  <2>2. \A n \in Nat : [r EXCEPT !.downloads = n] \in CacheRow
    BY DEF CacheRow
  <2>3. QED
    BY <2>1, <2>2 DEF Bumped
<1>2. ASSUME NEW r \in PackageRow PROVE Bumped(r) \in PackageRow
  <2>1. r.downloads + 1 \in Nat
    BY DEF PackageRow
  <2>2. \A n \in Nat : [r EXCEPT !.downloads = n] \in PackageRow
    BY DEF PackageRow
  <2>3. QED
    BY <2>1, <2>2 DEF Bumped
<1>3. QED
  BY <1>1, <1>2

(* Every step keeps the tables, the row id and the saved tables typed.     *)
LEMMA DatabaseTyped ==
    ASSUME TypeOK, [Next]_vars
    PROVE  DatabaseTypeOK'
<1> USE StoreConstants, ServerConstants
<1> USE DEF TypeOK, DatabaseTypeOK, WorkerTypeOK
<1>1. ASSUME NEW w \in Worker, GetLog(w) PROVE DatabaseTypeOK'
  <2>1. downloads' \in Seq(Nat)
    BY <1>1, AppendProperties DEF GetLog, InsertDownload
  <2>2. QED
    BY <1>1, <2>1 DEF GetLog, InsertDownload
<1>2. ASSUME NEW w \in Worker, GetWriteCache(w) PROVE DatabaseTypeOK'
  <2>1. Bumped(row[w]) \in CacheRow
    BY BumpedTyped DEF Worker
  <2>2. UpdateCache(cid[w], Bumped(row[w]))
    BY <1>2 DEF GetWriteCache
  <2>3. caches' \in Seq(CacheRow)
    <3>1. CASE CacheExists(cid[w])
      BY <2>1, <2>2, <3>1, ExceptSeq, LenProperties DEF UpdateCache, CacheExists
    <3>2. CASE ~CacheExists(cid[w])
      BY <2>2, <3>2 DEF UpdateCache
    <3>3. QED
      BY <3>1, <3>2
  <2>4. QED
    BY <2>2, <2>3 DEF UpdateCache
<1>3. ASSUME NEW w \in Worker, GetWritePackage(w) PROVE DatabaseTypeOK'
  <2>1. Bumped(prow[w]) \in PackageRow
    BY BumpedTyped DEF Worker
  <2>2. UpdatePackage(row[w].package, Bumped(prow[w]))
    BY <1>3 DEF GetWritePackage
  <2>3. packages' \in Seq(PackageRow)
    <3>1. CASE PackageExists(row[w].package)
      BY <2>1, <2>2, <3>1, ExceptSeq, LenProperties DEF UpdatePackage, PackageExists
    <3>2. CASE ~PackageExists(row[w].package)
      BY <2>2, <3>2 DEF UpdatePackage
    <3>3. QED
      BY <3>1, <3>2
  <2>4. QED
    BY <2>2, <2>3 DEF UpdatePackage
<1>4. ASSUME NEW w \in Worker, PutAddPackage(w) PROVE DatabaseTypeOK'
  <2>1. [name |-> prow[w].name, downloads |-> 0] \in PackageRow
    BY DEF PackageRow
  <2>2. packages' \in Seq(PackageRow)
    BY <1>4, <2>1, AppendProperties DEF PutAddPackage, InsertPackage
  <2>3. QED
    BY <1>4, <2>2 DEF PutAddPackage, InsertPackage
<1>5. ASSUME NEW w \in Worker, PutAddCache(w) PROVE DatabaseTypeOK'
  <2>1. caches' \in Seq(CacheRow)
    BY <1>5, AppendProperties DEF PutAddCache, InsertCache
  <2>2. QED
    BY <1>5, <2>1 DEF PutAddCache, InsertCache
<1>6. ASSUME MaintainBegin PROVE DatabaseTypeOK'
  BY <1>6 DEF MaintainBegin, Begin, tables, Tables
<1>7. ASSUME NEW k \in DOMAIN caches, MaintainMark(k) PROVE DatabaseTypeOK'
  <2>1. MarkRowDeleted(k)
    BY <1>7 DEF MaintainMark
  <2>2. [caches[k] EXCEPT !.deleted = TRUE] \in CacheRow
    <3>1. caches[k] \in CacheRow
      BY ElementOfSeq, LenProperties
    <3>2. \A r \in CacheRow : [r EXCEPT !.deleted = TRUE] \in CacheRow
      BY DEF CacheRow
    <3>3. QED
      BY <3>1, <3>2
  <2>3. caches' = [caches EXCEPT ![k] = [caches[k] EXCEPT !.deleted = TRUE]]
    BY <2>1 DEF MarkRowDeleted
  <2>4. caches' \in Seq(CacheRow)
    BY <2>2, <2>3, ExceptSeq, LenProperties
  <2>5. QED
    BY <2>1, <2>4 DEF MarkRowDeleted
<1>8. ASSUME MaintainDryRun PROVE DatabaseTypeOK'
  <2>1. saved \in Tables
    BY <1>8 DEF MaintainDryRun, MaintenanceTypeOK
  <2>2. QED
    BY <1>8, <2>1 DEF MaintainDryRun, Rollback, RestoreTables, Tables
<1>9. ASSUME MaintainCommit PROVE DatabaseTypeOK'
  BY <1>9 DEF MaintainCommit, Commit
<1>10. ASSUME UNCHANGED dbVars PROVE DatabaseTypeOK'
  BY <1>10 DEF dbVars
<1>11. ASSUME NEW w \in Worker,
              \/ Request(w) \/ Throw(w) \/ Reply(w)
              \/ GetLookup(w) \/ GetReadCache(w) \/ GetReadPackage(w) \/ GetSize(w)
              \/ PutReceive(w) \/ PutExtract(w) \/ PutExtractThrows(w) \/ PutAssign(w)
              \/ PutPublish(w) \/ PutInfo(w) \/ PutInfoMisses(w) \/ PutInfoDisk(w)
              \/ PutUnrecorded(w) \/ PutFindPackage(w) \/ PutMissPackage(w)
              \/ PutPackageId(w)
       PROVE  UNCHANGED dbVars
  BY <1>11 DEF Request, PutRefused, GetOpen, GetNotFound, PutOpen, PutConflict,
       PutThrows, Throw, Reply, GetLookup, GetReadCache, GetReadPackage, GetSize,
       PutReceive, PutExtract, PutExtractThrows, PutAssign, PutPublish, PutInfo,
       PutInfoMisses, PutInfoDisk, PutUnrecorded, PutFindPackage, PutMissPackage,
       PutPackageId
<1>12. ASSUME MaintainRemove \/ MaintainDies \/ MaintainEnd \/ Environment
       PROVE  UNCHANGED dbVars
  BY <1>12 DEF MaintainRemove, MaintainDies, MaintainEnd, Environment
<1>13. QED
  BY <1>1, <1>2, <1>3, <1>4, <1>5, <1>6, <1>7, <1>8, <1>9, <1>10, <1>11, <1>12
     DEF Next, vars, Handler, Get, Put, MaintainStep

(* A pass keeps its list typed, and marks only inside its transaction.     *)
LEMMA MaintenanceTyped ==
    ASSUME TypeOK, [Next]_vars
    PROVE  MaintenanceTypeOK'
<1> USE StoreConstants, ServerConstants
<1> USE DEF TypeOK, MaintenanceTypeOK
<1>1. ASSUME MaintainBegin PROVE MaintenanceTypeOK'
  BY <1>1 DEF MaintainBegin, Begin, tables, NoTransaction
<1>2. ASSUME NEW k \in DOMAIN caches, MaintainMark(k) PROVE MaintenanceTypeOK'
  <2>1. caches[k] \in CacheRow
    BY ElementOfSeq, LenProperties DEF DatabaseTypeOK
  <2>2. caches[k].sha \in RowSha
    BY <2>1 DEF CacheRow
  <2>3. QED
    BY <1>2, <2>2, AppendProperties DEF MaintainMark, MarkRowDeleted
<1>3. ASSUME MaintainDryRun \/ MaintainDies PROVE MaintenanceTypeOK'
  BY <1>3, EmptySeq DEF MaintainDryRun, MaintainDies
<1>4. ASSUME MaintainCommit \/ MaintainEnd PROVE MaintenanceTypeOK'
  BY <1>4 DEF MaintainCommit, MaintainEnd
<1>5. ASSUME MaintainRemove PROVE MaintenanceTypeOK'
  BY <1>5, HeadTailProperties DEF MaintainRemove
<1>6. ASSUME UNCHANGED maintenanceVars, UNCHANGED saved PROVE MaintenanceTypeOK'
  BY <1>6 DEF maintenanceVars
<1>7. ASSUME NEW w \in Worker, Request(w) \/ Handler(w)
      PROVE  UNCHANGED maintenanceVars /\ UNCHANGED saved
  <2>1. ASSUME Request(w) \/ Throw(w) \/ Reply(w)
        PROVE  UNCHANGED maintenanceVars /\ UNCHANGED saved
    BY <2>1 DEF Request, PutRefused, GetOpen, GetNotFound, PutOpen, PutConflict,
         PutThrows, Throw, Reply, dbVars
  <2>2. ASSUME Get(w) PROVE UNCHANGED maintenanceVars /\ UNCHANGED saved
    BY <2>2 DEF Get, GetLookup, GetLog, GetReadCache, GetWriteCache, GetReadPackage,
         GetWritePackage, GetSize, InsertDownload, UpdateCache, UpdatePackage, dbVars
  <2>3. ASSUME Put(w) PROVE UNCHANGED maintenanceVars /\ UNCHANGED saved
    BY <2>3 DEF Put, PutReceive, PutExtract, PutExtractThrows, PutAssign, PutPublish,
         PutInfo, PutInfoMisses, PutInfoDisk, PutUnrecorded, PutFindPackage,
         PutMissPackage, PutAddPackage, PutPackageId, PutAddCache, InsertPackage,
         InsertCache, dbVars
  <2>4. QED
    BY <1>7, <2>1, <2>2, <2>3 DEF Handler
<1>8. ASSUME Environment PROVE UNCHANGED maintenanceVars /\ UNCHANGED saved
  BY <1>8 DEF Environment, dbVars
<1>9. QED
  BY <1>1, <1>2, <1>3, <1>4, <1>5, <1>6, <1>7, <1>8 DEF Next, MaintainStep, vars, dbVars

(* A handler's step to another of its places, with or without an answer.   *)
LEMMA GotoTyped ==
    ASSUME WorkerTypeOK, NEW w \in Worker, NEW to \in PC, Goto(w, to)
    PROVE  pc' \in [Worker -> PC]
BY DEF WorkerTypeOK, Goto

(* An answer leaves the handler's locals as they are.                      *)
LEMMA AnswerTyped ==
    ASSUME WorkerTypeOK, NEW w \in Worker,
           NEW code \in {200, 401, 403, 404, 409, 500}, Answer(w, code)
    PROVE  WorkerTypeOK'
<1>1. pc' \in [Worker -> PC]
  BY GotoTyped DEF Answer, PC
<1>2. status' \in [Worker -> {0, 200, 401, 403, 404, 409, 500}]
  BY DEF Answer, WorkerTypeOK
<1>3. QED
  BY <1>1, <1>2 DEF Answer, WorkerTypeOK

(* Accepting or refusing a request keeps the threads typed.                *)
LEMMA RequestTyped ==
    ASSUME TypeOK, NEW w \in Worker, Request(w)
    PROVE  WorkerTypeOK'
<1> USE DEF TypeOK, WorkerTypeOK
<1>1. CASE PutRefused(w)
  BY <1>1, AnswerTyped DEF PutRefused
<1>2. ASSUME NEW s \in Sha, NEW to \in {"lookup", "receive"}, Accept(w, s, to)
      PROVE  WorkerTypeOK'
  <2>1. pc' \in [Worker -> PC]
    BY <1>2, GotoTyped DEF Accept, PC, Serving, GetPC, WriterPC
  <2>2. QED
    BY <1>2, <2>1 DEF Accept
<1>3. ASSUME NEW s \in Sha, NEW code \in {404, 409, 500}, AnswerAtOnce(w, s, code)
      PROVE  WorkerTypeOK'
  <2>1. pc' \in [Worker -> PC]
    BY <1>3, GotoTyped DEF AnswerAtOnce, PC
  <2>2. status' \in [Worker -> {0, 200, 401, 403, 404, 409, 500}]
    BY <1>3 DEF AnswerAtOnce
  <2>3. QED
    BY <1>3, <2>1, <2>2 DEF AnswerAtOnce
<1>4. QED
  BY <1>1, <1>2, <1>3 DEF Request, GetOpen, GetNotFound, PutOpen, PutConflict, PutThrows

(* What a racing read of an entry finds is an Info.                        *)
LEMMA RacingInfosTyped ==
    ASSUME TypeOK, NEW s \in Sha
    PROVE  RacingInfos(s) \subseteq Info
BY DEF RacingInfos, TypeOK, StoreTypeOK, WorkerTypeOK

(* Every step of a GET keeps the threads typed.                            *)
LEMMA GetTyped ==
    ASSUME TypeOK, NEW w \in Worker, Get(w)
    PROVE  WorkerTypeOK'
<1> USE DEF TypeOK, WorkerTypeOK
<1>1. CASE GetLookup(w)
  <2>1. pc' \in [Worker -> PC]
    BY <1>1, GotoTyped DEF GetLookup, PC, Serving, GetPC
  <2>2. PICK i \in RacingInfos(target[w]) :
          \E k \in DerefCacheId(ShaOf(target[w], i)) : cid' = [cid EXCEPT ![w] = k]
    BY <1>1 DEF GetLookup
  <2>3. PICK k \in DerefCacheId(ShaOf(target[w], i)) : cid' = [cid EXCEPT ![w] = k]
    BY <2>2
  <2>4. DOMAIN caches \subseteq Nat
    BY LenProperties DEF DatabaseTypeOK
  <2>5. k \in Nat
    BY <2>3, <2>4 DEF DerefCacheId, CacheIds
  <2>6. cid' \in [Worker -> Nat]
    BY <2>3, <2>5
  <2>7. QED
    BY <1>1, <2>1, <2>6 DEF GetLookup
<1>2. CASE GetLog(w) \/ GetWriteCache(w) \/ GetWritePackage(w)
  <2>1. UNCHANGED requestVars
    BY <1>2 DEF GetLog, GetWriteCache, GetWritePackage
  <2>2. pc' \in [Worker -> PC]
    BY <1>2, GotoTyped DEF GetLog, GetWriteCache, GetWritePackage, PC, Serving, GetPC
  <2>3. QED
    BY <2>1, <2>2 DEF requestVars
<1>3. CASE GetReadCache(w)
  <2>1. pc' \in [Worker -> PC]
    BY <1>3, GotoTyped DEF GetReadCache, PC, Serving, GetPC
  <2>2. caches[cid[w]] \in CacheRow
    BY <1>3, ElementOfSeq, LenProperties DEF GetReadCache, CacheExists, DatabaseTypeOK
  <2>3. row' \in [Worker -> CacheRow]
    BY <1>3, <2>2 DEF GetReadCache
  <2>4. QED
    BY <1>3, <2>1, <2>3 DEF GetReadCache
<1>4. CASE GetReadPackage(w)
  <2>1. pc' \in [Worker -> PC]
    BY <1>4, GotoTyped DEF GetReadPackage, PC, Serving, GetPC
  <2>2. packages[row[w].package] \in PackageRow
    BY <1>4, ElementOfSeq, LenProperties DEF GetReadPackage, PackageExists, DatabaseTypeOK
  <2>3. prow' \in [Worker -> PackageRow]
    BY <1>4, <2>2 DEF GetReadPackage
  <2>4. QED
    BY <1>4, <2>1, <2>3 DEF GetReadPackage
<1>5. CASE GetSize(w)
  <2>1. pc' \in [Worker -> PC]
    BY <1>5, GotoTyped DEF GetSize, PC, Serving, GetPC
  <2>2. target[w] \in Sha
    BY <1>5 DEF GetSize, ServingOK, Serving, GetPC
  <2>3. PICK i \in RacingInfos(target[w]) : seen' = [seen EXCEPT ![w] = i]
    BY <1>5 DEF GetSize
  <2>4. i \in Info
    BY <2>2, <2>3, RacingInfosTyped
  <2>5. seen' \in [Worker -> Info]
    BY <2>3, <2>4
  <2>6. status' \in [Worker -> {0, 200, 401, 403, 404, 409, 500}]
    BY <1>5 DEF GetSize
  <2>7. QED
    BY <1>5, <2>1, <2>5, <2>6 DEF GetSize
<1>6. QED
  BY <1>1, <1>2, <1>3, <1>4, <1>5 DEF Get

(* The rows that a PUT builds from the entry of its hash.                  *)
LEMMA DraftRowTyped ==
    ASSUME TypeOK, NEW w \in Worker, NEW s \in Sha, NEW i \in RacingInfos(s), NEW p \in Nat
    PROVE  /\ [row[w] EXCEPT !.sha = ShaOf(s, i)] \in CacheRow
           /\ [row[w] EXCEPT !.sha = ShaOf(s, i), !.package = p] \in CacheRow
<1>1. ShaOf(s, i) \in RowSha
  BY ServerConstants DEF ShaOf
<1>2. \A r \in CacheRow, x \in RowSha, q \in Nat :
         /\ [r EXCEPT !.sha = x] \in CacheRow
         /\ [r EXCEPT !.sha = x, !.package = q] \in CacheRow
  BY DEF CacheRow
<1>3. row[w] \in CacheRow
  BY DEF TypeOK, WorkerTypeOK
<1>4. QED
  BY <1>1, <1>2, <1>3

(* The same rows, as the local variables of a thread.                      *)
LEMMA DraftTyped ==
    ASSUME TypeOK, NEW w \in Worker, NEW s \in Sha, NEW i \in RacingInfos(s)
    PROVE  /\ [row EXCEPT ![w].sha = ShaOf(s, i)] \in [Worker -> CacheRow]
           /\ [prow EXCEPT ![w].name = NameOf(i)] \in [Worker -> PackageRow]
<1>1. i \in Info
  BY RacingInfosTyped
<1>2. NameOf(i) \in PackageName
  BY <1>1, ServerConstants DEF NameOf, Info
<1>3. \A r \in PackageRow, n \in PackageName : [r EXCEPT !.name = n] \in PackageRow
  BY DEF PackageRow
<1>4. [row[w] EXCEPT !.sha = ShaOf(s, i)] \in CacheRow
  <2>1. 0 \in Nat
    OBVIOUS
  <2>2. QED
    BY <2>1, DraftRowTyped
<1>5. [prow[w] EXCEPT !.name = NameOf(i)] \in PackageRow
  <2>1. prow[w] \in PackageRow
    BY DEF TypeOK, WorkerTypeOK
  <2>2. QED
    BY <1>2, <1>3, <2>1
<1>6. QED
  BY <1>4, <1>5 DEF TypeOK, WorkerTypeOK

(* Every step of a PUT keeps the threads typed.                            *)
LEMMA PutTyped ==
    ASSUME TypeOK, NEW w \in Worker, Put(w)
    PROVE  WorkerTypeOK'
<1> USE DEF TypeOK, WorkerTypeOK
<1>0. target[w] \in Sha
  BY DEF ServingOK, Serving, WriterPC, RecordPC, Put, PutReceive, PutExtract,
     PutExtractThrows, PutAssign, PutPublish, PutInfo, PutInfoMisses, PutInfoDisk,
     PutUnrecorded, PutFindPackage, PutMissPackage, PutAddPackage, PutPackageId,
     PutAddCache
<1>1. CASE \/ PutReceive(w) \/ PutExtractThrows(w) \/ PutAssign(w) \/ PutPublish(w)
           \/ PutInfo(w) \/ PutInfoMisses(w) \/ PutInfoDisk(w) \/ PutAddPackage(w)
  <2>1. UNCHANGED requestVars
    BY <1>1 DEF PutReceive, PutExtractThrows, PutAssign, PutPublish, PutInfo,
         PutInfoMisses, PutInfoDisk, PutAddPackage
  <2>2. pc' \in [Worker -> PC]
    BY <1>1, GotoTyped DEF PutReceive, PutExtractThrows, PutAssign, PutPublish, PutInfo,
         PutInfoMisses, PutInfoDisk, PutAddPackage, PC, Serving, WriterPC, RecordPC
  <2>3. QED
    BY <2>1, <2>2 DEF requestVars
<1>2. CASE PutExtract(w)
  <2>1. pc' \in [Worker -> PC]
    BY <1>2, GotoTyped DEF PutExtract, PC, Serving, WriterPC
  <2>2. disk[target[w]] \in Info
    BY <1>2 DEF PutExtract, Extractable, Info
  <2>3. seen' \in [Worker -> Info]
    BY <1>2, <2>2 DEF PutExtract
  <2>4. QED
    BY <1>2, <2>1, <2>3 DEF PutExtract
<1>3. CASE PutUnrecorded(w) \/ PutAddCache(w)
  BY <1>3, AnswerTyped DEF PutUnrecorded, PutAddCache
<1>4. CASE PutFindPackage(w)
  <2>1. pc' \in [Worker -> PC]
    BY <1>4, GotoTyped DEF PutFindPackage, PC, Serving, RecordPC
  <2>2. PICK i \in RacingInfos(target[w]) : \E p \in PackageIds(NameOf(i)) :
          /\ prow' = [prow EXCEPT ![w].name = NameOf(i)]
          /\ row' = [row EXCEPT ![w] = [@ EXCEPT !.sha = ShaOf(target[w], i), !.package = p]]
    BY <1>4 DEF PutFindPackage
  <2>3. PICK p \in PackageIds(NameOf(i)) :
          /\ prow' = [prow EXCEPT ![w].name = NameOf(i)]
          /\ row' = [row EXCEPT ![w] = [@ EXCEPT !.sha = ShaOf(target[w], i), !.package = p]]
    BY <2>2
  <2>4. p \in Nat
    BY <2>3, LenProperties DEF PackageIds, DatabaseTypeOK
  <2>5. [row[w] EXCEPT !.sha = ShaOf(target[w], i), !.package = p] \in CacheRow
    BY <1>0, <2>4, DraftRowTyped
  <2>6. [row EXCEPT ![w] = [@ EXCEPT !.sha = ShaOf(target[w], i), !.package = p]]
            \in [Worker -> CacheRow]
    BY <2>5
  <2>7. [prow EXCEPT ![w].name = NameOf(i)] \in [Worker -> PackageRow]
    BY <1>0, DraftTyped
  <2>8. row' \in [Worker -> CacheRow] /\ prow' \in [Worker -> PackageRow]
    BY <2>3, <2>6, <2>7
  <2>9. QED
    BY <1>4, <2>1, <2>8 DEF PutFindPackage
<1>5. CASE PutMissPackage(w)
  <2>1. pc' \in [Worker -> PC]
    BY <1>5, GotoTyped DEF PutMissPackage, PC, Serving, RecordPC
  <2>2. PICK i \in RacingInfos(target[w]) :
          /\ prow' = [prow EXCEPT ![w].name = NameOf(i)]
          /\ row' = [row EXCEPT ![w].sha = ShaOf(target[w], i)]
    BY <1>5 DEF PutMissPackage
  <2>3. /\ [row EXCEPT ![w].sha = ShaOf(target[w], i)] \in [Worker -> CacheRow]
        /\ [prow EXCEPT ![w].name = NameOf(i)] \in [Worker -> PackageRow]
    BY <1>0, DraftTyped
  <2>4. row' \in [Worker -> CacheRow] /\ prow' \in [Worker -> PackageRow]
    BY <2>2, <2>3
  <2>5. QED
    BY <1>5, <2>1, <2>4 DEF PutMissPackage
<1>6. CASE PutPackageId(w)
  <2>1. pc' \in [Worker -> PC]
    BY <1>6, GotoTyped DEF PutPackageId, PC, Serving, RecordPC
  <2>2. [row[w] EXCEPT !.package = lastId] \in CacheRow
    <3>1. \A r \in CacheRow, n \in Nat : [r EXCEPT !.package = n] \in CacheRow
      BY DEF CacheRow
    <3>2. QED
      BY <3>1 DEF DatabaseTypeOK
  <2>3. row' \in [Worker -> CacheRow]
    BY <1>6, <2>2 DEF PutPackageId
  <2>4. QED
    BY <1>6, <2>1, <2>3 DEF PutPackageId
<1>7. QED
  BY <1>1, <1>2, <1>3, <1>4, <1>5, <1>6 DEF Put

(* Every step keeps the threads typed.                                     *)
LEMMA WorkerTyped ==
    ASSUME TypeOK, [Next]_vars
    PROVE  WorkerTypeOK'
<1>1. ASSUME NEW w \in Worker, Throw(w) PROVE WorkerTypeOK'
  BY <1>1, AnswerTyped DEF Throw, TypeOK
<1>2. ASSUME NEW w \in Worker, Reply(w) PROVE WorkerTypeOK'
  <2> USE ServerConstants DEF TypeOK, WorkerTypeOK
  <2>1. pc' \in [Worker -> PC]
    BY <1>2 DEF Reply, PC
  <2>2. NoCacheRow \in CacheRow /\ NoPackageRow \in PackageRow
    BY DEF NoCacheRow, NoPackageRow, CacheRow, PackageRow
  <2>3. row' \in [Worker -> CacheRow] /\ prow' \in [Worker -> PackageRow]
    BY <1>2, <2>2 DEF Reply
  <2>4. target' \in [Worker -> Sha \cup {NoSha}] /\ seen' \in [Worker -> Info]
    BY <1>2 DEF Reply, Info
  <2>5. cid' \in [Worker -> Nat] /\ status' \in [Worker -> {0, 200, 401, 403, 404, 409, 500}]
    BY <1>2 DEF Reply
  <2>6. QED
    BY <2>1, <2>3, <2>4, <2>5
<1>3. ASSUME UNCHANGED workerVars PROVE WorkerTypeOK'
  BY <1>3 DEF TypeOK, WorkerTypeOK, workerVars, requestVars
<1>4. ASSUME MaintainBegin \/ MaintainStep \/ Environment PROVE UNCHANGED workerVars
  BY <1>4 DEF MaintainBegin, MaintainStep, MaintainMark, MaintainDryRun, MaintainCommit,
       MaintainRemove, MaintainDies, MaintainEnd, Environment
<1>5. QED
  BY <1>1, <1>2, <1>3, <1>4, RequestTyped, GetTyped, PutTyped DEF Next, Handler, vars

(* A handler keeps the hash of its request from its first call to its      *)
(* answer.                                                                 *)
LEMMA HandlerFrame ==
    ASSUME NEW w \in Worker, Get(w) \/ Put(w) \/ Throw(w)
    PROVE  /\ UNCHANGED target
           /\ pc[w] \in Serving
           /\ pc' = [pc EXCEPT ![w] = pc'[w]]
<1> USE DEF Goto, Answer, requestVars, Serving, GetPC, WriterPC, RecordPC
<1>1. CASE Get(w)
  BY <1>1 DEF Get, GetLookup, GetLog, GetReadCache, GetWriteCache, GetReadPackage,
       GetWritePackage, GetSize
<1>2. CASE Put(w)
  BY <1>2 DEF Put, PutReceive, PutExtract, PutExtractThrows, PutAssign, PutPublish,
       PutInfo, PutInfoMisses, PutInfoDisk, PutUnrecorded, PutFindPackage,
       PutMissPackage, PutAddPackage, PutPackageId, PutAddCache
<1>3. CASE Throw(w)
  BY <1>3 DEF Throw, GetThrowing, PutThrowing
<1>4. QED
  BY <1>1, <1>2, <1>3

(* A thread that serves a request has its hash.                            *)
LEMMA ServingTyped ==
    ASSUME TypeOK, [Next]_vars
    PROVE  ServingOK'
<1> USE DEF TypeOK, ServingOK, WorkerTypeOK
<1>1. ASSUME NEW w \in Worker, Get(w) \/ Put(w) \/ Throw(w) PROVE ServingOK'
  BY <1>1, HandlerFrame
<1>2. ASSUME NEW w \in Worker, Reply(w) PROVE ServingOK'
  BY <1>2 DEF Reply, Serving, GetPC, WriterPC, RecordPC
<1>3. ASSUME NEW w \in Worker, Request(w) PROVE ServingOK'
  <2>1. CASE PutRefused(w)
    BY <1>3, <2>1 DEF PutRefused, Answer, Goto, Serving, GetPC, WriterPC, RecordPC
  <2>2. PICK to \in PC : pc' = [pc EXCEPT ![w] = to]
    BY <1>3 DEF Request, PutRefused, Answer, GetOpen, GetNotFound, PutOpen, PutConflict,
         PutThrows, Accept, AnswerAtOnce, Goto, PC, Serving, GetPC, WriterPC, RecordPC
  <2>3. CASE \E s \in Sha : target' = [target EXCEPT ![w] = s]
    BY <2>2, <2>3
  <2>4. QED
    BY <1>3, <2>1, <2>3 DEF Request, GetOpen, GetNotFound, PutOpen, PutConflict,
       PutThrows, Accept, AnswerAtOnce
<1>4. ASSUME UNCHANGED workerVars PROVE ServingOK'
  BY <1>4 DEF workerVars, requestVars
<1>5. ASSUME MaintainBegin \/ MaintainStep \/ Environment PROVE UNCHANGED workerVars
  BY <1>5 DEF MaintainBegin, MaintainStep, MaintainMark, MaintainDryRun, MaintainCommit,
       MaintainRemove, MaintainDies, MaintainEnd, Environment
<1>6. QED
  BY <1>1, <1>2, <1>3, <1>4, <1>5 DEF Next, Handler, vars

(* The initial tables are sequences of rows.                               *)
LEMMA InitTyped == Init => TypeOK
<1> USE StoreConstants, ServerConstants
<1> SUFFICES ASSUME Init PROVE TypeOK
  OBVIOUS
<1>1. StoreTypeOK
  BY DEF Init, StoreTypeOK, ScannedInfos, Content, InfoState, Info, Handle, Closed
<1>2. packages \in Seq(PackageRow)
  <2>1. PICK n \in 0..MaxInitialRows :
          packages \in [1..n -> [name : Package, downloads : {0}]]
    BY DEF Init, InitialPackages
  <2>2. packages \in [1..n -> PackageRow]
    BY <2>1 DEF PackageRow
  <2>3. QED
    BY <2>2, IsASeq
<1>3. caches \in Seq(CacheRow)
  <2>1. PICK n \in 0..MaxInitialRows :
          caches \in [1..n -> [sha : Sha, package : 1..MaxInitialRows,
                               downloads : {0}, deleted : BOOLEAN]]
    BY DEF Init, InitialCaches
  <2>2. caches \in [1..n -> CacheRow]
    BY <2>1 DEF CacheRow
  <2>3. QED
    BY <2>2, IsASeq
<1>4. DatabaseTypeOK
  BY <1>2, <1>3, EmptySeq DEF Init, DatabaseTypeOK
<1>5. WorkerTypeOK
  <2>1. NoCacheRow \in CacheRow /\ NoPackageRow \in PackageRow
    BY DEF NoCacheRow, NoPackageRow, CacheRow, PackageRow
  <2>2. QED
    BY <2>1 DEF Init, WorkerTypeOK, Info, PC
<1>6. ServingOK /\ MaintenanceTypeOK
  BY EmptySeq DEF Init, ServingOK, Serving, GetPC, WriterPC, RecordPC, MaintenanceTypeOK
<1>7. QED
  BY <1>1, <1>4, <1>5, <1>6 DEF TypeOK

(* Every variable of the server keeps its type, and a thread that serves a *)
(* request has its hash, in every reachable state.                         *)
THEOREM TypeCorrect == Spec => []TypeOK
<1>1. ASSUME TypeOK, [Next]_vars PROVE TypeOK'
  BY <1>1, StoreTyped, DatabaseTyped, WorkerTyped, ServingTyped, MaintenanceTyped DEF TypeOK
<1>2. QED
  BY <1>1, InitTyped, PTL DEF Spec

=============================================================================
