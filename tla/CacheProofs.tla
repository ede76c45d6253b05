---------------------------- MODULE CacheProofs ----------------------------
(***************************************************************************)
(* What the server's clients rely on, for every set of hashes, archives    *)
(* and threads: the promise of ArchiveCache, whole downloads, rows for     *)
(* acknowledged uploads, counters within the log, harmless dry runs.       *)
(***************************************************************************)
EXTENDS UploadProofs, FiniteSetTheorems

(* What ContentOf says of a hash, by the state of its entry.               *)
LEMMA UploadingContent ==
    ASSUME NEW s \in Sha, Uploads(s) # {}
    PROVE  ContentOf(s) = "uploading"
BY DEF ContentOf

LEMMA RestingContent ==
    ASSUME NEW s \in Sha, Uploads(s) = {}
    PROVE  /\ infos[s].st \in {"Absent", "Deleted"} => ContentOf(s) = "none"
           /\ infos[s].st = "Writing" => ContentOf(s) = "broken"
           /\ infos[s].st = "Valid" /\ infos[s].info = NoInfo => ContentOf(s) = "broken"
           /\ infos[s].st = "Valid" /\ infos[s].info # NoInfo => ContentOf(s) = infos[s].info
BY DEF ContentOf, Readable

(* Nothing happens to the content of a hash that is left in peace.         *)
LEMMA CalmContent ==
    ASSUME NEW s \in Sha, Calm(s)
    PROVE  ContentOf(s)' = ContentOf(s)
BY DEF Calm, SameThreads, ContentOf, Readable

(* What one hash goes through, seen as content.                            *)
ContentStep(s) ==
    \/ ContentOf(s)' = ContentOf(s)
    \/ ContentOf(s) = "none" /\ ContentOf(s)' = "uploading"
    \/ ContentOf(s) \in {"none", "uploading"} /\ ContentOf(s)' = "broken"
    \/ ContentOf(s) \in {"none", "uploading"} /\ ContentOf(s)' \in Archive
    \/ ContentOf(s) \in Archive /\ ContentOf(s)' = "none"

LEMMA StirredContent ==
    ASSUME TypeOK, NEW s \in Sha, HashInv(s), Stirs(s)
    PROVE  ContentStep(s)
<1> USE DEF ContentStep
<1>0. infos[s].st \in InfoState /\ infos[s].info \in Info
  BY DEF TypeOK, StoreTypeOK
<1>1. CASE Begins(s)
  <2>1. Uploads(s) = {} /\ Uploads(s)' # {}
    BY <1>1, NotClaimedNoUpload DEF Begins
  <2>2. ContentOf(s)' = "uploading"
    BY <2>1 DEF ContentOf
  <2>3. ContentOf(s) = "none"
    BY <1>0, <1>1, <2>1, RestingContent DEF Begins, Claimed, InfoState
  <2>4. QED
    BY <2>2, <2>3
<1>2. CASE Noticed(s)
  <2>1. Uploads(s) = {} /\ Uploads(s)' = {}
    BY <1>2, NotClaimedNoUpload DEF Noticed, SameThreads, Claimed
  <2>2. ContentOf(s) = "none"
    BY <1>2, <2>1, RestingContent DEF Noticed
  <2>3. ContentOf(s)' \in Archive \cup {"broken"}
    BY <1>2, <2>1, StoreConstants DEF Noticed, Turns, ContentOf, Readable
  <2>4. QED
    BY <2>2, <2>3
<1>3. CASE Advances(s)
  <2>1. Uploads(s) # {} /\ Uploads(s)' # {}
    BY <1>3 DEF Advances
  <2>2. QED
    BY <2>1 DEF ContentOf
<1>4. CASE Ends(s)
  <2>1. PICK w \in Uploads(s) :
           /\ Uploads(s)' = Uploads(s) \ {w}
           /\ \/ pc[w] = "extract" /\ infos'[s] = infos[s]
              \/ pc[w] = "publish" /\ Turns(s, "Valid", infos[s].info)
    BY <1>4 DEF Ends
  <2>2. ContentOf(s) = "uploading" /\ Uploads(s)' = {}
    BY <2>1, WriterAlone, UploadingContent
  <2>3. CASE pc[w] = "extract" /\ infos'[s] = infos[s]
    <3>1. infos[s].st = "Writing" \/ (infos[s].st = "Valid" /\ infos[s].info = NoInfo)
      BY <2>1, <2>3 DEF HashInv, WriterInOrder, Claimed, Readable
    <3>2. ContentOf(s)' = "broken"
      BY <2>2, <2>3, <3>1 DEF ContentOf, Readable
    <3>3. QED
      BY <2>2, <3>2
  <2>4. CASE pc[w] = "publish" /\ Turns(s, "Valid", infos[s].info)
    <3>1. infos[s].info \in Archive
      BY <2>1, <2>4 DEF HashInv, WriterInOrder
    <3>2. ContentOf(s)' \in Archive
      BY <2>2, <2>4, <3>1, StoreConstants DEF ContentOf, Turns, Readable
    <3>3. QED
      BY <2>2, <3>2
  <2>5. QED
    BY <2>1, <2>3, <2>4
<1>5. CASE Evicted(s)
  <2>1. infos[s].info # NoInfo /\ infos[s].st = "Valid" /\ Uploads(s) = {}
    BY <1>5 DEF Evicted, HashInv, Named, Settled, PastUpload, Readable
  <2>2. ContentOf(s) \in Archive
    BY <1>0, <2>1, RestingContent DEF Info
  <2>3. ContentOf(s)' = "none"
    BY <1>5, <2>1 DEF Evicted, SameThreads, Turns, ContentOf
  <2>4. QED
    BY <2>2, <2>3
<1>6. CASE Arrives(s)
  BY <1>6 DEF Arrives, SameThreads, ContentOf, Readable
<1>7. QED
  BY <1>1, <1>2, <1>3, <1>4, <1>5, <1>6 DEF Stirs

----------------------------------------------------------------------------
(* The refinement.                                                         *)

LEMMA CacheInit == Init => Cache!Init
<1> SUFFICES ASSUME Init PROVE Cache!Init
  OBVIOUS
<1> SUFFICES ASSUME NEW s \in Sha PROVE ContentOf(s) \in Archive \cup {"none"}
  BY DEF Cache!Init
<1>1. Uploads(s) = {}
  BY DEF Init, Uploads, WriterPC
<1>2. infos[s] = IF disk[s] \in Archive THEN [st |-> "Valid", info |-> disk[s]]
                                        ELSE [st |-> "Absent", info |-> NoInfo]
  BY DEF Init, ScannedInfos
<1>3. QED
  BY <1>1, <1>2, StoreConstants DEF ContentOf, Readable

LEMMA CacheStep ==
    ASSUME UploadInv, [Next]_vars
    PROVE  [Cache!Next]_[s \in Sha |-> ContentOf(s)]
<1> DEFINE content == [s \in Sha |-> ContentOf(s)]
<1>1. OneHashStep
  BY HashStep DEF UploadInv
<1>2. CASE AllCalm
  <2>1. \A s \in Sha : ContentOf(s)' = ContentOf(s)
    BY <1>2, CalmContent DEF AllCalm
  <2>2. QED
    BY <2>1
<1>3. ASSUME NEW r \in Sha, OnlyStirs(r) PROVE [Cache!Next]_content
  <2>1. \A s \in Sha : s # r => ContentOf(s)' = ContentOf(s)
    BY <1>3, CalmContent DEF OnlyStirs
  <2>2. ContentStep(r)
    BY <1>3, StirredContent DEF OnlyStirs, UploadInv
  <2>3. content' = [content EXCEPT ![r] = ContentOf(r)'] /\ content[r] = ContentOf(r)
    BY <2>1
  <2>4. CASE ContentOf(r)' = ContentOf(r)
    BY <2>1, <2>4
  <2>5. CASE ContentOf(r) = "none" /\ ContentOf(r)' = "uploading"
    BY <2>3, <2>5 DEF Cache!Next, Cache!Upload, Cache!Become
  <2>6. CASE ContentOf(r) \in {"none", "uploading"} /\ ContentOf(r)' = "broken"
    BY <2>3, <2>6 DEF Cache!Next, Cache!Fail, Cache!Become
  <2>7. CASE ContentOf(r) \in {"none", "uploading"} /\ ContentOf(r)' \in Archive
    BY <2>3, <2>7 DEF Cache!Next, Cache!Complete, Cache!Discover, Cache!Become
  <2>8. CASE ContentOf(r) \in Archive /\ ContentOf(r)' = "none"
    BY <2>3, <2>8 DEF Cache!Next, Cache!Evict, Cache!Become
  <2>9. QED
    BY <2>2, <2>4, <2>5, <2>6, <2>7, <2>8 DEF ContentStep
<1>4. QED
  BY <1>1, <1>2, <1>3 DEF OneHashStep

(* The server keeps the promise of ArchiveCache: uploads exclude each      *)
(* other, an archive appears whole and stays as it is until maintenance    *)
(* evicts it, and an upload that failed never turns into an archive.       *)
THEOREM ServerImplementsCache == Spec => ImplementsCache
<1>1. QED
  BY CacheInit, CacheStep, UploadInvariant, PTL DEF Spec, ImplementsCache, Cache!Spec

----------------------------------------------------------------------------
(* Downloads: the file behind a reader's stream.                           *)

(* The file of s is written by nobody until it is unlinked: its archive is *)
(* published, or about to be.                                              *)
Firm(s) ==
    /\ Readable(s)
    /\ infos[s].info # NoInfo \/ \E v \in Uploads(s) : pc[v] = "assign"

(* A download reads a whole file, and one that is firm if it can be        *)
(* reached by its name.                                                    *)
ReaderInOrder(w) ==
    pc[w] \in GetPC =>
        /\ handle[w].file # Partial
        /\ \A s \in Sha : handle[w].path = s => Firm(s)

StreamInv == ~DiskFaults => \A w \in Worker : ReaderInOrder(w)

LEMMA FirmKept ==
    ASSUME NEW s \in Sha, HashInv(s), Firm(s), Calm(s) \/ Stirs(s)
    PROVE  Firm(s)' \/ Evicted(s)
<1> USE StoreConstants DEF Firm, Readable, SameThreads, Turns
<1>1. CASE Calm(s) \/ Arrives(s)
  BY <1>1 DEF Calm, Arrives
<1>2. CASE Begins(s) \/ Noticed(s)
  BY <1>2 DEF Begins, Noticed, Claimed
<1>3. CASE Advances(s)
  <2>1. PICK w \in Uploads(s) :
           \/ pc[w] \in {"receive", "extract"}
           \/ pc[w] = "assign" /\ Turns(s, infos[s].st, seen[w])
    BY <1>3 DEF Advances
  <2>2. Uploads(s) = {w}
    BY WriterAlone
  <2>3. pc[w] \notin {"receive", "extract"}
    BY <2>2 DEF HashInv, WriterInOrder
  <2>4. seen[w] \in Archive
    BY <2>1, <2>3 DEF HashInv, WriterInOrder
  <2>5. QED
    BY <2>1, <2>3, <2>4
<1>4. CASE Ends(s)
  <2>1. PICK w \in Uploads(s) :
           \/ pc[w] = "extract"
           \/ pc[w] = "publish" /\ Turns(s, "Valid", infos[s].info)
    BY <1>4 DEF Ends
  <2>2. Uploads(s) = {w}
    BY WriterAlone
  <2>3. pc[w] # "extract"
    BY <2>2 DEF HashInv, WriterInOrder
  <2>4. infos[s].info \in Archive
    BY <2>1, <2>3 DEF HashInv, WriterInOrder
  <2>5. QED
    BY <2>1, <2>3, <2>4
<1>5. QED
  BY <1>1, <1>2, <1>3, <1>4 DEF Stirs

(* A firm file is not the one that an upload writes.                       *)
LEMMA FirmIsNotWritten ==
    ASSUME NEW s \in Sha, HashInv(s), Firm(s)
    PROVE  Claimed(s) /\ \A v \in Uploads(s) : pc[v] # "receive"
<1>1. ASSUME NEW v \in Uploads(s), pc[v] = "receive" PROVE FALSE
  BY <1>1, WriterAlone DEF Firm, HashInv, WriterInOrder
<1>2. QED
  BY <1>1 DEF Firm, Readable, Claimed

(* What a thread that serves a GET may see of its stream in one step.      *)
Opened(w) ==
    \E s \in Sha : \E i \in RacingInfos(s) :
        /\ Readable(s) /\ Calm(s)
        /\ ~DiskFaults => handle'[w] = ReaderStream(s, i)

Written(w) ==
    \E s \in Sha : \E v \in Worker \ {w}, x \in Content :
        /\ Rewrite(v, s, x)
        /\ ~Claimed(s) \/ (v \in Uploads(s) /\ pc[v] = "receive")

ReaderStep(w) ==
    \/ handle'[w] = handle[w]
    \/ Written(w)
    \/ \E s \in Sha : Unlink(s)

LEMMA HandleStep ==
    ASSUME TypeOK, [Next]_vars, NEW w \in Worker, pc'[w] \in GetPC
    PROVE  Opened(w) \/ (pc[w] \in GetPC /\ ReaderStep(w))
<1> USE DEF TypeOK, WorkerTypeOK, StoreTypeOK, Worker
<1>1. ASSUME NEW v \in Worker, NEW s \in Sha, GetOpen(v, s)
      PROVE  Opened(w) \/ (pc[w] \in GetPC /\ ReaderStep(w))
  <2>1. PICK i \in RacingInfos(s) : Read(v, s, i)
    BY <1>1 DEF GetOpen
  <2>2. CASE v = w
    <3>1. Calm(s)
      <4>1. /\ UNCHANGED <<infos, disk>> /\ pc[v] \notin WriterPC
            /\ pc'[v] \notin WriterPC /\ pc'[v] \notin RecordPC
            /\ \A u \in Worker : u # v => pc'[u] = pc[u] /\ target'[u] = target[u]
                                          /\ seen'[u] = seen[u]
        BY <1>1, <2>1 DEF GetOpen, Accept, Goto, Read, WriterPC, RecordPC
      <4>2. QED
        BY <4>1, StoreCalm DEF AllCalm
    <3>2. ~DiskFaults => handle'[w] = ReaderStream(s, i)
      BY <2>1, <2>2 DEF Read
    <3>3. QED
      BY <2>1, <3>1, <3>2 DEF Read, Opened
  <2>3. CASE v # w
    BY <1>1, <2>1, <2>3 DEF GetOpen, Accept, Goto, Read, ReaderStep
  <2>4. QED
    BY <2>2, <2>3
<1>2. ASSUME NEW v \in Worker, NEW s \in Sha, PutOpen(v, s)
      PROVE  pc[w] \in GetPC /\ ReaderStep(w)
  <2>1. v # w /\ pc[w] \in GetPC
    BY <1>2 DEF PutOpen, Accept, Goto, GetPC
  <2>2. Rewrite(v, s, Partial) /\ ~Claimed(s)
    BY <1>2 DEF PutOpen, WriteAgain, WriteFresh, OpenForWriting, Claimed
  <2>3. QED
    BY <2>1, <2>2 DEF Content, ReaderStep, Written
<1>3. ASSUME NEW v \in Worker,
             \/ PutRefused(v)
             \/ \E s \in Sha : GetNotFound(v, s) \/ PutConflict(v, s) \/ PutThrows(v, s)
      PROVE  pc[w] \in GetPC /\ ReaderStep(w)
  <2>1. pc' = [pc EXCEPT ![v] = "done"] /\ handle' = handle
    BY <1>3 DEF PutRefused, GetNotFound, PutConflict, PutThrows, Answer, AnswerAtOnce, Goto,
       WriteConflict, WriteDiscover, WriteDiscoverThrows, WriteOpenThrows, storeVars
  <2>2. QED
    BY <2>1 DEF ReaderStep, GetPC
<1>4. ASSUME NEW v \in Worker, Get(v) \/ Throw(v)
      PROVE  pc[w] \in GetPC /\ ReaderStep(w)
  <2>1. pc' = [pc EXCEPT ![v] = pc'[v]] /\ handle' = handle
    BY <1>4, HandlerFrame DEF Get, GetLookup, GetLog, GetReadCache, GetWriteCache,
       GetReadPackage, GetWritePackage, GetSize, Throw, storeVars
  <2>2. pc[v] \in GetPC \/ pc'[v] = "done"
    BY <1>4 DEF Get, GetLookup, GetLog, GetReadCache, GetWriteCache, GetReadPackage,
       GetWritePackage, GetSize, Throw, Answer, Goto, GetPC
  <2>3. QED
    BY <2>1, <2>2 DEF ReaderStep, GetPC
<1>5. ASSUME NEW v \in Worker, Put(v)
      PROVE  pc[w] \in GetPC /\ ReaderStep(w)
  <2>1. pc' = [pc EXCEPT ![v] = pc'[v]] /\ target[v] \in Sha
    BY <1>5, HandlerFrame DEF ServingOK
  <2>2. pc'[v] \notin GetPC
    <3>1. CASE PutFindPackage(v) \/ PutMissPackage(v)
      <4>1. \E to \in {"addCache", "addPackage"} : pc' = [pc EXCEPT ![v] = to]
        BY <3>1 DEF PutFindPackage, PutMissPackage, Goto
      <4>2. QED
        BY <4>1 DEF GetPC
    <3>2. CASE \/ PutReceive(v) \/ PutExtract(v) \/ PutExtractThrows(v)
               \/ PutAssign(v) \/ PutPublish(v)
               \/ PutInfo(v) \/ PutInfoMisses(v) \/ PutInfoDisk(v) \/ PutUnrecorded(v)
               \/ PutAddPackage(v) \/ PutPackageId(v) \/ PutAddCache(v)
      BY <3>2 DEF PutReceive, PutExtract, PutExtractThrows, PutAssign, PutPublish,
         PutInfo, PutInfoMisses, PutInfoDisk, PutUnrecorded, PutAddPackage, PutPackageId,
         PutAddCache, Answer, Goto, GetPC
    <3>3. QED
      BY <1>5, <3>1, <3>2 DEF Put
  <2>3. v # w /\ pc[w] \in GetPC
    BY <2>1, <2>2
  <2>4. CASE PutReceive(v)
    <3>1. PICK x \in Bodies : WriteBody(v, target[v], x)
      BY <2>4 DEF PutReceive
    <3>2. CASE handle[v].path = target[v]
      <4>1. Rewrite(v, target[v], x) /\ x \in Content
        BY <3>1, <3>2, ServerConstants DEF WriteBody
      <4>2. v \in Uploads(target[v]) /\ pc[v] = "receive"
        BY <2>4 DEF PutReceive, Uploads, WriterPC
      <4>3. QED
        BY <2>1, <2>3, <4>1, <4>2 DEF ReaderStep, Written
    <3>3. CASE handle[v].path # target[v]
      BY <2>3, <3>1, <3>3 DEF WriteBody, ReaderStep
    <3>4. QED
      BY <3>2, <3>3
  <2>5. CASE PutExtract(v) \/ PutExtractThrows(v)
    BY <2>3, <2>5 DEF PutExtract, PutExtractThrows, Close, ReaderStep
  <2>6. CASE \/ PutAssign(v) \/ PutPublish(v)
             \/ PutInfo(v) \/ PutInfoMisses(v) \/ PutInfoDisk(v) \/ PutUnrecorded(v)
             \/ PutFindPackage(v) \/ PutMissPackage(v)
             \/ PutAddPackage(v) \/ PutPackageId(v) \/ PutAddCache(v)
    <3>1. handle' = handle
      BY <2>6 DEF PutAssign, PutPublish, AssignInfo, Publish, PutInfo, PutInfoMisses,
         PutInfoDisk, PutUnrecorded, PutFindPackage, PutMissPackage, PutAddPackage,
         PutPackageId, PutAddCache, storeVars
    <3>2. QED
      BY <2>3, <3>1 DEF ReaderStep
  <2>7. QED
    BY <1>5, <2>4, <2>5, <2>6 DEF Put
<1>6. ASSUME NEW v \in Worker, Reply(v)
      PROVE  pc[w] \in GetPC /\ ReaderStep(w)
  BY <1>6 DEF Reply, Close, ReaderStep, GetPC
<1>7. ASSUME MaintainBegin \/ MaintainStep
      PROVE  pc[w] \in GetPC /\ ReaderStep(w)
  <2>1. UNCHANGED pc
    BY <1>7 DEF MaintainBegin, MaintainStep, MaintainMark, MaintainDryRun, MaintainCommit,
       MaintainRemove, MaintainDies, MaintainEnd, workerVars
  <2>2. handle' = handle \/ \E s \in Sha : Unlink(s)
    BY <1>7 DEF MaintainBegin, MaintainStep, MaintainMark, MaintainDryRun, MaintainCommit,
       MaintainRemove, MaintainDies, MaintainEnd, Remove, RemoveSkips, RemoveThrows, storeVars
  <2>3. QED
    BY <2>1, <2>2 DEF ReaderStep
<1>8. ASSUME Environment \/ UNCHANGED vars
      PROVE  pc[w] \in GetPC /\ ReaderStep(w)
  BY <1>8 DEF Environment, ExternalAdd, vars, workerVars, storeVars, ReaderStep
<1>9. QED
  BY <1>1, <1>2, <1>3, <1>4, <1>5, <1>6, <1>7, <1>8 DEF Next, Handler, Request

(* A reader opens a whole file, and keeps it.                              *)
LEMMA StreamKept ==
    ASSUME UploadInv, StreamInv, [Next]_vars
    PROVE  StreamInv'
<1> USE DEF Worker
<1> SUFFICES ASSUME ~DiskFaults, NEW w \in Worker, pc'[w] \in GetPC
             PROVE  /\ handle'[w].file # Partial
                    /\ \A s \in Sha : handle'[w].path = s => Firm(s)'
  BY DEF StreamInv, ReaderInOrder
<1>0. TypeOK /\ \A s \in Sha : HashInv(s) /\ (Calm(s) \/ Stirs(s))
  BY EachHash DEF UploadInv
<1>1. CASE Opened(w)
  <2>1. PICK s \in Sha : \E i \in RacingInfos(s) :
           Readable(s) /\ Calm(s) /\ handle'[w] = ReaderStream(s, i)
    BY <1>1 DEF Opened
  <2>2. PICK i \in RacingInfos(s) : handle'[w] = ReaderStream(s, i)
    BY <2>1
  <2>3. CASE i = NoInfo \/ disk[s] = NoFile
    BY <2>2, <2>3, StoreConstants DEF ReaderStream, Closed
  <2>4. CASE i # NoInfo /\ disk[s] # NoFile
    <3>1. handle'[w].file = disk[s] /\ handle'[w].path = s
      BY <2>2, <2>4 DEF ReaderStream, Linked
    <3>2. disk[s] \in Archive /\ Firm(s)
      <4>1. CASE i = infos[s].info
        <5>1. i \in Info
          BY <1>0, <4>1 DEF TypeOK, StoreTypeOK
        <5>2. QED
          BY <1>0, <2>1, <2>4, <4>1, <5>1 DEF HashInv, OnDisk, Firm, Info
      <4>2. ASSUME NEW v \in Worker, pc[v] = "assign", target[v] = s
            PROVE  disk[s] \in Archive /\ Firm(s)
        <5>1. v \in Uploads(s)
          BY <4>2 DEF Uploads, WriterPC
        <5>2. QED
          BY <1>0, <2>1, <4>2, <5>1 DEF HashInv, WriterInOrder, Firm
      <4>3. QED
        BY <2>2, <4>1, <4>2 DEF RacingInfos
    <3>3. Firm(s)'
      BY <2>1, <3>2 DEF Firm, Calm, SameThreads, Readable
    <3>4. QED
      BY <3>1, <3>2, <3>3, StoreConstants
  <2>5. QED
    BY <2>3, <2>4
<1>2. CASE pc[w] \in GetPC /\ ReaderStep(w)
  <2>1. /\ handle[w].file # Partial
        /\ \A s \in Sha : handle[w].path = s => Firm(s)
    BY <1>2 DEF StreamInv, ReaderInOrder
  <2>2. handle[w] \in Handle
    BY <1>0 DEF TypeOK, StoreTypeOK
  <2>3. \/ handle'[w] = handle[w]
        \/ handle'[w].file = handle[w].file /\ handle'[w].path = NoSha
    <3>1. CASE handle'[w] = handle[w]
      BY <3>1
    <3>2. ASSUME NEW s \in Sha, Unlink(s)
          PROVE  \/ handle'[w] = handle[w]
                 \/ handle'[w].file = handle[w].file /\ handle'[w].path = NoSha
      BY <2>2, <3>2 DEF Unlink, Handle
    <3>3. ASSUME NEW s \in Sha, NEW v \in Worker \ {w}, NEW x \in Content, Rewrite(v, s, x),
                 ~Claimed(s) \/ (v \in Uploads(s) /\ pc[v] = "receive")
          PROVE  handle'[w] = handle[w]
      <4>1. handle[w].path # s
        BY <1>0, <2>1, <3>3, FirmIsNotWritten
      <4>2. QED
        BY <3>3, <4>1 DEF Rewrite
    <3>4. QED
      BY <1>2, <3>1, <3>2, <3>3 DEF ReaderStep, Written
  <2>4. ASSUME NEW s \in Sha, handle'[w] = handle[w], handle[w].path = s
        PROVE  Firm(s)'
    <3>1. Firm(s)' \/ Evicted(s)
      BY <1>0, <2>1, <2>4, FirmKept
    <3>2. ~Evicted(s)
      <4>1. ASSUME Unlink(s) PROVE handle'[w].path = NoSha
        BY <2>2, <2>4, <4>1 DEF Unlink, Handle
      <4>2. QED
        BY <2>4, <4>1, StoreConstants DEF Evicted
    <3>3. QED
      BY <3>1, <3>2
  <2>5. QED
    BY <2>1, <2>3, <2>4, StoreConstants
<1>3. QED
  BY <1>0, <1>1, <1>2, HandleStep

(* No download ever streams a file that is being written or was cut short, *)
(* whatever happens to the archive after it was opened.                    *)
THEOREM StreamsAreComplete == Spec => []StreamsComplete
<1>1. Init => StreamInv
  BY DEF Init, StreamInv, ReaderInOrder, GetPC
<1>2. StreamInv => StreamsComplete
  BY DEF StreamInv, ReaderInOrder, StreamsComplete
<1>3. QED
  BY <1>1, <1>2, StreamKept, UploadInvariant, PTL DEF Spec

----------------------------------------------------------------------------
(* Dry runs.                                                               *)

NoDryRemoval == DryRun => mpc # "remove"

LEMMA NoDryRemovalKept ==
    ASSUME TypeOK, NoDryRemoval, [Next]_vars
    PROVE  NoDryRemoval'
<1>1. ASSUME NEW w \in Worker, Request(w) \/ Handler(w) PROVE mpc' = mpc
  BY <1>1 DEF Request, PutRefused, GetOpen, GetNotFound, PutOpen, PutConflict, PutThrows,
     Handler, Get, GetLookup, GetLog, GetReadCache, GetWriteCache, GetReadPackage,
     GetWritePackage, GetSize, Put, PutReceive, PutExtract, PutExtractThrows, PutAssign,
     PutPublish, PutInfo, PutInfoMisses, PutInfoDisk, PutUnrecorded, PutFindPackage,
     PutMissPackage, PutAddPackage, PutPackageId, PutAddCache, Throw, Reply, maintenanceVars
<1>2. ASSUME MaintainBegin \/ MaintainStep PROVE NoDryRemoval'
  BY <1>2 DEF NoDryRemoval, MaintainBegin, MaintainStep, MaintainMark, MaintainDryRun,
     MaintainCommit, MaintainRemove, MaintainDies, MaintainEnd
<1>3. ASSUME Environment \/ UNCHANGED vars PROVE mpc' = mpc
  BY <1>3 DEF Environment, vars, maintenanceVars
<1>4. QED
  BY <1>1, <1>2, <1>3 DEF Next, NoDryRemoval

(* Only an eviction makes a readable archive unreadable.                   *)
LEMMA ReadableKept ==
    ASSUME NEW s \in Sha, Calm(s) \/ Stirs(s), Readable(s)
    PROVE  Readable(s)' \/ Evicted(s)
BY DEF Stirs, Calm, Begins, Noticed, Advances, Ends, Arrives, Turns, Readable, Claimed

(* A dry run marks rows and takes the marks back, and meanwhile no archive *)
(* stops being readable.                                                   *)
THEOREM DryRunsKeepArchives == Spec => DryRunKeepsArchives
<1>1. Init => NoDryRemoval
  BY DEF Init, NoDryRemoval
<1>2. ASSUME TypeOK, NoDryRemoval, [Next]_vars
      PROVE  [DryRun => \A s \in Sha : Readable(s) => Readable(s)']_vars
  BY <1>2, EachHash, ReadableKept DEF NoDryRemoval, Evicted
<1>3. QED
  BY <1>1, <1>2, NoDryRemovalKept, TypeCorrect, PTL DEF Spec, DryRunKeepsArchives

----------------------------------------------------------------------------
(* Download counters, while no dry run takes log entries back.             *)

CountPC == {"readCache", "writeCache"}

(* The threads that have logged a download of row k and not yet counted it.*)
Counting(k) == {w \in Worker : pc[w] \in CountPC /\ cid[w] = k}

(* The downloads in the log of row k that no thread is going to count.     *)
Spare(k) == Cardinality(Logged(k)) - Cardinality(Counting(k))

RowInOrder(k) == IsFiniteSet(Counting(k)) /\ caches[k].downloads <= Spare(k)

CounterInOrder(w) ==
    /\ pc[w] \in CountPC => cid[w] \in DOMAIN caches
    /\ pc[w] = "writeCache" =>
          \A k \in DOMAIN caches : cid[w] = k => row[w].downloads <= Spare(k)
    /\ pc[w] \in {"idle"} \cup WriterPC \cup RecordPC => row[w].downloads = 0

CountInv ==
    /\ \A k \in DOMAIN caches : RowInOrder(k)
    /\ \A w \in Worker : CounterInOrder(w)

(* The log of a row is finite and an entry makes it one longer.            *)
LEMMA LogGrows ==
    ASSUME TypeOK, NEW k \in Nat, NEW j \in Nat
    PROVE  /\ Cardinality(Logged(k)) \in Nat
           /\ UNCHANGED downloads => Logged(k)' = Logged(k)
           /\ downloads' = Append(downloads, j) =>
                /\ j # k => Logged(k)' = Logged(k)
                /\ j = k => Cardinality(Logged(k)') = Cardinality(Logged(k)) + 1
<1> USE DEF TypeOK, DatabaseTypeOK
<1>1. Len(downloads) \in Nat /\ DOMAIN downloads = 1..Len(downloads)
  BY LenProperties
<1>2. IsFiniteSet(Logged(k)) /\ Cardinality(Logged(k)) \in Nat
  <2>1. IsFiniteSet(1..Len(downloads))
    BY <1>1, FS_Interval
  <2>2. Logged(k) \subseteq 1..Len(downloads)
    BY <1>1 DEF Logged
  <2>3. QED
    BY <2>1, <2>2, FS_Subset, FS_CardinalityType
<1>3. ASSUME downloads' = Append(downloads, j)
      PROVE  Logged(k)' = IF j = k THEN Logged(k) \cup {Len(downloads) + 1} ELSE Logged(k)
  <2>1. /\ DOMAIN downloads' = 1..(Len(downloads) + 1)
        /\ downloads'[Len(downloads) + 1] = j
        /\ \A d \in 1..Len(downloads) : downloads'[d] = downloads[d]
    BY <1>1, <1>3, AppendProperties, LenProperties
  <2>2. QED
    BY <1>1, <2>1 DEF Logged
<1>4. Len(downloads) + 1 \notin Logged(k)
  BY <1>1 DEF Logged
<1>5. Cardinality(Logged(k) \cup {Len(downloads) + 1}) = Cardinality(Logged(k)) + 1
  BY <1>2, <1>4, FS_AddElement
<1>6. QED
  BY <1>2, <1>3, <1>5 DEF Logged

(* What a step does to the threads that count row k, and to its log.       *)
CountsFewer(k) == Counting(k)' \subseteq Counting(k) /\ Logged(k)' = Logged(k)
CountsOne(k) ==
    /\ \E w \in Counting(k) : Counting(k)' = Counting(k) \ {w}
    /\ Logged(k)' = Logged(k)
LogsOne(k) ==
    /\ \E w \in Worker : Counting(k)' = Counting(k) \cup {w}
    /\ Cardinality(Logged(k)') = Cardinality(Logged(k)) + 1

LEMMA SpareKept ==
    ASSUME TypeOK, NEW k \in Nat, IsFiniteSet(Counting(k))
    PROVE  /\ Spare(k) \in Int /\ Spare(k) <= Cardinality(Logged(k))
           /\ CountsFewer(k) \/ LogsOne(k) =>
                IsFiniteSet(Counting(k))' /\ Spare(k)' \in Int /\ Spare(k) <= Spare(k)'
           /\ CountsOne(k) =>
                IsFiniteSet(Counting(k))' /\ Spare(k)' \in Int /\ Spare(k) + 1 <= Spare(k)'
<1>1. Cardinality(Counting(k)) \in Nat /\ Cardinality(Logged(k)) \in Nat
  BY FS_CardinalityType, LogGrows
<1>2. ASSUME CountsFewer(k)
      PROVE  IsFiniteSet(Counting(k))' /\ Spare(k)' \in Int /\ Spare(k) <= Spare(k)'
  <2>1. IsFiniteSet(Counting(k)') /\ Cardinality(Counting(k)') <= Cardinality(Counting(k))
    BY <1>2, FS_Subset DEF CountsFewer
  <2>2. Cardinality(Counting(k)') \in Nat
    BY <2>1, FS_CardinalityType
  <2>3. QED
    BY <1>1, <1>2, <2>1, <2>2 DEF CountsFewer, Spare
<1>3. ASSUME LogsOne(k)
      PROVE  IsFiniteSet(Counting(k))' /\ Spare(k)' \in Int /\ Spare(k) <= Spare(k)'
  <2>1. PICK w \in Worker : Counting(k)' = Counting(k) \cup {w}
    BY <1>3 DEF LogsOne
  <2>2. /\ IsFiniteSet(Counting(k) \cup {w})
        /\ Cardinality(Counting(k) \cup {w}) <= Cardinality(Counting(k)) + 1
        /\ Cardinality(Counting(k) \cup {w}) \in Nat
    BY <1>1, FS_AddElement
  <2>3. /\ IsFiniteSet(Counting(k)')
        /\ Cardinality(Counting(k)') <= Cardinality(Counting(k)) + 1
        /\ Cardinality(Counting(k)') \in Nat
    BY <2>1, <2>2, Zenon
  <2>4. QED
    BY <1>1, <1>3, <2>3 DEF LogsOne, Spare
<1>4. ASSUME CountsOne(k)
      PROVE  IsFiniteSet(Counting(k))' /\ Spare(k)' \in Int /\ Spare(k) + 1 <= Spare(k)'
  <2>1. PICK w \in Counting(k) : Counting(k)' = Counting(k) \ {w}
    BY <1>4 DEF CountsOne
  <2>2. /\ IsFiniteSet(Counting(k) \ {w})
        /\ Cardinality(Counting(k) \ {w}) = Cardinality(Counting(k)) - 1
    BY FS_RemoveElement
  <2>3. /\ IsFiniteSet(Counting(k)')
        /\ Cardinality(Counting(k)') = Cardinality(Counting(k)) - 1
    BY <2>1, <2>2, Zenon
  <2>4. QED
    BY <1>1, <1>4, <2>3 DEF CountsOne, Spare
<1>5. QED
  BY <1>1, <1>2, <1>3, <1>4 DEF Spare

(* The other threads stay where they are with what they hold.              *)
OthersWait(w) ==
    \A v \in Worker : v # w => pc'[v] = pc[v] /\ cid'[v] = cid[v] /\ row'[v] = row[v]

(* A step that leaves the log alone, and after which its thread does not   *)
(* count; it may insert a row nobody has downloaded.                       *)
LEMMA UncountedStep ==
    ASSUME TypeOK, CountInv, UNCHANGED downloads,
           NEW w \in Worker, OthersWait(w), pc'[w] \notin CountPC,
           pc'[w] \in {"idle"} \cup WriterPC \cup RecordPC => row'[w].downloads = 0,
           \/ UNCHANGED caches
           \/ row[w].downloads = 0 /\ caches' = Append(caches, row[w])
    PROVE  CountInv'
<1> USE DEF TypeOK, DatabaseTypeOK
<1>0. DOMAIN caches \subseteq Nat /\ \A k \in DOMAIN caches : caches[k] \in CacheRow
  BY ElementOfSeq, LenProperties
<1>1. \A k \in Nat : CountsFewer(k)
  BY LogGrows DEF CountsFewer, Counting, OthersWait
<1>2. \A k \in DOMAIN caches :
         /\ IsFiniteSet(Counting(k))'
         /\ Spare(k) \in Int /\ Spare(k)' \in Int /\ Spare(k) <= Spare(k)'
  BY <1>0, <1>1, SpareKept DEF CountInv, RowInOrder
<1>3. ASSUME NEW k \in DOMAIN caches', k \notin DOMAIN caches
      PROVE  caches'[k].downloads = 0 /\ Counting(k) = {} /\ k \in Nat
  <2>1. CASE UNCHANGED caches
    BY <1>3, <2>1
  <2>2. CASE row[w].downloads = 0 /\ caches' = Append(caches, row[w])
    <3>1. row[w] \in CacheRow
      BY DEF WorkerTypeOK
    <3>2. caches'[k] = row[w] /\ k \in Nat
      BY <1>3, <2>2, <3>1, AppendProperties, LenProperties
    <3>3. QED
      BY <1>3, <2>2, <3>2 DEF CountInv, CounterInOrder, Counting
  <2>3. QED
    BY <2>1, <2>2
<1>4. ASSUME NEW k \in DOMAIN caches PROVE k \in DOMAIN caches' /\ caches'[k] = caches[k]
  <2>1. row[w] \in CacheRow
    BY DEF WorkerTypeOK
  <2>2. CASE caches' = Append(caches, row[w])
    BY <1>4, <2>1, <2>2, AppendProperties, LenProperties
  <2>3. QED
    BY <1>4, <2>2
<1>5. ASSUME NEW k \in DOMAIN caches' PROVE RowInOrder(k)'
  <2>1. CASE k \in DOMAIN caches
    BY <1>0, <1>2, <1>4, <2>1 DEF CountInv, RowInOrder, CacheRow
  <2>2. CASE k \notin DOMAIN caches
    <3>1. caches'[k].downloads = 0 /\ Counting(k) = {} /\ k \in Nat
      BY <1>3, <2>2
    <3>2. Counting(k)' = {} /\ Logged(k)' = Logged(k)
      BY <1>1, <3>1 DEF CountsFewer
    <3>3. IsFiniteSet(Counting(k)') /\ Cardinality(Counting(k)') = 0
      BY <3>2, FS_EmptySet
    <3>4. Cardinality(Logged(k)) \in Nat
      BY <3>1, LogGrows
    <3>5. QED
      BY <3>1, <3>2, <3>3, <3>4 DEF RowInOrder, Spare
  <2>3. QED
    BY <2>1, <2>2
<1>6. ASSUME NEW v \in Worker PROVE CounterInOrder(v)'
  <2>1. CASE v = w
    BY <2>1 DEF CounterInOrder, CountPC
  <2>2. CASE v # w
    <3>1. CounterInOrder(v) /\ pc'[v] = pc[v] /\ cid'[v] = cid[v] /\ row'[v] = row[v]
      BY <2>2 DEF CountInv, OthersWait
    <3>2. row[v].downloads \in Nat
      BY DEF WorkerTypeOK, CacheRow
    <3>3. pc[v] = "writeCache" => cid[v] \in DOMAIN caches
      BY <3>1 DEF CounterInOrder, CountPC
    <3>4. QED
      BY <1>2, <1>4, <3>1, <3>2, <3>3 DEF CounterInOrder
  <2>3. QED
    BY <2>1, <2>2
<1>7. QED
  BY <1>5, <1>6 DEF CountInv

(* A row has been marked, or nothing that counts has changed.              *)
LEMMA MarkedStep ==
    ASSUME TypeOK, CountInv, UNCHANGED <<downloads, workerVars>>,
           \/ UNCHANGED caches
           \/ \E j \in DOMAIN caches : caches' = [caches EXCEPT ![j].deleted = TRUE]
    PROVE  CountInv'
<1> USE DEF TypeOK, DatabaseTypeOK, workerVars, requestVars
<1>1. \A k \in Nat : Counting(k)' = Counting(k) /\ Logged(k)' = Logged(k)
  BY LogGrows DEF Counting
<1>2. \A k \in DOMAIN caches : k \in Nat /\ caches[k] \in CacheRow
  BY ElementOfSeq, LenProperties
<1>3. /\ DOMAIN caches' = DOMAIN caches
      /\ \A k \in DOMAIN caches : caches'[k].downloads = caches[k].downloads
  <2>1. \A r \in CacheRow : [r EXCEPT !.deleted = TRUE].downloads = r.downloads
    BY DEF CacheRow
  <2>2. QED
    BY <1>2, <2>1
<1>4. \A k \in DOMAIN caches : RowInOrder(k)' /\ Spare(k)' = Spare(k)
  BY <1>1, <1>2, <1>3 DEF CountInv, RowInOrder, Spare
<1>5. \A v \in Worker : CounterInOrder(v)'
  BY <1>3, <1>4 DEF CountInv, CounterInOrder
<1>6. QED
  BY <1>3, <1>4, <1>5 DEF CountInv

(* The three steps that log a download and count it.                       *)
LEMMA LogStep ==
    ASSUME TypeOK, CountInv, NEW w \in Worker, GetLog(w)
    PROVE  CountInv'
<1> USE DEF TypeOK, DatabaseTypeOK, WorkerTypeOK
<1>1. /\ UNCHANGED <<caches, cid, row>> /\ downloads' = Append(downloads, cid[w])
      /\ pc[w] = "log" /\ pc' = [pc EXCEPT ![w] = "readCache"]
      /\ cid[w] \in DOMAIN caches
    BY DEF GetLog, InsertDownload, CanInsertDownload, CacheExists, Goto, requestVars
<1>2. \A k \in DOMAIN caches : k \in Nat /\ caches[k] \in CacheRow
  BY ElementOfSeq, LenProperties
<1>3. \A k \in Nat : CountsFewer(k) \/ LogsOne(k)
  <2>1. SUFFICES ASSUME NEW k \in Nat PROVE CountsFewer(k) \/ LogsOne(k)
    OBVIOUS
  <2>2. CASE k = cid[w]
    <3>1. Counting(k)' = Counting(k) \cup {w}
      BY <1>1, <2>2 DEF Counting, CountPC
    <3>2. QED
      BY <1>1, <2>2, <3>1, LogGrows DEF LogsOne
  <2>3. CASE k # cid[w]
    <3>1. Counting(k)' = Counting(k)
      BY <1>1, <2>3 DEF Counting, CountPC
    <3>2. Logged(k)' = Logged(k)
      <4>1. cid[w] \in Nat
        OBVIOUS
      <4>2. cid[w] # k /\ downloads' = Append(downloads, cid[w])
        BY <1>1, <2>3
      <4>3. QED
        BY <4>1, <4>2, LogGrows, Zenon
    <3>3. QED
      BY <3>1, <3>2 DEF CountsFewer
  <2>4. QED
    BY <2>2, <2>3
<1>4. \A k \in DOMAIN caches :
         /\ IsFiniteSet(Counting(k))'
         /\ Spare(k) \in Int /\ Spare(k)' \in Int /\ Spare(k) <= Spare(k)'
  BY <1>2, <1>3, SpareKept DEF CountInv, RowInOrder
<1>5. \A k \in DOMAIN caches : RowInOrder(k)'
  BY <1>1, <1>2, <1>4 DEF CountInv, RowInOrder, CacheRow
<1>6. ASSUME NEW v \in Worker PROVE CounterInOrder(v)'
  <2>1. row[v].downloads \in Nat /\ CounterInOrder(v)
    BY DEF CacheRow, CountInv
  <2>2. CASE v = w
    BY <1>1, <2>2 DEF CounterInOrder, CountPC, WriterPC, RecordPC
  <2>3. CASE v # w
    BY <1>1, <1>4, <2>1, <2>3 DEF CounterInOrder
  <2>4. QED
    BY <2>2, <2>3
<1>7. QED
  BY <1>1, <1>5, <1>6 DEF CountInv

LEMMA ReadStep ==
    ASSUME TypeOK, CountInv, NEW w \in Worker, GetReadCache(w)
    PROVE  CountInv'
<1> USE DEF TypeOK, DatabaseTypeOK, WorkerTypeOK
<1>1. /\ UNCHANGED <<caches, downloads, cid>>
      /\ pc[w] = "readCache" /\ pc' = [pc EXCEPT ![w] = "writeCache"]
      /\ row' = [row EXCEPT ![w] = caches[cid[w]]]
      /\ cid[w] \in DOMAIN caches
    BY DEF GetReadCache, CacheExists, Goto, dbVars
<1>2. \A k \in DOMAIN caches : k \in Nat /\ caches[k] \in CacheRow
  BY ElementOfSeq, LenProperties
<1>3. \A k \in Nat : Counting(k)' = Counting(k) /\ Logged(k)' = Logged(k)
  BY <1>1, LogGrows DEF Counting, CountPC
<1>4. \A k \in DOMAIN caches : RowInOrder(k)' /\ Spare(k)' = Spare(k)
  BY <1>1, <1>2, <1>3 DEF CountInv, RowInOrder, Spare
<1>5. ASSUME NEW v \in Worker PROVE CounterInOrder(v)'
  <2>1. CASE v = w
    BY <1>1, <1>4, <2>1 DEF CountInv, RowInOrder, CounterInOrder, WriterPC, RecordPC
  <2>2. CASE v # w
    BY <1>1, <1>4, <2>2 DEF CountInv, CounterInOrder
  <2>3. QED
    BY <2>1, <2>2
<1>6. QED
  BY <1>1, <1>4, <1>5 DEF CountInv

LEMMA WriteStep ==
    ASSUME TypeOK, CountInv, NEW w \in Worker, GetWriteCache(w)
    PROVE  CountInv'
<1> USE DEF TypeOK, DatabaseTypeOK, WorkerTypeOK
<1>1. /\ UNCHANGED <<downloads, cid, row>>
      /\ pc[w] = "writeCache" /\ pc' = [pc EXCEPT ![w] = "readPackage"]
      /\ cid[w] \in DOMAIN caches
      /\ caches' = [caches EXCEPT ![cid[w]] = Bumped(row[w])]
    BY DEF GetWriteCache, UpdateCache, CacheExists, Goto, requestVars, CountInv,
       CounterInOrder, CountPC
<1>2. \A k \in DOMAIN caches : k \in Nat /\ caches[k] \in CacheRow
  BY ElementOfSeq, LenProperties
<1>3. \A k \in Nat : IF k = cid[w] THEN CountsOne(k) ELSE CountsFewer(k)
  <2>1. \A k \in Nat : Counting(k)' = Counting(k) \ {w} /\ Logged(k)' = Logged(k)
    BY <1>1, LogGrows DEF Counting, CountPC
  <2>2. w \in Counting(cid[w])
    BY <1>1 DEF Counting, CountPC
  <2>3. QED
    BY <2>1, <2>2 DEF CountsOne, CountsFewer
<1>4. \A k \in DOMAIN caches :
         /\ IsFiniteSet(Counting(k))'
         /\ Spare(k) \in Int /\ Spare(k)' \in Int /\ Spare(k) <= Spare(k)'
         /\ k = cid[w] => Spare(k) + 1 <= Spare(k)'
  <2>1. SUFFICES ASSUME NEW k \in DOMAIN caches
                 PROVE  /\ IsFiniteSet(Counting(k))'
                        /\ Spare(k) \in Int /\ Spare(k)' \in Int /\ Spare(k) <= Spare(k)'
                        /\ k = cid[w] => Spare(k) + 1 <= Spare(k)'
    OBVIOUS
  <2>2. k \in Nat /\ IsFiniteSet(Counting(k))
    BY <1>2 DEF CountInv, RowInOrder
  <2>3. QED
    BY <1>3, <2>2, SpareKept
<1>5. Bumped(row[w]).downloads = row[w].downloads + 1 /\ row[w].downloads \in Nat
  BY DEF Bumped, CacheRow
<1>6. row[w].downloads <= Spare(cid[w])
  BY <1>1 DEF CountInv, CounterInOrder
<1>7. ASSUME NEW k \in DOMAIN caches PROVE RowInOrder(k)'
  <2>1. CASE k = cid[w]
    BY <1>1, <1>4, <1>5, <1>6, <2>1 DEF RowInOrder
  <2>2. CASE k # cid[w]
    BY <1>1, <1>2, <1>4, <2>2 DEF CountInv, RowInOrder, CacheRow
  <2>3. QED
    BY <2>1, <2>2
<1>8. ASSUME NEW v \in Worker PROVE CounterInOrder(v)'
  <2>1. row[v].downloads \in Nat /\ CounterInOrder(v)
    BY DEF CacheRow, CountInv
  <2>2. CASE v = w
    BY <1>1, <2>2 DEF CounterInOrder, CountPC, WriterPC, RecordPC
  <2>3. CASE v # w
    BY <1>1, <1>4, <2>1, <2>3 DEF CounterInOrder
  <2>4. QED
    BY <2>2, <2>3
<1>9. QED
  BY <1>1, <1>7, <1>8 DEF CountInv

LEMMA CountKept ==
    ASSUME TypeOK, CountInv, ~DryRun, [Next]_vars
    PROVE  CountInv'
<1> USE DEF TypeOK, WorkerTypeOK
<1>1. ASSUME NEW w \in Worker, Request(w) PROVE CountInv'
  <2>1. UNCHANGED <<downloads, caches, row>> /\ OthersWait(w) /\ pc[w] = "idle"
    BY <1>1 DEF Request, PutRefused, GetOpen, GetNotFound, PutOpen, PutConflict, PutThrows,
       Accept, AnswerAtOnce, Answer, Goto, OthersWait, dbVars
  <2>2. pc'[w] \notin CountPC
    BY <1>1 DEF Request, PutRefused, GetOpen, GetNotFound, PutOpen, PutConflict, PutThrows,
       Accept, AnswerAtOnce, Answer, Goto, CountPC
  <2>3. row[w].downloads = 0
    BY <2>1 DEF CountInv, CounterInOrder
  <2>4. QED
    BY <2>1, <2>2, <2>3, UncountedStep
<1>2. ASSUME NEW w \in Worker, Get(w) \/ Throw(w) \/ Reply(w) PROVE CountInv'
  <2>1. CASE GetLog(w) \/ GetReadCache(w) \/ GetWriteCache(w)
    BY <2>1, LogStep, ReadStep, WriteStep
  <2>2. CASE \/ GetLookup(w) \/ GetReadPackage(w) \/ GetWritePackage(w) \/ GetSize(w)
             \/ Throw(w) \/ Reply(w)
    <3>1. UNCHANGED <<downloads, caches>> /\ OthersWait(w)
      BY <2>2 DEF GetLookup, GetReadPackage, GetWritePackage, GetSize, Throw, Reply, Answer,
         Goto, UpdatePackage, OthersWait, dbVars, requestVars
    <3>2. \/ pc'[w] \in {"log", "writePackage", "size", "stream", "done"}
          \/ pc'[w] = "idle" /\ row'[w] = NoCacheRow
      BY <2>2 DEF GetLookup, GetReadPackage, GetWritePackage, GetSize, Throw, Reply, Answer,
         Goto
    <3>3. /\ pc'[w] \notin CountPC
          /\ pc'[w] \in {"idle"} \cup WriterPC \cup RecordPC => row'[w].downloads = 0
      BY <3>2 DEF CountPC, WriterPC, RecordPC, NoCacheRow
    <3>4. QED
      BY <3>1, <3>3, UncountedStep
  <2>3. QED
    BY <1>2, <2>1, <2>2 DEF Get
<1>3. ASSUME NEW w \in Worker, Put(w) PROVE CountInv'
  <2>0. /\ pc[w] \in WriterPC \cup RecordPC
        /\ pc' = [pc EXCEPT ![w] = pc'[w]]
        /\ UNCHANGED <<downloads, cid>>
    BY <1>3, HandlerFrame DEF Put, PutReceive, PutExtract, PutExtractThrows, PutAssign,
       PutPublish, PutInfo, PutInfoMisses, PutInfoDisk, PutUnrecorded, PutFindPackage,
       PutMissPackage, PutAddPackage, PutPackageId, PutAddCache, Answer, InsertPackage,
       InsertCache, dbVars, requestVars, WriterPC, RecordPC
  <2>1. row[w].downloads = 0 /\ row[w] \in CacheRow
    BY <2>0 DEF CountInv, CounterInOrder
  <2>2. pc'[w] \notin CountPC
    <3>1. CASE PutFindPackage(w) \/ PutMissPackage(w)
      <4>1. \E to \in {"addCache", "addPackage"} : pc' = [pc EXCEPT ![w] = to]
        BY <3>1 DEF PutFindPackage, PutMissPackage, Goto
      <4>2. QED
        BY <4>1 DEF CountPC
    <3>2. CASE ~(PutFindPackage(w) \/ PutMissPackage(w))
      BY <1>3, <3>2 DEF Put, PutReceive, PutExtract, PutExtractThrows, PutAssign, PutPublish,
         PutInfo, PutInfoMisses, PutInfoDisk, PutUnrecorded, PutAddPackage, PutPackageId,
         PutAddCache, Goto, Answer, CountPC
    <3>3. QED
      BY <3>1, <3>2
  <2>3. \E r : r.downloads = 0 /\ row' = [row EXCEPT ![w] = r]
    <3>1. \A x, q : /\ [row[w] EXCEPT !.sha = x].downloads = 0
                   /\ [row[w] EXCEPT !.package = q].downloads = 0
                   /\ [row[w] EXCEPT !.sha = x, !.package = q].downloads = 0
      BY <2>1 DEF CacheRow
    <3>2. CASE PutFindPackage(w)
      <4>1. PICK x, q : row' = [row EXCEPT ![w] = [row[w] EXCEPT !.sha = x, !.package = q]]
        BY <3>2 DEF PutFindPackage
      <4>2. QED
        BY <3>1, <4>1
    <3>3. CASE PutMissPackage(w)
      <4>1. PICK x : row' = [row EXCEPT ![w] = [row[w] EXCEPT !.sha = x]]
        BY <3>3 DEF PutMissPackage
      <4>2. QED
        BY <3>1, <4>1
    <3>4. CASE PutPackageId(w)
      BY <3>1, <3>4 DEF PutPackageId
    <3>5. CASE ~(PutFindPackage(w) \/ PutMissPackage(w) \/ PutPackageId(w))
      <4>1. UNCHANGED row
        BY <1>3, <3>5 DEF Put, PutReceive, PutExtract, PutExtractThrows, PutAssign,
           PutPublish, PutInfo, PutInfoMisses, PutInfoDisk, PutUnrecorded, PutAddPackage,
           PutAddCache, Answer, requestVars
      <4>2. row' = [row EXCEPT ![w] = row[w]]
        BY <4>1
      <4>3. QED
        BY <2>1, <4>2
    <3>6. QED
      BY <3>2, <3>4, <3>5, <3>3
  <2>4. OthersWait(w) /\ row'[w].downloads = 0
    BY <2>0, <2>3 DEF OthersWait
  <2>5. UNCHANGED caches \/ caches' = Append(caches, row[w])
    BY <1>3 DEF Put, PutReceive, PutExtract, PutExtractThrows, PutAssign, PutPublish,
       PutInfo, PutInfoMisses, PutInfoDisk, PutUnrecorded, PutFindPackage, PutMissPackage,
       PutAddPackage, PutPackageId, PutAddCache, InsertPackage, InsertCache, dbVars
  <2>6. QED
    BY <2>0, <2>1, <2>2, <2>5, <2>4, UncountedStep
<1>4. ASSUME MaintainBegin \/ MaintainStep PROVE CountInv'
  <2>1. UNCHANGED <<downloads, workerVars>>
    BY <1>4 DEF MaintainBegin, Begin, MaintainStep, MaintainMark, MarkRowDeleted,
       MaintainDryRun, MaintainCommit, Commit, MaintainRemove, MaintainDies, MaintainEnd,
       dbVars
  <2>2. \/ UNCHANGED caches
        \/ \E j \in DOMAIN caches : caches' = [caches EXCEPT ![j].deleted = TRUE]
    BY <1>4 DEF MaintainBegin, Begin, MaintainStep, MaintainMark, MarkRowDeleted,
       MaintainDryRun, MaintainCommit, Commit, MaintainRemove, MaintainDies, MaintainEnd,
       dbVars
  <2>3. QED
    BY <2>1, <2>2, MarkedStep
<1>5. ASSUME Environment \/ UNCHANGED vars PROVE CountInv'
  BY <1>5, MarkedStep DEF Environment, vars, dbVars
<1>6. QED
  BY <1>1, <1>2, <1>3, <1>4, <1>5 DEF Next, Handler

LEMMA CountInit == Init => CountInv
<1> SUFFICES ASSUME Init PROVE CountInv
  OBVIOUS
<1>1. TypeOK
  BY InitTyped
<1>2. ASSUME NEW k \in DOMAIN caches PROVE RowInOrder(k)
  <2>1. Counting(k) = {} /\ k \in Nat
    BY <1>1, LenProperties DEF Init, Counting, CountPC, TypeOK, DatabaseTypeOK
  <2>2. IsFiniteSet(Counting(k)) /\ Cardinality(Counting(k)) = 0
    BY <2>1, FS_EmptySet
  <2>3. Cardinality(Logged(k)) \in Nat
    BY <1>1, <2>1, LogGrows
  <2>4. caches[k].downloads = 0
    BY DEF Init, InitialCaches
  <2>5. QED
    BY <2>2, <2>3, <2>4 DEF RowInOrder, Spare
<1>3. \A w \in Worker : CounterInOrder(w)
  BY DEF Init, CounterInOrder, CountPC, NoCacheRow
<1>4. QED
  BY <1>2, <1>3 DEF CountInv

(* updateLastUse writes back a row it read before: of two downloads one    *)
(* may be lost, but the counter never passes what addDownload logged.      *)
THEOREM CountersWithinLog == Spec => []CountsWithinLog
<1>1. CASE DryRun
  <2>1. CountsWithinLog
    BY <1>1 DEF CountsWithinLog
  <2>2. QED
    BY <2>1, PTL
<1>2. CASE ~DryRun
  <2>1. TypeOK /\ CountInv /\ [Next]_vars => CountInv'
    BY <1>2, CountKept
  <2>2. TypeOK /\ CountInv => CountsWithinLog
    <3> SUFFICES ASSUME TypeOK, CountInv, NEW k \in DOMAIN caches
                 PROVE  caches[k].downloads <= Cardinality(Logged(k))
      BY DEF CountsWithinLog
    <3>0. k \in Nat /\ caches[k] \in CacheRow
      BY ElementOfSeq, LenProperties DEF TypeOK, DatabaseTypeOK
    <3>1. k \in Nat /\ caches[k].downloads \in Nat
      BY <3>0 DEF CacheRow
    <3>2. IsFiniteSet(Counting(k)) /\ caches[k].downloads <= Spare(k)
      BY DEF CountInv, RowInOrder
    <3>3. Spare(k) \in Int /\ Spare(k) <= Cardinality(Logged(k)) /\ Cardinality(Logged(k)) \in Nat
      BY <3>1, <3>2, SpareKept, LogGrows
    <3>4. QED
      BY <3>1, <3>2, <3>3
  <2>3. QED
    BY <2>1, <2>2, CountInit, TypeCorrect, PTL DEF Spec
<1>3. QED
  BY <1>1, <1>2

----------------------------------------------------------------------------
(* Rows for acknowledged uploads, while no dry run takes them back.        *)

Recorded(s) == CacheIds(s) # {}

(* A hash that is written again, evicted or about to be has its row.       *)
HashRecorded(s) ==
    infos[s].st \in {"Deleted", "Writing"} \/ (\E k \in DOMAIN toDelete : toDelete[k] = s)
        => Recorded(s)

(* A GET writes back a row under the hash it has.                          *)
LocalsInOrder(w) ==
    /\ pc[w] \in {"idle", "receive", "extract"} => seen[w] = NoInfo
    /\ pc[w] = "writeCache" =>
          cid[w] \in DOMAIN caches /\ row[w].sha = caches[cid[w]].sha

(* A PUT whose archive was accepted drafts a row for its own hash; one     *)
(* that misses its entry after the upload was overtaken by a pass, which   *)
(* found a row.                                                            *)
RecordInOrder(w) ==
    /\ pc[w] = "infoDisk" => Recorded(target[w])
    /\ pc[w] \in RecordPC /\ seen[w] \in Archive => infos[target[w]].info # NoInfo
    /\ pc[w] \in {"addPackage", "packageId", "addCache"} /\ seen[w] \in Archive =>
          row[w].sha = target[w]
    /\ pc[w] = "done" /\ status[w] = 200 /\ seen[w] \in Archive => Recorded(target[w])

RecordInv ==
    ~DryRun =>
        /\ \A s \in Sha : HashRecorded(s)
        /\ \A w \in Worker : LocalsInOrder(w) /\ RecordInOrder(w)

(* Rows stay, and keep their hash.                                         *)
RowsStay ==
    \A k \in DOMAIN caches : k \in DOMAIN caches' /\ caches'[k].sha = caches[k].sha

LEMMA RowsStayThere ==
    ASSUME TypeOK, \A w \in Worker : LocalsInOrder(w), ~DryRun, [Next]_vars
    PROVE  RowsStay
<1> USE DEF TypeOK, DatabaseTypeOK, WorkerTypeOK
<1>1. \A k \in DOMAIN caches : k \in Nat /\ caches[k] \in CacheRow
  BY ElementOfSeq, LenProperties
<1>2. CASE UNCHANGED caches
  BY <1>2 DEF RowsStay
<1>3. ASSUME NEW w \in Worker, pc[w] = "writeCache", cid[w] \in DOMAIN caches,
             caches' = [caches EXCEPT ![cid[w]] = Bumped(row[w])]
      PROVE  RowsStay
  <2>1. Bumped(row[w]).sha = caches[cid[w]].sha
    BY <1>3 DEF LocalsInOrder, Bumped, CacheRow
  <2>2. QED
    BY <1>3, <2>1 DEF RowsStay
<1>4. ASSUME NEW w \in Worker, caches' = Append(caches, row[w]) PROVE RowsStay
  BY <1>4, AppendProperties, LenProperties DEF RowsStay
<1>5. ASSUME NEW j \in DOMAIN caches, caches' = [caches EXCEPT ![j].deleted = TRUE]
      PROVE  RowsStay
  <2>1. \A r \in CacheRow : [r EXCEPT !.deleted = TRUE].sha = r.sha
    BY DEF CacheRow
  <2>2. QED
    BY <1>1, <1>5, <2>1 DEF RowsStay
<1>6. QED
  BY <1>2, <1>3, <1>4, <1>5, StepRows DEF CachesStep

LEMMA RecordedStays ==
    ASSUME RowsStay, NEW s, Recorded(s)
    PROVE  Recorded(s)'
BY DEF RowsStay, Recorded, CacheIds

(* Only a pass takes an entry to "Deleted", and only from there does an    *)
(* upload take it to "Writing".                                            *)
LEMMA ClaimedAgain ==
    ASSUME TypeOK, NEW s \in Sha, Calm(s) \/ Stirs(s), infos'[s].st \in {"Deleted", "Writing"}
    PROVE  \/ infos[s].st \in {"Deleted", "Writing"}
           \/ \E k \in DOMAIN toDelete : toDelete[k] = s
<1>1. infos[s].st \in InfoState
  BY DEF TypeOK, StoreTypeOK
<1>2. CASE Calm(s) \/ Noticed(s) \/ Arrives(s) \/ Evicted(s)
  BY <1>2 DEF Calm, Noticed, Arrives, Evicted, Turns
<1>3. CASE Begins(s) \/ Advances(s) \/ Ends(s)
  BY <1>1, <1>3 DEF Begins, Advances, Ends, Turns, Claimed, InfoState
<1>4. QED
  BY <1>2, <1>3 DEF Stirs

(* A pass lists only hashes that have rows.                                *)
LEMMA HashStaysRecorded ==
    ASSUME TypeOK, RowsStay, [Next]_vars, NEW s \in Sha, HashRecorded(s)
    PROVE  HashRecorded(s)'
<1> USE DEF TypeOK, DatabaseTypeOK, MaintenanceTypeOK
<1>1. Recorded(s) => Recorded(s)'
  BY RecordedStays
<1>2. HashRecorded(s)
  OBVIOUS
<1>3. ASSUME infos'[s].st \in {"Deleted", "Writing"} PROVE Recorded(s)'
  BY <1>1, <1>2, <1>3, EachHash, ClaimedAgain DEF HashRecorded
<1>4. ASSUME NEW k \in DOMAIN toDelete', toDelete'[k] = s PROVE Recorded(s)'
  <2>1. CASE toDelete' \in {toDelete, <<>>}
    BY <1>1, <1>2, <1>4, <2>1 DEF HashRecorded
  <2>2. CASE toDelete # <<>> /\ toDelete' = Tail(toDelete)
    <3>1. k + 1 \in DOMAIN toDelete /\ toDelete'[k] = toDelete[k + 1]
      BY <1>4, <2>2, HeadTailProperties, LenProperties
    <3>2. QED
      BY <1>1, <1>2, <1>4, <3>1 DEF HashRecorded
  <2>3. ASSUME NEW j \in DOMAIN caches, toDelete' = Append(toDelete, caches[j].sha)
        PROVE  Recorded(s)'
    <3>0. caches[j] \in CacheRow
      BY ElementOfSeq, LenProperties
    <3>1. caches[j].sha \in RowSha
      BY <3>0 DEF CacheRow
    <3>2. \/ k \in DOMAIN toDelete /\ toDelete'[k] = toDelete[k]
          \/ toDelete'[k] = caches[j].sha
      BY <1>4, <2>3, <3>1, AppendProperties, LenProperties
    <3>3. QED
      BY <1>1, <1>2, <1>4, <3>2 DEF HashRecorded, Recorded, CacheIds
  <2>4. QED
    BY <2>1, <2>2, <2>3, StepRows DEF VictimsStep
<1>5. QED
  BY <1>3, <1>4 DEF HashRecorded

(* An Info, once there, is only ever replaced by another.                  *)
LEMMA InfoStays ==
    ASSUME NEW s \in Sha, HashInv(s), Calm(s) \/ Stirs(s),
           infos[s].st # "Absent", infos[s].info # NoInfo
    PROVE  infos'[s].info # NoInfo
<1>1. CASE Advances(s)
  <2>1. ASSUME NEW w \in Uploads(s), pc[w] = "assign" PROVE seen[w] # NoInfo
    BY <2>1, StoreConstants DEF HashInv, WriterInOrder
  <2>2. QED
    BY <1>1, <2>1 DEF Advances, Turns
<1>2. CASE Calm(s) \/ Noticed(s) \/ Arrives(s) \/ Evicted(s) \/ Begins(s) \/ Ends(s)
  BY <1>2 DEF Calm, Noticed, Arrives, Evicted, Begins, Ends, Turns
<1>3. QED
  BY <1>1, <1>2 DEF Stirs

(* A thread leaves the locals of the others alone.                         *)
LEMMA OthersUntouched ==
    ASSUME TypeOK, NEW w \in Worker, Request(w) \/ Handler(w), NEW v \in Worker \ {w}
    PROVE  /\ pc'[v] = pc[v] /\ target'[v] = target[v] /\ seen'[v] = seen[v]
           /\ cid'[v] = cid[v] /\ row'[v] = row[v] /\ prow'[v] = prow[v]
           /\ status'[v] = status[v]
<1> USE DEF TypeOK, WorkerTypeOK
<1>1. CASE Request(w)
  BY <1>1 DEF Request, PutRefused, GetOpen, GetNotFound, PutOpen, PutConflict, PutThrows,
     Accept, AnswerAtOnce, Answer, Goto
<1>2. CASE Get(w) \/ Throw(w) \/ Reply(w)
  BY <1>2 DEF Get, GetLookup, GetLog, GetReadCache, GetWriteCache, GetReadPackage,
     GetWritePackage, GetSize, Throw, Reply, Answer, Goto, requestVars
<1>3. CASE PutFindPackage(w) \/ PutMissPackage(w)
  <2>1. /\ \E r : row' = [row EXCEPT ![w] = r]
        /\ UNCHANGED <<target, seen, cid, status>>
    BY <1>3 DEF PutFindPackage, PutMissPackage
  <2>2. \E to : pc' = [pc EXCEPT ![w] = to]
    BY <1>3 DEF PutFindPackage, PutMissPackage, Goto
  <2>3. \E r : prow' = [prow EXCEPT ![w] = r]
    BY <1>3 DEF PutFindPackage, PutMissPackage
  <2>4. QED
    BY <2>1, <2>2, <2>3
<1>4. CASE Put(w) /\ ~(PutFindPackage(w) \/ PutMissPackage(w))
  BY <1>4 DEF Put, PutReceive, PutExtract, PutExtractThrows, PutAssign, PutPublish,
     PutInfo, PutInfoMisses, PutInfoDisk, PutUnrecorded, PutAddPackage, PutPackageId,
     PutAddCache, Goto, Answer, requestVars
<1>5. QED
  BY <1>1, <1>2, <1>3, <1>4 DEF Handler

(* A thread that does nothing, while another step is taken.                *)
Waits(v) ==
    /\ pc'[v] = pc[v] /\ target'[v] = target[v] /\ seen'[v] = seen[v]
    /\ cid'[v] = cid[v] /\ row'[v] = row[v] /\ status'[v] = status[v]

LEMMA OneGoesOn ==
    ASSUME TypeOK, [Next]_vars, NEW v \in Worker
    PROVE  Waits(v) \/ Request(v) \/ Handler(v)
<1>1. ASSUME NEW w \in Worker, Request(w) \/ Handler(w), w # v PROVE Waits(v)
  BY <1>1, OthersUntouched DEF Waits
<1>2. CASE MaintainBegin \/ MaintainStep \/ Environment \/ UNCHANGED vars
  BY <1>2 DEF MaintainBegin, MaintainStep, MaintainMark, MaintainDryRun, MaintainCommit,
     MaintainRemove, MaintainDies, MaintainEnd, Environment, vars, workerVars, requestVars,
     Waits
<1>3. QED
  BY <1>1, <1>2 DEF Next

LEMMA WaitingLocals ==
    ASSUME TypeOK, RowsStay, NEW v \in Worker, LocalsInOrder(v), Waits(v)
    PROVE  LocalsInOrder(v)'
  BY DEF LocalsInOrder, Waits, RowsStay

LEMMA WaitingInOrder ==
    ASSUME TypeOK, RowsStay, [Next]_vars, NEW v \in Worker, RecordInOrder(v), Waits(v),
           target[v] \in Sha => HashInv(target[v])
    PROVE  RecordInOrder(v)'
<1>1. ASSUME NEW s, Recorded(s) PROVE Recorded(s)'
  BY <1>1, RecordedStays
<1>2. ASSUME pc[v] \in RecordPC, infos[target[v]].info # NoInfo
      PROVE  infos'[target[v]].info # NoInfo
  <2>1. target[v] \in Sha /\ v \in Recorders(target[v])
    BY <1>2 DEF TypeOK, ServingOK, Serving, Recorders
  <2>2. HashInv(target[v]) /\ infos[target[v]].st # "Absent"
    BY <2>1 DEF HashInv, PastUpload
  <2>3. QED
    BY <1>2, <2>1, <2>2, EachHash, InfoStays
<1>3. QED
  BY <1>1, <1>2 DEF Waits, RecordInOrder, Recorded, CacheIds

(* A PUT goes on.                                                          *)
LEMMA PutInOrder ==
    ASSUME TypeOK, NEW w \in Worker, Put(w), LocalsInOrder(w), RecordInOrder(w),
           target[w] \in Sha => HashInv(target[w]) /\ HashRecorded(target[w])
    PROVE  RecordInOrder(w)'
<1> DEFINE s == target[w]
<1> USE DEF TypeOK, WorkerTypeOK
<1>0. /\ TypeOK /\ RecordInOrder(w) /\ [Next]_vars
      /\ UNCHANGED target /\ s \in Sha /\ HashInv(s) /\ HashRecorded(s)
  <2>1. pc[w] \in Serving /\ UNCHANGED target
    BY HandlerFrame
  <2>2. QED
    BY <2>1 DEF ServingOK, Next, Handler
<1>1. ASSUME pc[w] \in RecordPC PROVE infos[s].st # "Absent"
  BY <1>0, <1>1 DEF HashInv, PastUpload, Recorders
<1>2. ASSUME pc[w] \in RecordPC, seen[w] \in Archive
      PROVE  infos[s].info # NoInfo /\ infos'[s].info # NoInfo
  BY <1>0, <1>1, <1>2, EachHash, InfoStays DEF RecordInOrder
<1>3. CASE PutReceive(w) \/ PutExtract(w) \/ PutAssign(w)
  BY <1>0, <1>3 DEF PutReceive, PutExtract, PutAssign, Goto, requestVars, RecordInOrder,
     RecordPC
<1>4. CASE PutExtractThrows(w)
  BY <1>0, <1>4, StoreConstants DEF PutExtractThrows, Goto, requestVars, LocalsInOrder,
     RecordInOrder, RecordPC
<1>5. CASE PutPublish(w)
  <2>1. w \in Uploads(s) /\ pc[w] = "publish"
    BY <1>5 DEF PutPublish, Uploads, WriterPC
  <2>2. infos[s].info \in Archive
    BY <1>0, <2>1 DEF HashInv, WriterInOrder
  <2>3. infos'[s].info # NoInfo
    BY <1>0, <1>5, <2>2, StoreConstants DEF PutPublish, Publish, StoreTypeOK
  <2>4. QED
    BY <1>0, <1>5, <2>3 DEF PutPublish, Goto, requestVars, RecordInOrder
<1>6. CASE PutInfo(w) \/ PutInfoDisk(w)
  <2>1. pc[w] \in RecordPC /\ UNCHANGED seen /\ pc'[w] = "package"
    BY <1>0, <1>6 DEF PutInfo, PutInfoDisk, Goto, requestVars, RecordPC
  <2>2. QED
    BY <1>0, <1>2, <2>1 DEF RecordInOrder
<1>7. CASE PutInfoMisses(w)
  <2>1. pc[w] = "info" /\ ~Readable(s) /\ pc'[w] = "infoDisk" /\ UNCHANGED <<seen, caches>>
    BY <1>0, <1>7 DEF PutInfoMisses, Goto, requestVars, dbVars
  <2>2. infos[s].st \in {"Deleted", "Writing"}
    BY <1>0, <1>1, <2>1 DEF StoreTypeOK, InfoState, Readable, RecordPC
  <2>3. Recorded(s)'
    BY <1>0, <2>1, <2>2 DEF HashRecorded, Recorded, CacheIds
  <2>4. QED
    BY <1>0, <1>2, <2>1, <2>3 DEF RecordInOrder, RecordPC
<1>8. CASE PutUnrecorded(w)
  BY <1>0, <1>8 DEF PutUnrecorded, Answer, Goto, dbVars, RecordInOrder, RecordPC, Recorded,
     CacheIds
<1>9. CASE PutFindPackage(w) \/ PutMissPackage(w)
  <2>1. /\ pc[w] \in RecordPC /\ UNCHANGED seen
        /\ \E to \in {"addCache", "addPackage"} : pc' = [pc EXCEPT ![w] = to]
    BY <1>9 DEF PutFindPackage, PutMissPackage, Goto, RecordPC
  <2>2. ASSUME seen[w] \in Archive PROVE row'[w].sha = s
    <3>1. \A i \in RacingInfos(s) : i # NoInfo
      <4>1. \A v \in Worker : pc[v] = "assign" /\ target[v] = s => seen[v] \in Archive
        BY <1>0 DEF HashInv, WriterInOrder, Uploads, WriterPC
      <4>2. QED
        BY <1>2, <2>1, <2>2, <4>1, StoreConstants DEF RacingInfos
    <3>2. \A x, q : /\ [row[w] EXCEPT !.sha = x].sha = x
                   /\ [row[w] EXCEPT !.sha = x, !.package = q].sha = x
      <4>1. row[w] \in CacheRow
        BY <1>0
      <4>2. QED
        BY <4>1 DEF CacheRow
    <3>3. CASE PutFindPackage(w)
      <4>1. PICK i \in RacingInfos(s) : \E q :
              row' = [row EXCEPT ![w] = [row[w] EXCEPT !.sha = ShaOf(s, i), !.package = q]]
        BY <3>3 DEF PutFindPackage
      <4>2. QED
        BY <1>0, <3>1, <3>2, <4>1 DEF ShaOf
    <3>4. CASE PutMissPackage(w)
      <4>1. PICK i \in RacingInfos(s) :
              row' = [row EXCEPT ![w] = [row[w] EXCEPT !.sha = ShaOf(s, i)]]
        BY <3>4 DEF PutMissPackage
      <4>2. QED
        BY <1>0, <3>1, <3>2, <4>1 DEF ShaOf
    <3>5. QED
      BY <1>9, <3>3, <3>4
  <2>3. QED
    BY <1>0, <1>2, <2>1, <2>2 DEF RecordInOrder
<1>10. CASE PutAddPackage(w) \/ PutPackageId(w)
  <2>1. /\ pc[w] \in {"addPackage", "packageId"} /\ UNCHANGED seen
        /\ \E to \in {"packageId", "addCache"} : pc' = [pc EXCEPT ![w] = to]
    BY <1>10 DEF PutAddPackage, PutPackageId, Goto, requestVars
  <2>2. row'[w].sha = row[w].sha
    <3>1. \A q : [row[w] EXCEPT !.package = q].sha = row[w].sha
      <4>1. row[w] \in CacheRow
        BY <1>0
      <4>2. QED
        BY <4>1 DEF CacheRow
    <3>2. CASE PutAddPackage(w)
      BY <3>2 DEF PutAddPackage, requestVars
    <3>3. CASE PutPackageId(w)
      <4>1. row' = [row EXCEPT ![w] = [row[w] EXCEPT !.package = lastId]]
        BY <3>3 DEF PutPackageId
      <4>2. QED
        BY <1>0, <3>1, <4>1
    <3>4. QED
      BY <1>10, <3>2, <3>3
  <2>3. QED
    BY <1>0, <1>2, <2>1, <2>2 DEF RecordInOrder, RecordPC
<1>11. CASE PutAddCache(w)
  <2>1. /\ pc[w] = "addCache" /\ pc'[w] = "done" /\ UNCHANGED seen
        /\ caches' = Append(caches, row[w])
    BY <1>0, <1>11 DEF PutAddCache, Answer, Goto, InsertCache
  <2>2. ASSUME seen[w] \in Archive PROVE Recorded(s)'
    <3>1. row[w].sha = s
      BY <1>0, <2>1, <2>2 DEF RecordInOrder
    <3>2. Len(caches) + 1 \in DOMAIN caches' /\ caches'[Len(caches) + 1] = row[w]
      <4>1. row[w] \in CacheRow /\ caches \in Seq(CacheRow)
        BY DEF DatabaseTypeOK
      <4>2. QED
        BY <2>1, <4>1, AppendProperties, LenProperties
    <3>3. QED
      BY <1>0, <3>1, <3>2 DEF Recorded, CacheIds
  <2>3. QED
    BY <1>0, <2>1, <2>2 DEF RecordInOrder, RecordPC
<1>12. QED
  BY <1>3, <1>4, <1>5, <1>6, <1>7, <1>8, <1>9, <1>10, <1>11 DEF Put

(* It has seen no Info before its stream is closed.                        *)
LEMMA PutLocals ==
    ASSUME TypeOK, NEW w \in Worker, Put(w), LocalsInOrder(w)
    PROVE  LocalsInOrder(w)'
<1> USE DEF TypeOK, WorkerTypeOK
<1>1. CASE PutReceive(w)
  BY <1>1 DEF PutReceive, Goto, requestVars, LocalsInOrder
<1>2. CASE ~PutReceive(w)
  <2>1. \E to \in {"assign", "done"} \cup RecordPC \cup {"publish"} : pc' = [pc EXCEPT ![w] = to]
    <3>1. CASE PutFindPackage(w) \/ PutMissPackage(w)
      BY <3>1 DEF PutFindPackage, PutMissPackage, Goto, RecordPC
    <3>2. CASE ~(PutFindPackage(w) \/ PutMissPackage(w))
      BY <1>2, <3>2 DEF Put, PutExtract, PutExtractThrows, PutAssign, PutPublish, PutInfo,
         PutInfoMisses, PutInfoDisk, PutUnrecorded, PutAddPackage, PutPackageId,
         PutAddCache, Goto, Answer, RecordPC
    <3>3. QED
      BY <3>1, <3>2
  <2>2. QED
    BY <2>1 DEF LocalsInOrder, WriterPC, RecordPC
<1>3. QED
  BY <1>1, <1>2

(* A GET copies the row that it later writes back, and drafts none.        *)
LEMMA GetInOrder ==
    ASSUME TypeOK, NEW w \in Worker, Get(w)
    PROVE  LocalsInOrder(w)' /\ RecordInOrder(w)'
<1> USE DEF TypeOK, WorkerTypeOK
<1>1. CASE GetReadCache(w)
  <2>1. /\ pc'[w] = "writeCache" /\ row'[w] = caches[cid[w]] /\ cid[w] \in DOMAIN caches
        /\ UNCHANGED <<caches, cid>>
    BY <1>1 DEF GetReadCache, Goto, CacheExists, dbVars
  <2>2. QED
    BY <2>1 DEF LocalsInOrder, RecordInOrder, RecordPC
<1>2. CASE ~GetReadCache(w)
  <2>1. pc'[w] \in {"log", "readCache", "readPackage", "writePackage", "size", "stream"}
    BY <1>2 DEF Get, GetLookup, GetLog, GetWriteCache, GetReadPackage, GetWritePackage,
       GetSize, Goto
  <2>2. QED
    BY <2>1 DEF LocalsInOrder, RecordInOrder, RecordPC
<1>3. QED
  BY <1>1, <1>2

(* A request is accepted, answered at once, given up or done.              *)
LEMMA FreshInOrder ==
    ASSUME TypeOK, NEW w \in Worker, LocalsInOrder(w), Request(w) \/ Throw(w) \/ Reply(w)
    PROVE  LocalsInOrder(w)' /\ RecordInOrder(w)'
<1> USE DEF TypeOK, WorkerTypeOK
<1>1. CASE Request(w)
  <2>1. /\ pc[w] = "idle" /\ seen'[w] = seen[w]
        /\ \/ pc'[w] \in {"lookup", "receive"}
           \/ pc'[w] = "done" /\ status'[w] # 200
    BY <1>1 DEF Request, PutRefused, GetOpen, GetNotFound, PutOpen, PutConflict, PutThrows,
       Accept, AnswerAtOnce, Answer, Goto
  <2>2. QED
    BY <2>1, StoreConstants DEF LocalsInOrder, RecordInOrder, RecordPC
<1>2. CASE Throw(w) \/ Reply(w)
  <2>1. \/ pc'[w] = "done" /\ status'[w] = 500
        \/ pc'[w] = "idle" /\ seen'[w] = NoInfo
    BY <1>2 DEF Throw, Reply, Answer, Goto
  <2>2. QED
    BY <2>1 DEF LocalsInOrder, RecordInOrder, RecordPC
<1>3. QED
  BY <1>1, <1>2

(* So the locals of every thread stay in order, whatever it serves ...     *)
LEMMA LocalsKept ==
    ASSUME TypeOK, \A w \in Worker : LocalsInOrder(w), ~DryRun, [Next]_vars,
           NEW v \in Worker
    PROVE  LocalsInOrder(v)'
<1>1. RowsStay
  BY RowsStayThere
<1>2. QED
  BY <1>1, OneGoesOn, WaitingLocals, PutLocals, GetInOrder, FreshInOrder DEF Handler

(* ... and its record too, if the hash that it serves is in order.         *)
LEMMA RecordInOrderKept ==
    ASSUME TypeOK, RowsStay, [Next]_vars, NEW v \in Worker, LocalsInOrder(v), RecordInOrder(v),
           target[v] \in Sha => HashInv(target[v]) /\ HashRecorded(target[v])
    PROVE  RecordInOrder(v)'
  BY OneGoesOn, WaitingInOrder, PutInOrder, GetInOrder, FreshInOrder DEF Handler

LEMMA RecordKept ==
    ASSUME UploadInv, RecordInv, ~DryRun, [Next]_vars
    PROVE  RecordInv'
<1> USE DEF UploadInv, RecordInv
<1>1. RowsStay
  BY RowsStayThere
<1>2. QED
  BY <1>1, HashStaysRecorded, LocalsKept, RecordInOrderKept

LEMMA RecordInvariant == Spec => []RecordInv
<1>1. Init => RecordInv
  BY StoreConstants DEF Init, ScannedInfos, RecordInv, HashRecorded, LocalsInOrder, RecordInOrder,
     RecordPC
<1>2. UploadInv /\ RecordInv /\ [Next]_vars => RecordInv'
  BY RecordKept DEF RecordInv
<1>3. QED
  BY <1>1, <1>2, UploadInvariant, PTL DEF Spec

(* A PUT that was answered 200 for a well-formed archive has left a row,   *)
(* although Store::info and the insert run outside the store's lock.       *)
THEOREM AcknowledgedAreRecorded == Spec => []AcknowledgedIsRecorded
<1>1. RecordInv => AcknowledgedIsRecorded
  BY DEF RecordInv, RecordInOrder, Recorded, AcknowledgedIsRecorded
<1>2. QED
  BY <1>1, RecordInvariant, PTL

=============================================================================
