--------------------------- MODULE UploadProofs ---------------------------
(***************************************************************************)
(* One upload at a time, and never one whose hash has a live row: UploadInv*)
(* is inductive, for every set of hashes, archives and threads, with and   *)
(* without dry runs and file-system faults.                                *)
(***************************************************************************)
EXTENDS CacheServerProofs

(***************************************************************************)
(* What a step may do to one hash: its entry, its file, and the threads    *)
(* that upload or record it.                                               *)
(***************************************************************************)

(* The threads of s stay as they are, or stop recording it.                *)
SameThreads(s) ==
    /\ Uploads(s)' = Uploads(s)
    /\ \A v \in Uploads(s) : pc'[v] = pc[v] /\ seen'[v] = seen[v]
    /\ Recorders(s)' \subseteq Recorders(s)

(* The entry of s gets this state and this Info.                           *)
Turns(s, st, i) == infos'[s].st = st /\ infos'[s].info = i

Calm(s) == infos'[s] = infos[s] /\ disk'[s] = disk[s] /\ SameThreads(s)

(* A PUT gets a StoreWriter.                                               *)
Begins(s) ==
    /\ ~Claimed(s)
    /\ \E w \in Worker : Uploads(s)' = Uploads(s) \cup {w} /\ pc'[w] = "receive"
    /\ Recorders(s)' \subseteq Recorders(s)
    /\ IF infos[s].st = "Absent"
       THEN Turns(s, "Valid", NoInfo)
       ELSE Turns(s, "Writing", infos[s].info)

(* A PUT finds a file without an entry, or cannot open one.                *)
Noticed(s) ==
    /\ SameThreads(s) /\ disk'[s] = disk[s]
    /\ \/ /\ infos[s].st = "Absent"
          /\ \/ Turns(s, "Valid", NoInfo)
             \/ disk[s] \in Archive /\ Turns(s, "Valid", disk[s])
       \/ infos[s].st = "Deleted" /\ Turns(s, "Writing", infos[s].info)

(* The upload goes on.                                                     *)
Advances(s) ==
    /\ Uploads(s)' = Uploads(s) /\ Recorders(s)' \subseteq Recorders(s)
    /\ \E w \in Uploads(s) :
        \/ pc[w] = "receive" /\ pc'[w] = "extract" /\ infos'[s] = infos[s]
        \/ /\ pc[w] = "extract" /\ pc'[w] = "assign"
           /\ disk[s] \in Archive /\ seen'[w] = disk[s]
           /\ infos'[s] = infos[s] /\ disk'[s] = disk[s]
        \/ /\ pc[w] = "assign" /\ pc'[w] = "publish" /\ seen'[w] = seen[w]
           /\ Turns(s, infos[s].st, seen[w]) /\ disk'[s] = disk[s]

(* The upload ends, with an archive or without, and its PUT records it.    *)
Ends(s) ==
    /\ disk'[s] = disk[s]
    /\ \E w \in Uploads(s) :
        /\ Uploads(s)' = Uploads(s) \ {w}
        /\ Recorders(s)' \subseteq Recorders(s) \cup {w}
        /\ \/ pc[w] = "extract" /\ infos'[s] = infos[s]
           \/ pc[w] = "publish" /\ Turns(s, "Valid", infos[s].info)

(* A pass removes the entry of a hash on its list.                         *)
Evicted(s) ==
    /\ SameThreads(s)
    /\ mpc = "remove" /\ \E k \in DOMAIN toDelete : toDelete[k] = s
    /\ Readable(s)
    /\ Turns(s, "Deleted", infos[s].info)
    /\ Unlink(s) \/ DiskFaults

(* Another process adds the file.                                          *)
Arrives(s) == SameThreads(s) /\ infos'[s] = infos[s] /\ disk[s] = NoFile

Stirs(s) ==
    Begins(s) \/ Noticed(s) \/ Advances(s) \/ Ends(s) \/ Evicted(s) \/ Arrives(s)

AllCalm == \A s \in Sha : Calm(s)
OnlyStirs(r) == Stirs(r) /\ \A s \in Sha \ {r} : Calm(s)
OneHashStep == AllCalm \/ \E r \in Sha : OnlyStirs(r)

----------------------------------------------------------------------------
(* Every step stirs at most one hash.                                      *)

(* Thread w does something for r; other threads and hashes stay.           *)
Serves(w, r) ==
    /\ \A v \in Worker : v # w => /\ pc'[v] = pc[v] /\ target'[v] = target[v]
                                  /\ seen'[v] = seen[v]
    /\ pc[w] = "idle" \/ target[w] = r
    /\ target'[w] = r
    /\ \A s \in Sha : s # r => infos'[s] = infos[s] /\ disk'[s] = disk[s]

LEMMA OthersCalm ==
    ASSUME TypeOK, NEW w \in Worker, NEW r \in Sha, Serves(w, r)
    PROVE  \A s \in Sha \ {r} : Calm(s)
BY DEF Serves, Calm, SameThreads, Uploads, Recorders, WriterPC, RecordPC

LEMMA OwnThreads ==
    ASSUME TypeOK, NEW w \in Worker, NEW r \in Sha, Serves(w, r)
    PROVE  /\ pc[w] \in WriterPC <=> w \in Uploads(r)
           /\ pc'[w] \in WriterPC => Uploads(r)' = Uploads(r) \cup {w}
           /\ pc'[w] \notin WriterPC => Uploads(r)' = Uploads(r) \ {w}
           /\ \A v \in Uploads(r) : v # w => pc'[v] = pc[v] /\ seen'[v] = seen[v]
           /\ Recorders(r)' \subseteq Recorders(r) \cup {w}
           /\ pc[w] \in RecordPC \/ pc'[w] \notin RecordPC => Recorders(r)' \subseteq Recorders(r)
<1>1. pc[w] \in WriterPC <=> w \in Uploads(r)
  BY DEF Serves, Uploads, WriterPC
<1>2. pc'[w] \in WriterPC => Uploads(r)' = Uploads(r) \cup {w}
  BY DEF Serves, Uploads
<1>3. pc'[w] \notin WriterPC => Uploads(r)' = Uploads(r) \ {w}
  BY DEF Serves, Uploads
<1>4. \A v \in Uploads(r) : v # w => pc'[v] = pc[v] /\ seen'[v] = seen[v]
  BY DEF Serves, Uploads
<1>5. Recorders(r)' \subseteq Recorders(r) \cup {w}
  BY DEF Serves, Recorders
<1>6. pc[w] \in RecordPC \/ pc'[w] \notin RecordPC => Recorders(r)' \subseteq Recorders(r)
  BY DEF Serves, Recorders, RecordPC
<1>7. QED
  BY <1>1, <1>2, <1>3, <1>4, <1>5, <1>6

(* A thread that is not uploading and does not begin to record leaves the  *)
(* threads of its hash as they are.                                        *)
LEMMA OwnThreadsSame ==
    ASSUME TypeOK, NEW w \in Worker, NEW r \in Sha, Serves(w, r),
           pc[w] \notin WriterPC, pc'[w] \notin WriterPC,
           pc[w] \in RecordPC \/ pc'[w] \notin RecordPC
    PROVE  SameThreads(r)
BY OwnThreads DEF SameThreads

LEMMA OwnUpload ==
    ASSUME TypeOK, NEW w \in Worker, NEW r \in Sha, Serves(w, r),
           pc[w] \in WriterPC, pc'[w] \in WriterPC
    PROVE  w \in Uploads(r) /\ Uploads(r)' = Uploads(r) /\ Recorders(r)' \subseteq Recorders(r)
<1>1. pc'[w] \notin RecordPC
  BY DEF WriterPC, RecordPC
<1>2. QED
  BY <1>1, OwnThreads

(* When no entry, no file and no such thread changes, all is calm.         *)
LEMMA StoreCalm ==
    ASSUME TypeOK, UNCHANGED <<infos, disk>>, NEW w \in Worker,
           \A v \in Worker : v # w => /\ pc'[v] = pc[v] /\ target'[v] = target[v]
                                      /\ seen'[v] = seen[v],
           pc[w] \notin WriterPC, pc'[w] \notin WriterPC,
           pc'[w] \in RecordPC => pc[w] \in RecordPC /\ target'[w] = target[w]
    PROVE  AllCalm
BY DEF AllCalm, Calm, SameThreads, Uploads, Recorders

LEMMA ThreadsCalm ==
    ASSUME UNCHANGED <<pc, target, seen>>
    PROVE  \A s \in Sha : SameThreads(s)
BY DEF SameThreads, Uploads, Recorders

(* What try_emplace, write and remove do to the entries.                   *)
LEMMA EmplaceStep ==
    ASSUME StoreTypeOK, NEW r \in Sha, NEW i, infos' = TryEmplace(r, i)
    PROVE  /\ \A s \in Sha : s # r => infos'[s] = infos[s]
           /\ IF infos[r].st = "Absent" THEN Turns(r, "Valid", i) ELSE infos'[r] = infos[r]
BY DEF StoreTypeOK, TryEmplace, Turns

LEMMA WritingStep ==
    ASSUME StoreTypeOK, NEW r \in Sha, infos' = MarkWriting(r)
    PROVE  /\ \A s \in Sha : s # r => infos'[s] = infos[s]
           /\ Turns(r, "Writing", infos[r].info)
BY DEF StoreTypeOK, MarkWriting, Turns

LEMMA DeletedStep ==
    ASSUME StoreTypeOK, NEW r \in Sha, infos' = MarkDeleted(r)
    PROVE  /\ \A s \in Sha : s # r => infos'[s] = infos[s]
           /\ Turns(r, "Deleted", infos[r].info)
BY DEF StoreTypeOK, MarkDeleted, Turns

LEMMA RewriteStep ==
    ASSUME StoreTypeOK, NEW r \in Sha, NEW w \in Worker, NEW x, Rewrite(w, r, x)
    PROVE  \A s \in Sha : s # r => disk'[s] = disk[s]
BY DEF StoreTypeOK, Rewrite

(* Of the requests only a PUT's Store::write stirs its hash.               *)
LEMMA RequestStep ==
    ASSUME TypeOK, NEW w \in Worker, Request(w)
    PROVE  OneHashStep
<1> USE DEF TypeOK, WorkerTypeOK
<1>1. ASSUME PutRefused(w) \/ \E s \in Sha : GetOpen(w, s) \/ GetNotFound(w, s)
      PROVE  AllCalm
  <2>1. UNCHANGED <<infos, disk>>
    BY <1>1 DEF PutRefused, GetOpen, GetNotFound, Read, storeVars
  <2>2. /\ pc[w] = "idle"
        /\ pc'[w] \in {"done", "lookup"}
        /\ \A v \in Worker : v # w => pc'[v] = pc[v] /\ target'[v] = target[v] /\ seen'[v] = seen[v]
    BY <1>1 DEF PutRefused, GetOpen, GetNotFound, Answer, Accept, AnswerAtOnce, Goto
  <2>3. QED
    BY <2>1, <2>2, StoreCalm DEF WriterPC, RecordPC
<1>2. ASSUME NEW r \in Sha, PutOpen(w, r) PROVE OnlyStirs(r)
  <2>1. /\ pc[w] = "idle" /\ pc'[w] = "receive" /\ target'[w] = r
        /\ \A v \in Worker : v # w => pc'[v] = pc[v] /\ target'[v] = target[v] /\ seen'[v] = seen[v]
    BY <1>2 DEF PutOpen, Accept, Goto
  <2>2. \A s \in Sha : s # r => infos'[s] = infos[s]
    BY <1>2, EmplaceStep, WritingStep DEF PutOpen, WriteAgain, WriteFresh
  <2>3. \A s \in Sha : s # r => disk'[s] = disk[s]
    BY <1>2, RewriteStep DEF PutOpen, WriteAgain, WriteFresh, OpenForWriting
  <2>4. Serves(w, r)
    BY <2>1, <2>2, <2>3 DEF Serves
  <2>5. ~Claimed(r) /\ IF infos[r].st = "Absent"
                       THEN Turns(r, "Valid", NoInfo)
                       ELSE Turns(r, "Writing", infos[r].info)
    BY <1>2, EmplaceStep, WritingStep DEF PutOpen, WriteAgain, WriteFresh, Claimed
  <2>6. Begins(r)
    BY <2>1, <2>4, <2>5, OwnThreads DEF Begins, WriterPC, RecordPC
  <2>7. QED
    BY <2>4, <2>6, OthersCalm DEF OnlyStirs, Stirs
<1>3. ASSUME NEW r \in Sha, PutConflict(w, r) \/ PutThrows(w, r) PROVE OneHashStep
  <2>1. /\ pc[w] = "idle" /\ pc'[w] = "done" /\ target'[w] = r
        /\ \A v \in Worker : v # w => pc'[v] = pc[v] /\ target'[v] = target[v] /\ seen'[v] = seen[v]
    BY <1>3 DEF PutConflict, PutThrows, AnswerAtOnce, Goto
  <2>2. CASE UNCHANGED storeVars
    BY <2>1, <2>2, StoreCalm DEF storeVars, WriterPC, RecordPC, OneHashStep
  <2>3. CASE WriteDiscover(r) \/ WriteOpenThrows(r)
    <3>1. UNCHANGED disk /\ \A s \in Sha : s # r => infos'[s] = infos[s]
      BY <2>3, EmplaceStep, WritingStep DEF WriteDiscover, WriteOpenThrows
    <3>2. Serves(w, r)
      BY <2>1, <3>1 DEF Serves
    <3>3. SameThreads(r)
      BY <2>1, <3>2, OwnThreadsSame DEF WriterPC, RecordPC
    <3>4. \/ /\ infos[r].st = "Absent"
             /\ \/ Turns(r, "Valid", NoInfo)
                \/ disk[r] \in Archive /\ Turns(r, "Valid", disk[r])
          \/ infos[r].st = "Deleted" /\ Turns(r, "Writing", infos[r].info)
      <4>1. CASE WriteDiscover(r)
        BY <4>1, EmplaceStep DEF WriteDiscover, Extractable
      <4>2. CASE WriteOpenThrows(r) /\ infos[r].st = "Absent"
        <5>1. infos' = TryEmplace(r, NoInfo)
          BY <4>2 DEF WriteOpenThrows
        <5>2. QED
          BY <4>2, <5>1, EmplaceStep
      <4>3. CASE WriteOpenThrows(r) /\ infos[r].st = "Deleted"
        BY <4>3, WritingStep DEF WriteOpenThrows
      <4>4. QED
        BY <2>3, <4>1, <4>2, <4>3 DEF WriteOpenThrows
    <3>5. QED
      BY <3>1, <3>2, <3>3, <3>4, OthersCalm DEF Noticed, Stirs, OnlyStirs, OneHashStep
  <2>4. QED
    BY <1>3, <2>2, <2>3 DEF PutConflict, PutThrows, WriteConflict, WriteDiscoverThrows
<1>4. QED
  BY <1>1, <1>2, <1>3 DEF Request, OneHashStep

(* A PUT works on its own hash.                                            *)
LEMMA PutStep ==
    ASSUME TypeOK, NEW w \in Worker, Put(w)
    PROVE  OneHashStep
<1> USE DEF TypeOK, WorkerTypeOK
<1> DEFINE r == target[w]
<1>0. r \in Sha /\ UNCHANGED target /\ pc' = [pc EXCEPT ![w] = pc'[w]]
  BY HandlerFrame DEF ServingOK
<1>1. seen' = [seen EXCEPT ![w] = seen'[w]]
  <2>1. seen' = [seen EXCEPT ![w] = disk[target[w]]] \/ UNCHANGED seen
    BY DEF Put, PutReceive, PutExtract, PutExtractThrows, PutAssign, PutPublish, PutInfo,
       PutInfoMisses, PutInfoDisk, PutUnrecorded, PutFindPackage, PutMissPackage,
       PutAddPackage, PutPackageId, PutAddCache, Answer, requestVars
  <2>2. QED
    BY <2>1
<1>2. ASSUME \A s \in Sha : s # r => infos'[s] = infos[s] /\ disk'[s] = disk[s]
      PROVE  Serves(w, r)
  BY <1>0, <1>1, <1>2 DEF Serves
<1>3. CASE PutReceive(w)
  <2>1. \A s \in Sha : s # r => disk'[s] = disk[s]
    BY <1>0, <1>3, RewriteStep DEF PutReceive, WriteBody
  <2>2. Serves(w, r)
    BY <1>2, <1>3, <2>1 DEF PutReceive
  <2>3. Advances(r)
    <3>1. pc[w] = "receive" /\ pc'[w] = "extract" /\ infos'[r] = infos[r]
      BY <1>3 DEF PutReceive, Goto
    <3>2. QED
      BY <1>0, <2>2, <3>1, OwnUpload DEF Advances, WriterPC
  <2>4. QED
    BY <1>0, <2>2, <2>3, OthersCalm DEF OneHashStep, OnlyStirs, Stirs
<1>4. CASE PutExtract(w)
  <2>1. Serves(w, r)
    BY <1>2, <1>4 DEF PutExtract
  <2>2. Advances(r)
    <3>1. /\ pc[w] = "extract" /\ pc'[w] = "assign"
          /\ disk[r] \in Archive /\ seen'[w] = disk[r]
          /\ infos'[r] = infos[r] /\ disk'[r] = disk[r]
      BY <1>4 DEF PutExtract, Goto, Extractable
    <3>2. QED
      BY <1>0, <2>1, <3>1, OwnUpload DEF Advances, WriterPC
  <2>3. QED
    BY <1>0, <2>1, <2>2, OthersCalm DEF OneHashStep, OnlyStirs, Stirs
<1>5. CASE PutAssign(w)
  <2>1. Serves(w, r)
    BY <1>2, <1>5 DEF PutAssign, AssignInfo, StoreTypeOK
  <2>2. Turns(r, infos[r].st, seen[w])
    BY <1>0, <1>5 DEF PutAssign, AssignInfo, StoreTypeOK, Turns
  <2>3. Advances(r)
    <3>1. /\ pc[w] = "assign" /\ pc'[w] = "publish"
          /\ seen'[w] = seen[w] /\ disk'[r] = disk[r]
      BY <1>5 DEF PutAssign, AssignInfo, Goto, requestVars
    <3>2. QED
      BY <1>0, <2>1, <2>2, <3>1, OwnUpload DEF Advances, WriterPC
  <2>4. QED
    BY <1>0, <2>1, <2>3, OthersCalm DEF OneHashStep, OnlyStirs, Stirs
<1>6. CASE PutExtractThrows(w) \/ PutPublish(w)
  <2>1. Serves(w, r) /\ disk'[r] = disk[r]
    BY <1>2, <1>6 DEF PutExtractThrows, PutPublish, Publish, StoreTypeOK
  <2>2. \/ pc[w] = "extract" /\ infos'[r] = infos[r]
        \/ pc[w] = "publish" /\ Turns(r, "Valid", infos[r].info)
    BY <1>0, <1>6 DEF PutExtractThrows, PutPublish, Publish, StoreTypeOK, Turns
  <2>3. pc'[w] = "info"
    BY <1>6 DEF PutExtractThrows, PutPublish, Goto
  <2>4. Ends(r)
    BY <1>0, <2>1, <2>2, <2>3, OwnThreads DEF Ends, WriterPC, RecordPC
  <2>5. QED
    BY <1>0, <2>1, <2>4, OthersCalm DEF OneHashStep, OnlyStirs, Stirs
<1>7. ASSUME pc[w] \in RecordPC, pc'[w] \in RecordPC \cup {"done"}, UNCHANGED disk,
             UNCHANGED infos \/ (disk[r] \in Archive /\ infos' = TryEmplace(r, disk[r]))
      PROVE  OneHashStep
  <2>1. Serves(w, r)
    <3>1. \A s \in Sha : s # r => infos'[s] = infos[s]
      BY <1>0, <1>7, EmplaceStep
    <3>2. QED
      BY <1>2, <1>7, <3>1
  <2>2. SameThreads(r)
    BY <1>0, <1>7, <2>1, OwnThreadsSame DEF WriterPC, RecordPC
  <2>3. infos'[r] = infos[r] \/ Noticed(r)
    <3>1. CASE UNCHANGED infos
      BY <3>1
    <3>2. CASE disk[r] \in Archive /\ infos' = TryEmplace(r, disk[r])
      BY <1>0, <1>7, <2>2, <3>2, EmplaceStep DEF Noticed
    <3>3. QED
      BY <1>7, <3>1, <3>2
  <2>4. CASE infos'[r] = infos[r]
    BY <1>7, <2>1, <2>2, <2>4, OthersCalm, <1>0 DEF Calm, AllCalm, OneHashStep
  <2>5. CASE Noticed(r)
    BY <1>0, <2>1, <2>5, OthersCalm DEF OneHashStep, OnlyStirs, Stirs
  <2>6. QED
    BY <2>3, <2>4, <2>5
<1>8. CASE PutInfo(w) \/ PutInfoMisses(w) \/ PutInfoDisk(w) \/ PutUnrecorded(w)
  <2>1. pc[w] \in RecordPC /\ pc'[w] \in RecordPC \cup {"done"} /\ UNCHANGED disk
    BY <1>8 DEF PutInfo, PutInfoMisses, PutInfoDisk, PutUnrecorded, Answer, Goto, storeVars,
       RecordPC
  <2>2. UNCHANGED infos \/ (disk[r] \in Archive /\ infos' = TryEmplace(r, disk[r]))
    <3>1. CASE PutInfoDisk(w)
      BY <3>1 DEF PutInfoDisk, Extractable
    <3>2. ASSUME PutInfo(w) \/ PutInfoMisses(w) \/ PutUnrecorded(w) PROVE infos' = infos
      BY <3>2 DEF PutInfo, PutInfoMisses, PutUnrecorded, storeVars
    <3>3. QED
      BY <1>8, <3>1, <3>2
  <2>3. QED
    BY <1>7, <2>1, <2>2
<1>9. CASE \/ PutFindPackage(w) \/ PutMissPackage(w) \/ PutAddPackage(w)
           \/ PutPackageId(w) \/ PutAddCache(w)
  <2>1. pc[w] \in RecordPC /\ pc'[w] \in RecordPC \cup {"done"} /\ UNCHANGED infos /\ UNCHANGED disk
    <3>1. CASE PutFindPackage(w) \/ PutMissPackage(w)
      <4>1. \E to \in {"addCache", "addPackage"} : pc' = [pc EXCEPT ![w] = to]
        BY <3>1 DEF PutFindPackage, PutMissPackage, Goto
      <4>2. pc[w] = "package" /\ UNCHANGED <<infos, disk>>
        BY <3>1 DEF PutFindPackage, PutMissPackage, storeVars
      <4>3. QED
        BY <4>1, <4>2 DEF RecordPC
    <3>2. CASE PutAddPackage(w) \/ PutPackageId(w) \/ PutAddCache(w)
      BY <3>2 DEF PutAddPackage, PutPackageId, PutAddCache, Answer, Goto, storeVars, RecordPC
    <3>3. QED
      BY <1>9, <3>1, <3>2
  <2>2. QED
    BY <1>7, <2>1
<1>10. QED
  BY <1>3, <1>4, <1>5, <1>6, <1>8, <1>9 DEF Put

(* A pass removes an archive of its list at a time.                        *)
LEMMA MaintainHashStep ==
    ASSUME TypeOK, MaintainBegin \/ MaintainStep
    PROVE  OneHashStep
<1> USE DEF TypeOK
<1>1. \A s \in Sha : SameThreads(s)
  BY ThreadsCalm DEF MaintainBegin, MaintainStep, MaintainMark, MaintainDryRun,
     MaintainCommit, MaintainRemove, MaintainDies, MaintainEnd, workerVars, requestVars
<1>2. CASE UNCHANGED storeVars
  BY <1>1, <1>2 DEF storeVars, Calm, AllCalm, OneHashStep
<1>3. ASSUME mpc = "remove", toDelete # <<>>, Head(toDelete) \in Sha,
             Remove(Head(toDelete)) \/ (DiskFaults /\ RemoveThrows(Head(toDelete)))
      PROVE  OneHashStep
  <2> DEFINE r == Head(toDelete)
  <2>1. 1 \in DOMAIN toDelete /\ toDelete[1] = r
    BY <1>3, HeadTailProperties, LenProperties, EmptySeq DEF MaintenanceTypeOK
  <2>2. Readable(r) /\ Turns(r, "Deleted", infos[r].info)
    BY <1>3, DeletedStep DEF Remove, RemoveThrows, Removable, Readable
  <2>3. Evicted(r)
    BY <1>1, <1>3, <2>1, <2>2 DEF Evicted, Remove
  <2>4. \A s \in Sha : s # r => infos'[s] = infos[s] /\ disk'[s] = disk[s]
    BY <1>3, DeletedStep DEF Remove, RemoveThrows, Unlink, StoreTypeOK
  <2>5. QED
    BY <1>1, <1>3, <2>3, <2>4 DEF Calm, OneHashStep, OnlyStirs, Stirs
<1>4. QED
  BY <1>2, <1>3 DEF MaintainBegin, MaintainStep, MaintainMark, MaintainDryRun,
     MaintainCommit, MaintainRemove, MaintainDies, MaintainEnd, RemoveSkips

(* GETs and answers stir nothing, another process stirs one hash.          *)
LEMMA HashStep ==
    ASSUME TypeOK, [Next]_vars
    PROVE  OneHashStep
<1> USE DEF TypeOK, WorkerTypeOK
<1>1. ASSUME NEW w \in Worker, Get(w) \/ Throw(w) PROVE AllCalm
  <2>1. UNCHANGED <<infos, disk, target>> /\ pc' = [pc EXCEPT ![w] = pc'[w]]
    BY <1>1, HandlerFrame DEF Get, GetLookup, GetLog, GetReadCache, GetWriteCache,
       GetReadPackage, GetWritePackage, GetSize, Throw, storeVars
  <2>2. seen' = [seen EXCEPT ![w] = seen'[w]]
    BY <1>1 DEF Get, GetLookup, GetLog, GetReadCache, GetWriteCache, GetReadPackage,
       GetWritePackage, GetSize, Throw, Answer, requestVars
  <2>3. pc[w] \notin WriterPC /\ pc'[w] \notin WriterPC /\ pc'[w] \notin RecordPC
    BY <1>1 DEF Get, GetLookup, GetLog, GetReadCache, GetWriteCache, GetReadPackage,
       GetWritePackage, GetSize, Throw, GetThrowing, PutThrowing, Answer, Goto,
       WriterPC, RecordPC
  <2>4. QED
    BY <2>1, <2>2, <2>3, StoreCalm
<1>2. ASSUME NEW w \in Worker, Reply(w) PROVE AllCalm
  BY <1>2, StoreCalm DEF Reply, WriterPC, RecordPC
<1>3. ASSUME UNCHANGED vars PROVE AllCalm
  BY <1>3, ThreadsCalm DEF vars, workerVars, requestVars, storeVars, Calm, AllCalm
<1>4. CASE Environment
  <2>1. \A s \in Sha : SameThreads(s)
    BY <1>4, ThreadsCalm DEF Environment, workerVars, requestVars
  <2>2. PICK r \in Sha, x \in External : ExternalAdd(r, x)
    BY <1>4 DEF Environment
  <2>3. Arrives(r) /\ \A s \in Sha : s # r => Calm(s)
    BY <2>1, <2>2 DEF ExternalAdd, Arrives, Calm, StoreTypeOK
  <2>4. QED
    BY <2>3 DEF OneHashStep, OnlyStirs, Stirs
<1>5. QED
  BY <1>1, <1>2, <1>3, <1>4, RequestStep, PutStep, MaintainHashStep
     DEF Next, Handler, OneHashStep

LEMMA EachHash ==
    ASSUME TypeOK, [Next]_vars, NEW s \in Sha
    PROVE  Calm(s) \/ Stirs(s)
BY HashStep DEF OneHashStep, OnlyStirs, AllCalm

----------------------------------------------------------------------------
(* One hash at a time: uploads, the entry and the file.                    *)

(* With at most one upload, the writer of a step is the only one.          *)
LEMMA WriterAlone ==
    ASSUME NEW s \in Sha, HashInv(s), NEW w \in Uploads(s)
    PROVE  Uploads(s) = {w} /\ Uploads(s) \ {w} = {}
BY DEF HashInv, OneUploadOf

LEMMA NotClaimedNoUpload ==
    ASSUME NEW s \in Sha, HashInv(s), ~Claimed(s)
    PROVE  Uploads(s) = {}
BY DEF HashInv, WriterInOrder

(* A recorder that reads a name of its archive is past an upload that      *)
(* succeeded, or is still to be published.                                 *)
LEMMA RecorderSettled ==
    ASSUME NEW s \in Sha, HashInv(s), NEW w \in Recorders(s),
           NEW i \in RacingInfos(s), i # NoInfo
    PROVE  Settled(s)
<1>1. PastUpload(s)
  BY DEF HashInv
<1>2. ASSUME Readable(s) PROVE infos[s].info # NoInfo
  <2>1. Uploads(s) = {}
    BY <1>1, <1>2 DEF PastUpload
  <2>2. i = infos[s].info
    BY <2>1 DEF RacingInfos, Uploads, WriterPC
  <2>3. QED
    BY <2>2
<1>3. QED
  BY <1>1, <1>2 DEF Settled

(* Once settled, a hash stays settled.                                     *)
LEMMA SettledKept ==
    ASSUME NEW s \in Sha, HashInv(s), Calm(s) \/ Stirs(s), Settled(s)
    PROVE  Settled(s)'
<1> USE StoreConstants DEF Settled, PastUpload, Readable, SameThreads, Turns
<1>1. CASE Calm(s) \/ Evicted(s) \/ Arrives(s) \/ Noticed(s) \/ Begins(s)
  BY <1>1 DEF Calm, Evicted, Arrives, Noticed, Begins, Claimed
<1>2. CASE Advances(s)
  BY <1>2 DEF Advances, HashInv, WriterInOrder
<1>3. CASE Ends(s)
  <2>1. PICK w \in Uploads(s) :
           /\ Uploads(s)' = Uploads(s) \ {w}
           /\ \/ pc[w] = "extract" /\ infos'[s] = infos[s]
              \/ pc[w] = "publish" /\ Turns(s, "Valid", infos[s].info)
    BY <1>3 DEF Ends
  <2>2. Uploads(s)' = {} /\ infos[s].st # "Valid"
    BY <2>1, WriterAlone
  <2>3. pc[w] = "publish" => infos[s].info \in Archive
    BY <2>1 DEF HashInv, WriterInOrder
  <2>4. QED
    BY <2>1, <2>2, <2>3
<1>4. QED
  BY <1>1, <1>2, <1>3 DEF Stirs

(* An upload begins only where none is running.                            *)
LEMMA OneUploadKept ==
    ASSUME NEW s \in Sha, HashInv(s), Calm(s) \/ Stirs(s)
    PROVE  OneUploadOf(s)'
<1>1. Uploads(s)' \subseteq Uploads(s) \/ \E w \in Worker : Uploads(s)' = {w}
  BY NotClaimedNoUpload
     DEF Stirs, Calm, Begins, Noticed, Advances, Ends, Evicted, Arrives, SameThreads
<1>2. QED
  BY <1>1 DEF HashInv, OneUploadOf

(* Its entry stays claimed until it ends, because maintenance removes only *)
(* settled hashes, and its file stays because nobody else writes it.       *)
LEMMA WriterKept ==
    ASSUME NEW s \in Sha, HashInv(s), Calm(s) \/ Stirs(s)
    PROVE  WriterInOrder(s)'
<1> SUFFICES ASSUME NEW w \in Uploads(s)'
             PROVE  /\ Claimed(s)'
                    /\ pc'[w] \in {"assign", "publish"} =>
                          seen'[w] \in Archive /\ disk'[s] = seen'[w]
                    /\ IF pc'[w] = "publish" THEN infos'[s].info = seen'[w]
                       ELSE infos'[s].st = "Valid" => infos'[s].info = NoInfo
  BY DEF WriterInOrder, Readable
<1> USE StoreConstants DEF Claimed, Readable, SameThreads, Turns
<1>1. CASE Calm(s)
  BY <1>1 DEF Calm, HashInv, WriterInOrder
<1>2. CASE Begins(s)
  <2>1. Uploads(s) = {}
    BY <1>2, NotClaimedNoUpload DEF Begins
  <2>2. pc'[w] = "receive"
    BY <1>2, <2>1 DEF Begins
  <2>3. QED
    BY <1>2, <2>2 DEF Begins
<1>3. CASE Noticed(s)
  BY <1>3, NotClaimedNoUpload DEF Noticed
<1>4. CASE Advances(s)
  <2>1. w \in Uploads(s) /\ Uploads(s) = {w}
    BY <1>4, WriterAlone DEF Advances
  <2>2. QED
    BY <1>4, <2>1 DEF Advances, HashInv, WriterInOrder
<1>5. CASE Ends(s)
  BY <1>5, WriterAlone DEF Ends
<1>6. CASE Evicted(s)
  BY <1>6 DEF Evicted, HashInv, Named, Settled, PastUpload
<1>7. CASE Arrives(s)
  <2>1. w \in Uploads(s) /\ pc[w] \notin {"assign", "publish"} /\ pc'[w] = pc[w]
    BY <1>7 DEF Arrives, HashInv, WriterInOrder
  <2>2. QED
    BY <1>7, <2>1 DEF Arrives, HashInv, WriterInOrder
<1>8. QED
  BY <1>1, <1>2, <1>3, <1>4, <1>5, <1>6, <1>7 DEF Stirs

(* The Info of a readable entry stays that of the file.                    *)
LEMMA OnDiskKept ==
    ASSUME TypeOK, NEW s \in Sha, HashInv(s), Calm(s) \/ Stirs(s)
    PROVE  OnDisk(s)'
<1> USE StoreConstants DEF OnDisk, Readable, SameThreads, Turns
<1>0. infos[s].info \in Info
  BY DEF TypeOK, StoreTypeOK
<1>1. CASE Calm(s) \/ Begins(s) \/ Noticed(s) \/ Evicted(s)
  BY <1>1 DEF Calm, Begins, Noticed, Evicted, HashInv
<1>2. CASE Arrives(s)
  BY <1>0, <1>2 DEF Arrives, HashInv, Info
<1>3. CASE Advances(s)
  BY <1>3 DEF Advances, HashInv, WriterInOrder
<1>4. CASE Ends(s)
  BY <1>4 DEF Ends, HashInv, WriterInOrder
<1>5. QED
  BY <1>1, <1>2, <1>3, <1>4 DEF Stirs

(* Who records the hash is past its upload.                                *)
LEMMA RecordersKept ==
    ASSUME NEW s \in Sha, HashInv(s), Calm(s) \/ Stirs(s), Recorders(s)' # {}
    PROVE  PastUpload(s)'
<1> USE DEF PastUpload, Readable, SameThreads, Turns
<1>1. CASE Ends(s)
  <2>1. Uploads(s)' = {}
    BY <1>1, WriterAlone DEF Ends
  <2>2. infos[s].st # "Absent"
    BY <1>1 DEF Ends, HashInv, WriterInOrder, Claimed
  <2>3. QED
    BY <1>1, <2>1, <2>2 DEF Ends
<1>2. ASSUME Calm(s) \/ Begins(s) \/ Noticed(s) \/ Advances(s) \/ Evicted(s) \/ Arrives(s)
      PROVE  PastUpload(s)'
  <2>1. PastUpload(s)
    BY <1>2 DEF Calm, Begins, Noticed, Advances, Evicted, Arrives, HashInv
  <2>2. QED
    BY <1>2, <2>1 DEF Calm, Begins, Noticed, Advances, Evicted, Arrives, Claimed
<1>3. QED
  BY <1>1, <1>2 DEF Stirs

----------------------------------------------------------------------------
(* The rows: what a step may put into a table, a local or the list.        *)

CachesStep ==
    \/ UNCHANGED caches
    \/ \E w \in Worker :
        /\ pc[w] = "writeCache" /\ cid[w] \in DOMAIN caches
        /\ CanUpdateCache(cid[w], Bumped(row[w]))
        /\ caches' = [caches EXCEPT ![cid[w]] = Bumped(row[w])]
    \/ \E w \in Worker :
        /\ pc[w] = "addCache" /\ CanInsertCache(row[w])
        /\ caches' = Append(caches, row[w])
    \/ \E k \in DOMAIN caches : caches' = [caches EXCEPT ![k].deleted = TRUE]
    \/ DryRun /\ saved # NoTransaction /\ caches' = saved[2]

SavedStep == saved' \in {saved, NoTransaction, tables}

VictimsStep ==
    \/ toDelete' \in {toDelete, <<>>}
    \/ toDelete # <<>> /\ toDelete' = Tail(toDelete)
    \/ \E k \in DOMAIN caches :
          ~caches[k].deleted /\ toDelete' = Append(toDelete, caches[k].sha)

(* What a PUT of s may write into the sha of its row.                      *)
Drafts(s) == {ShaOf(s, i) : i \in RacingInfos(s)}

RowStep(w, r) ==
    \/ r = NoCacheRow
    \/ r \in CacheRow /\ r.sha = row[w].sha /\ r.deleted = row[w].deleted
    \/ cid[w] \in DOMAIN caches /\ r = caches[cid[w]]
    \/ pc[w] \in RecordPC /\ r \in CacheRow /\ r.sha \in Drafts(target[w])

RowsStep ==
    \/ UNCHANGED row
    \/ \E w \in Worker, r \in CacheRow : RowStep(w, r) /\ row' = [row EXCEPT ![w] = r]

(* A GET copies a row of the table, or writes its copy back.               *)
LEMMA GetRows ==
    ASSUME TypeOK, NEW w \in Worker, Get(w)
    PROVE  CachesStep /\ SavedStep /\ VictimsStep /\ RowsStep
<1> USE DEF TypeOK, DatabaseTypeOK
<1>1. CASE GetLookup(w) \/ GetReadPackage(w) \/ GetSize(w)
  BY <1>1 DEF GetLookup, GetReadPackage, GetSize, dbVars, maintenanceVars, CachesStep,
     SavedStep, VictimsStep, RowsStep
<1>2. CASE GetLog(w) \/ GetWritePackage(w)
  BY <1>2 DEF GetLog, GetWritePackage, InsertDownload, UpdatePackage, requestVars,
     maintenanceVars, CachesStep, SavedStep, VictimsStep, RowsStep
<1>3. CASE GetReadCache(w)
  <2>1. cid[w] \in DOMAIN caches /\ caches[cid[w]] \in CacheRow
    BY <1>3, ElementOfSeq, LenProperties DEF GetReadCache, CacheExists
  <2>2. RowsStep
    BY <1>3, <2>1 DEF GetReadCache, RowsStep, RowStep
  <2>3. QED
    BY <1>3, <2>2 DEF GetReadCache, dbVars, maintenanceVars, CachesStep, SavedStep, VictimsStep
<1>4. CASE GetWriteCache(w)
  <2>1. CachesStep
    BY <1>4 DEF GetWriteCache, UpdateCache, CacheExists, CachesStep
  <2>2. QED
    BY <1>4, <2>1 DEF GetWriteCache, UpdateCache, requestVars, maintenanceVars, SavedStep,
       VictimsStep, RowsStep
<1>5. QED
  BY <1>1, <1>2, <1>3, <1>4 DEF Get

(* A PUT drafts a row for its own hash and inserts it.                     *)
LEMMA PutRows ==
    ASSUME TypeOK, NEW w \in Worker, Put(w)
    PROVE  CachesStep /\ SavedStep /\ VictimsStep /\ RowsStep
<1> USE DEF TypeOK, DatabaseTypeOK
<1>0. target[w] \in Sha
  BY HandlerFrame DEF ServingOK
<1>1. CASE \/ PutReceive(w) \/ PutExtract(w) \/ PutExtractThrows(w) \/ PutAssign(w)
           \/ PutPublish(w) \/ PutInfo(w) \/ PutInfoMisses(w) \/ PutInfoDisk(w)
           \/ PutUnrecorded(w)
  BY <1>1 DEF PutReceive, PutExtract, PutExtractThrows, PutAssign, PutPublish, PutInfo,
     PutInfoMisses, PutInfoDisk, PutUnrecorded, Answer, requestVars, dbVars,
     maintenanceVars, CachesStep, SavedStep, VictimsStep, RowsStep
<1>2. CASE PutFindPackage(w) \/ PutMissPackage(w)
  <2>1. PICK r \in CacheRow : r.sha \in Drafts(target[w]) /\ row' = [row EXCEPT ![w] = r]
    <3>1. \A r \in CacheRow, x \in RowSha, q \in Nat :
             /\ [r EXCEPT !.sha = x].sha = x
             /\ [r EXCEPT !.sha = x, !.package = q].sha = x
      BY DEF CacheRow
    <3>2. \A i \in RacingInfos(target[w]) : ShaOf(target[w], i) \in Drafts(target[w]) \cap RowSha
      BY <1>0, ServerConstants DEF ShaOf, Drafts
    <3>3. row[w] \in CacheRow /\ row \in [Worker -> CacheRow]
      BY DEF WorkerTypeOK
    <3>4. CASE PutFindPackage(w)
      <4>1. PICK i \in RacingInfos(target[w]) : \E q \in PackageIds(NameOf(i)) :
              row' = [row EXCEPT ![w] = [@ EXCEPT !.sha = ShaOf(target[w], i), !.package = q]]
        BY <3>4 DEF PutFindPackage
      <4>2. PICK q \in PackageIds(NameOf(i)) :
              row' = [row EXCEPT ![w] = [@ EXCEPT !.sha = ShaOf(target[w], i), !.package = q]]
        BY <4>1
      <4>3. q \in Nat
        BY <4>2, LenProperties DEF PackageIds
      <4>4. [row[w] EXCEPT !.sha = ShaOf(target[w], i), !.package = q] \in CacheRow
        BY <1>0, <4>3, DraftRowTyped
      <4>5. [row[w] EXCEPT !.sha = ShaOf(target[w], i), !.package = q].sha
              \in Drafts(target[w])
        BY <3>1, <3>2, <3>3, <4>3
      <4>6. QED
        BY <4>2, <4>4, <4>5
    <3>5. CASE PutMissPackage(w)
      <4>1. PICK i \in RacingInfos(target[w]) : row' = [row EXCEPT ![w].sha = ShaOf(target[w], i)]
        BY <3>5 DEF PutMissPackage
      <4>2. [row[w] EXCEPT !.sha = ShaOf(target[w], i)] \in CacheRow
        <5>1. 0 \in Nat
          OBVIOUS
        <5>2. QED
          BY <1>0, <5>1, DraftRowTyped
      <4>3. [row[w] EXCEPT !.sha = ShaOf(target[w], i)].sha \in Drafts(target[w])
        BY <3>1, <3>2, <3>3
      <4>4. QED
        BY <4>1, <4>2, <4>3
    <3>6. QED
      BY <1>2, <3>4, <3>5
  <2>2. pc[w] \in RecordPC
    BY <1>2 DEF PutFindPackage, PutMissPackage, RecordPC
  <2>3. RowsStep
    BY <2>1, <2>2 DEF RowsStep, RowStep
  <2>4. QED
    BY <1>2, <2>3 DEF PutFindPackage, PutMissPackage, dbVars, maintenanceVars, CachesStep,
       SavedStep, VictimsStep
<1>3. CASE PutAddPackage(w)
  BY <1>3 DEF PutAddPackage, InsertPackage, requestVars, maintenanceVars, CachesStep,
     SavedStep, VictimsStep, RowsStep
<1>4. CASE PutPackageId(w)
  <2>1. row[w] \in CacheRow
    BY DEF WorkerTypeOK
  <2>2. \A r \in CacheRow, n \in Nat :
           /\ [r EXCEPT !.package = n] \in CacheRow
           /\ [r EXCEPT !.package = n].sha = r.sha
           /\ [r EXCEPT !.package = n].deleted = r.deleted
    BY DEF CacheRow
  <2>3. RowStep(w, [row[w] EXCEPT !.package = lastId])
    BY <2>1, <2>2 DEF RowStep
  <2>4. RowsStep
    BY <1>4, <2>1, <2>2, <2>3 DEF PutPackageId, RowsStep
  <2>5. QED
    BY <1>4, <2>4 DEF PutPackageId, dbVars, maintenanceVars, CachesStep, SavedStep, VictimsStep
<1>5. CASE PutAddCache(w)
  BY <1>5 DEF PutAddCache, Answer, InsertCache, maintenanceVars, CachesStep, SavedStep,
     VictimsStep, RowsStep
<1>6. QED
  BY <1>1, <1>2, <1>3, <1>4, <1>5 DEF Put

(* A pass lists live rows, marks them, saves tables and restores them.     *)
LEMMA MaintainRows ==
    ASSUME TypeOK, MaintainBegin \/ MaintainStep
    PROVE  CachesStep /\ SavedStep /\ VictimsStep /\ RowsStep
<1>0. RowsStep
  BY DEF MaintainBegin, MaintainStep, MaintainMark, MaintainDryRun, MaintainCommit,
     MaintainRemove, MaintainDies, MaintainEnd, workerVars, requestVars, RowsStep
<1>1. CASE MaintainBegin
  BY <1>0, <1>1 DEF MaintainBegin, Begin, CachesStep, SavedStep, VictimsStep
<1>2. ASSUME NEW k \in DOMAIN caches, MaintainMark(k)
      PROVE  CachesStep /\ SavedStep /\ VictimsStep
  BY <1>2 DEF MaintainMark, MarkRowDeleted, CachesStep, SavedStep, VictimsStep
<1>3. CASE MaintainDryRun
  <2>1. saved # NoTransaction
    BY <1>3 DEF MaintainDryRun, TypeOK, MaintenanceTypeOK
  <2>2. QED
    BY <1>0, <1>3, <2>1 DEF MaintainDryRun, Rollback, RestoreTables, CachesStep, SavedStep,
       VictimsStep
<1>4. CASE MaintainCommit
  BY <1>0, <1>4 DEF MaintainCommit, Commit, CachesStep, SavedStep, VictimsStep
<1>5. CASE MaintainRemove \/ MaintainDies \/ MaintainEnd
  BY <1>0, <1>5 DEF MaintainRemove, MaintainDies, MaintainEnd, dbVars, CachesStep, SavedStep,
     VictimsStep
<1>6. QED
  BY <1>0, <1>1, <1>2, <1>3, <1>4, <1>5 DEF MaintainStep

(* Every step moves rows only in these ways.                               *)
LEMMA StepRows ==
    ASSUME TypeOK, [Next]_vars
    PROVE  CachesStep /\ SavedStep /\ VictimsStep /\ RowsStep
<1>1. ASSUME UNCHANGED <<dbVars, maintenanceVars, row>>
      PROVE  CachesStep /\ SavedStep /\ VictimsStep /\ RowsStep
  BY <1>1 DEF dbVars, maintenanceVars, CachesStep, SavedStep, VictimsStep, RowsStep
<1>2. ASSUME NEW w \in Worker, Request(w) \/ Throw(w)
      PROVE  UNCHANGED <<dbVars, maintenanceVars, row>>
  BY <1>2 DEF Request, PutRefused, GetOpen, GetNotFound, PutOpen, PutConflict, PutThrows,
     Throw, Accept, AnswerAtOnce, Answer
<1>3. ASSUME NEW w \in Worker, Reply(w)
      PROVE  CachesStep /\ SavedStep /\ VictimsStep /\ RowsStep
  <2>1. NoCacheRow \in CacheRow
    BY ServerConstants DEF NoCacheRow, CacheRow
  <2>2. QED
    BY <1>3, <2>1 DEF Reply, dbVars, maintenanceVars, CachesStep, SavedStep, VictimsStep,
       RowsStep, RowStep
<1>4. ASSUME Environment \/ UNCHANGED vars PROVE UNCHANGED <<dbVars, maintenanceVars, row>>
  BY <1>4 DEF Environment, vars, workerVars, requestVars
<1>5. QED
  BY <1>1, <1>2, <1>3, <1>4, GetRows, PutRows, MaintainRows DEF Next, Handler

----------------------------------------------------------------------------
(* No step brings the row of an unsettled hash anywhere.                   *)

(* A draft names a hash only if its PUT has read a name of the archive.    *)
LEMMA DraftedIsSettled ==
    ASSUME TypeOK, NEW s \in Sha, HashInv(s), NEW w \in Worker, pc[w] \in RecordPC,
           s \in Drafts(target[w])
    PROVE  Settled(s)
<1>1. target[w] \in Sha
  BY DEF TypeOK, ServingOK, Serving
<1>2. PICK i \in RacingInfos(target[w]) : s = ShaOf(target[w], i)
  BY DEF Drafts
<1>3. i # NoInfo /\ s = target[w]
  BY <1>1, <1>2, StoreConstants DEF ShaOf
<1>4. w \in Recorders(s)
  BY <1>3 DEF Recorders
<1>5. QED
  BY <1>2, <1>3, <1>4, RecorderSettled

(* Tables, copies and the list keep to settled hashes.                     *)
LEMMA NamedSettled ==
    ASSUME TypeOK, [Next]_vars, NEW s \in Sha, HashInv(s), Named(s)'
    PROVE  Settled(s)
<1> USE DEF TypeOK, DatabaseTypeOK
<1>1. CachesStep /\ SavedStep /\ VictimsStep /\ RowsStep
  BY StepRows
<1>2. \A k \in DOMAIN caches : caches[k] \in CacheRow
  BY ElementOfSeq, LenProperties
<1>3. \A w \in Worker : row[w] \in CacheRow
  BY DEF WorkerTypeOK
<1>4. \A r \in CacheRow : Bumped(r).sha = r.sha /\ Bumped(r).deleted = r.deleted
  BY DEF Bumped, CacheRow
<1>5. \A k \in DOMAIN caches : caches[k].sha = s /\ ~caches[k].deleted => Settled(s)
  BY DEF HashInv, Named, HasLiveRow
<1>6. \A w \in Worker : row[w].sha = s /\ ~row[w].deleted => Settled(s)
  BY DEF HashInv, Named, HasLiveRow, WorkerTypeOK
<1>7. ASSUME HasLiveRow(caches, s)' PROVE Settled(s)
  <2>0. PICK k \in DOMAIN caches' : caches'[k].sha = s /\ ~caches'[k].deleted
    BY <1>7 DEF HasLiveRow
  <2>1. CASE UNCHANGED caches
    BY <1>5, <2>0, <2>1
  <2>2. ASSUME NEW w \in Worker, cid[w] \in DOMAIN caches,
               caches' = [caches EXCEPT ![cid[w]] = Bumped(row[w])]
        PROVE  Settled(s)
    BY <1>3, <1>4, <1>5, <1>6, <2>0, <2>2
  <2>3. ASSUME NEW w \in Worker, caches' = Append(caches, row[w]) PROVE Settled(s)
    <3>1. \/ k \in DOMAIN caches /\ caches'[k] = caches[k]
          \/ caches'[k] = row[w]
      BY <1>3, <2>0, <2>3, AppendProperties, LenProperties
    <3>2. QED
      BY <1>5, <1>6, <2>0, <3>1
  <2>4. ASSUME NEW j \in DOMAIN caches, caches' = [caches EXCEPT ![j].deleted = TRUE]
        PROVE  Settled(s)
    <3>1. \A r \in CacheRow : [r EXCEPT !.deleted = TRUE].deleted
      BY DEF CacheRow
    <3>2. k # j /\ k \in DOMAIN caches /\ caches'[k] = caches[k]
      BY <1>2, <2>0, <2>4, <3>1
    <3>3. QED
      BY <1>5, <2>0, <3>2
  <2>5. CASE saved # NoTransaction /\ caches' = saved[2]
    BY <2>0, <2>5 DEF HashInv, Named, HasLiveRow
  <2>6. QED
    BY <1>1, <2>1, <2>2, <2>3, <2>4, <2>5 DEF CachesStep
<1>8. ASSUME HasLiveRow(row, s)' PROVE Settled(s)
  <2> USE DEF WorkerTypeOK
  <2>0. PICK v \in DOMAIN row' : row'[v].sha = s /\ ~row'[v].deleted
    BY <1>8 DEF HasLiveRow
  <2>1. CASE UNCHANGED row
    BY <1>6, <2>0, <2>1
  <2>2. ASSUME NEW w \in Worker, NEW r \in CacheRow, RowStep(w, r), row' = [row EXCEPT ![w] = r]
        PROVE  Settled(s)
    <3>1. r.sha = s /\ ~r.deleted => Settled(s)
      <4>1. CASE r = NoCacheRow
        BY <4>1, StoreConstants DEF NoCacheRow
      <4>2. CASE r.sha = row[w].sha /\ r.deleted = row[w].deleted
        BY <1>6, <4>2
      <4>3. CASE cid[w] \in DOMAIN caches /\ r = caches[cid[w]]
        BY <1>5, <4>3
      <4>4. CASE pc[w] \in RecordPC /\ r.sha \in Drafts(target[w])
        BY <4>4, DraftedIsSettled
      <4>5. QED
        BY <2>2, <4>1, <4>2, <4>3, <4>4 DEF RowStep
    <3>2. QED
      BY <1>6, <2>0, <2>2, <3>1
  <2>3. QED
    BY <1>1, <2>1, <2>2 DEF RowsStep
<1>9. ASSUME saved' # NoTransaction, HasLiveRow(saved'[2], s) PROVE Settled(s)
  <2>1. CASE saved' = saved
    BY <1>9, <2>1 DEF HashInv, Named
  <2>2. CASE saved' = tables
    <3>1. saved'[2] = caches
      BY <2>2 DEF tables
    <3>2. QED
      BY <1>9, <3>1 DEF HashInv, Named
  <2>3. QED
    BY <1>1, <1>9, <2>1, <2>2 DEF SavedStep
<1>10. ASSUME NEW k \in DOMAIN toDelete', toDelete'[k] = s PROVE Settled(s)
  <2> USE DEF MaintenanceTypeOK
  <2>0. \A j \in DOMAIN toDelete : toDelete[j] = s => Settled(s)
    BY DEF HashInv, Named
  <2>1. CASE toDelete' = toDelete
    BY <1>10, <2>0, <2>1
  <2>2. CASE toDelete' = <<>>
    BY <1>10, <2>2
  <2>3. CASE toDelete # <<>> /\ toDelete' = Tail(toDelete)
    <3>1. k + 1 \in DOMAIN toDelete /\ toDelete'[k] = toDelete[k + 1]
      BY <1>10, <2>3, HeadTailProperties, LenProperties
    <3>2. QED
      BY <1>10, <2>0, <3>1
  <2>4. ASSUME NEW j \in DOMAIN caches, ~caches[j].deleted,
               toDelete' = Append(toDelete, caches[j].sha)
        PROVE  Settled(s)
    <3>1. caches[j].sha \in RowSha
      BY <1>2 DEF CacheRow
    <3>2. \/ k \in DOMAIN toDelete /\ toDelete'[k] = toDelete[k]
          \/ toDelete'[k] = caches[j].sha
      BY <1>10, <2>4, <3>1, AppendProperties, LenProperties
    <3>3. QED
      BY <1>5, <1>10, <2>0, <2>4, <3>2
  <2>5. QED
    BY <1>1, <2>1, <2>2, <2>3, <2>4 DEF VictimsStep
<1>11. QED
  BY <1>7, <1>8, <1>9, <1>10 DEF Named

----------------------------------------------------------------------------

(* Every step keeps a hash as HashInv says it is, whatever the state of    *)
(* the others: threads meet only where they serve the same hash.           *)
LEMMA HashKept ==
    ASSUME TypeOK, [Next]_vars, NEW s \in Sha, HashInv(s)
    PROVE  HashInv(s)'
<1>1. Calm(s) \/ Stirs(s)
  BY EachHash
<1>2. OneUploadOf(s)' /\ WriterInOrder(s)' /\ OnDisk(s)'
  BY <1>1, OneUploadKept, WriterKept, OnDiskKept
<1>3. Recorders(s)' # {} => PastUpload(s)'
  BY <1>1, RecordersKept
<1>4. Named(s)' => Settled(s)'
  BY <1>1, NamedSettled, SettledKept
<1>5. QED
  BY <1>2, <1>3, <1>4 DEF HashInv

LEMMA TypesKept ==
    ASSUME TypeOK, [Next]_vars
    PROVE  TypeOK'
BY StoreTyped, DatabaseTyped, WorkerTyped, ServingTyped, MaintenanceTyped DEF TypeOK

(* At the start no upload runs and a live row has its archive.             *)
LEMMA InitInOrder == Init => UploadInv
<1> SUFFICES ASSUME Init PROVE UploadInv
  OBVIOUS
<1>1. TypeOK
  BY InitTyped
<1> SUFFICES ASSUME NEW s \in Sha PROVE HashInv(s)
  BY <1>1 DEF UploadInv
<1>2. Uploads(s) = {} /\ Recorders(s) = {}
  BY DEF Init, Uploads, Recorders, WriterPC, RecordPC
<1>3. infos[s] = IF disk[s] \in Archive THEN [st |-> "Valid", info |-> disk[s]]
                                        ELSE [st |-> "Absent", info |-> NoInfo]
  BY DEF Init, ScannedInfos
<1>4. OnDisk(s)
  BY <1>3 DEF OnDisk, Readable
<1>5. ASSUME Named(s) PROVE Settled(s)
  <2>1. PICK k \in DOMAIN caches : caches[k].sha = s /\ ~caches[k].deleted
    BY <1>5, StoreConstants DEF Init, Named, HasLiveRow, NoCacheRow
  <2>2. disk[s] \in Archive
    BY <2>1 DEF Init, InOrder
  <2>3. QED
    BY <1>2, <1>3, <2>2, StoreConstants DEF Settled, PastUpload, Readable
<1>6. QED
  BY <1>2, <1>4, <1>5 DEF HashInv, OneUploadOf, WriterInOrder

(* The strengthening is inductive: it holds in every reachable state.      *)
THEOREM UploadInvariant == Spec => []UploadInv
<1>1. UploadInv /\ [Next]_vars => UploadInv'
  BY TypesKept, HashKept DEF UploadInv
<1>2. QED
  BY <1>1, InitInOrder, PTL DEF Spec

(* Two PUTs never write one archive at the same time: the second is        *)
(* answered 409 until the first StoreWriter is gone (Store::write).        *)
THEOREM OneUploadAtATime == Spec => []OneUpload
<1>1. UploadInv => OneUpload
  BY DEF UploadInv, HashInv, OneUpload
<1>2. QED
  BY <1>1, UploadInvariant, PTL

(* No hash with a live row has its upload running, so Store::remove never  *)
(* unlinks a file that is being written, even after a dry run's rollback   *)
(* or a write-back of a row read earlier.                                  *)
THEOREM LiveRowsAreSettled == Spec => []LiveRowsSettled
<1>1. UploadInv => LiveRowsSettled
  BY DEF UploadInv, HashInv, Named, LiveRowsSettled
<1>2. QED
  BY <1>1, UploadInvariant, PTL

(* What a readable entry publishes is on disk, although ~StoreWriter       *)
(* assigns it without the lock and the file is written outside it.         *)
THEOREM ReadableIsOnDisk == Spec => []ValidOnDisk
<1>1. UploadInv => ValidOnDisk
  BY DEF UploadInv, HashInv, ValidOnDisk
<1>2. QED
  BY <1>1, UploadInvariant, PTL

=============================================================================
