--------------------------- MODULE RestartProofs ---------------------------
(***************************************************************************)
(* Across the ends and starts of the process: archives survive, startup    *)
(* brings memory, directory and database into agreement, and what          *)
(* UploadProofs and CacheProofs say of one lifetime holds in each.         *)
(***************************************************************************)
EXTENDS Restart, CacheProofs

(* A process that starts has no request, no pass and no transaction.       *)
Resting ==
    /\ \A w \in Worker : /\ pc[w] = "idle" /\ seen[w] = NoInfo
                         /\ row[w] = NoCacheRow /\ handle[w] = Closed
    /\ mpc = "idle" /\ toDelete = <<>> /\ saved = NoTransaction

Pending(s) == \E k \in DOMAIN todo : todo[k] = s

Entered(s) == infos[s] = [st |-> "Valid", info |-> disk[s]] /\ disk[s] \in Archive
Unknown(s) == infos[s] = [st |-> "Absent", info |-> NoInfo]

(* The scan has entered an archive, removed a file, or still has to see it.*)
(* It sees each file once: one that it has entered is not removed later.   *)
Scanning(s) ==
    \/ Entered(s) /\ ~Pending(s)
    \/ Unknown(s) /\ (disk[s] # NoFile => Pending(s))

OnceEach == \A i, j \in DOMAIN todo : todo[i] = todo[j] => i = j

(* main has recorded an archive or still has to see it.                    *)
Catalogued(s) ==
    IF disk[s] = NoFile THEN Unknown(s)
                        ELSE Entered(s) /\ (Pending(s) \/ CacheIds(s) # {})

(* A stream with a name is that of a file in the directory.                *)
NamesFile(w) == handle[w].path \in Sha => disk[handle[w].path] # NoFile

(* The directory entry that an upload writes to is its own.                *)
WritesOwn(w) ==
    pc[w] \in {"receive", "extract"} => handle[w].path \in {target[w], NoSha}

UniqueShas(rows) == \A k, l \in DOMAIN rows : rows[k].sha = rows[l].sha => k = l

RestartInv ==
    /\ TypeOK /\ ProcessTypeOK
    /\ proc = "up" => \A s \in Sha \ revived : HashInv(s)
    /\ proc # "up" => Resting
    /\ proc = "scan" => OnceEach /\ \A s \in Sha : Scanning(s)
    /\ proc = "record" => \A s \in Sha : Catalogued(s)
    /\ \A w \in Worker : NamesFile(w) /\ WritesOwn(w)
    /\ UniqueShas(caches)
    /\ saved # NoTransaction => UniqueShas(saved[2])

----------------------------------------------------------------------------
(* The order in which startup visits files and entries misses none.        *)
LEMMA OrderVisitsAll ==
    ASSUME NEW S \in SUBSET Sha, NEW q \in SeqsExt!SetToSeqs(S)
    PROVE  /\ q \in Seq(Sha) /\ \A s \in S : \E k \in DOMAIN q : q[k] = s
           /\ \A i, j \in DOMAIN q : q[i] = q[j] => i = j
<1> DEFINE n == Cardinality(S)
<1>1. IsFiniteSet(S) /\ n \in Nat
  BY RestartConstants, FS_Subset, FS_CardinalityType
<1>2. q \in [1..n -> S] /\ \A i, j \in 1..n : i # j => q[i] # q[j]
  <2>1. SeqsExt!Cardinality(S) = Cardinality(S)
    BY DEF SeqsExt!Cardinality, SeqsExt!IsFiniteSet, Cardinality, IsFiniteSet
  <2>2. q \in {f \in [1..n -> S] : \A i, j \in 1..n : i # j => f[i] # f[j]}
    BY <2>1, Zenon DEF SeqsExt!SetToSeqs
  <2>3. QED
    BY <2>2, Zenon
<1> HIDE DEF n
<1>3. q \in Seq(Sha)
  <2>1. q \in [1..n -> Sha]
    BY <1>2
  <2>2. QED
    BY <1>1, <2>1, IsASeq
<1>4. ASSUME NEW s \in S, \A k \in DOMAIN q : q[k] # s PROVE FALSE
  <2>1. q \in [1..n -> S \ {s}]
    BY <1>2, <1>4
  <2>2. IsFiniteSet(S \ {s}) /\ Cardinality(S \ {s}) = n - 1
    BY <1>1, FS_RemoveElement DEF n
  <2>3. IsFiniteSet(1..n) /\ Cardinality(1..n) = n
    BY <1>1, FS_Interval
  <2>4. ASSUME NEW D, D = 1..n, NEW T, T = S \ {s}
        PROVE  \E i, j \in D : i # j /\ q[i] = q[j]
    <3>1. IsFiniteSet(D) /\ IsFiniteSet(T) /\ Cardinality(T) < Cardinality(D)
      BY <1>1, <2>2, <2>3, <2>4
    <3>2. q \in [D -> T]
      BY <2>1, <2>4
    <3>3. QED
      BY <3>1, <3>2, FS_PigeonHole
  <2>5. QED
    BY <1>2, <2>4
<1>5. QED
  BY <1>2, <1>3, <1>4

----------------------------------------------------------------------------
(* While the server serves: its directory entries and its rows.            *)

(* A PUT writes through the name of its own hash, or through none.         *)
LEMMA WritesOwnKept ==
    ASSUME TypeOK, NEW w \in Worker, WritesOwn(w), [Next]_vars
    PROVE  WritesOwn(w)'
<1> USE DEF TypeOK, WorkerTypeOK, StoreTypeOK, Worker
<1> SUFFICES ASSUME pc'[w] \in {"receive", "extract"}
             PROVE  handle'[w].path \in {target'[w], NoSha}
  BY DEF WritesOwn
<1>0. ASSUME pc[w] \in {"receive", "extract"}, target'[w] = target[w],
             handle'[w].path \in {handle[w].path, NoSha}
      PROVE  handle'[w].path \in {target'[w], NoSha}
  BY <1>0 DEF WritesOwn
<1>1. handle[w] \in Handle
  OBVIOUS
<1>2. ASSUME NEW v \in Worker, NEW s, NEW x, Rewrite(v, s, x), v # w \/ handle[w].path = s
      PROVE  handle'[w].path = handle[w].path
  BY <1>2 DEF Rewrite, Linked
<1>3. ASSUME NEW s, Unlink(s) PROVE handle'[w].path \in {handle[w].path, NoSha}
  BY <1>1, <1>3 DEF Unlink, Handle
<1>4. ASSUME NEW v \in Worker, NEW s \in Sha, PutOpen(v, s)
      PROVE  handle'[w].path \in {target'[w], NoSha}
  <2>1. Rewrite(v, s, Partial)
    BY <1>4 DEF PutOpen, WriteAgain, WriteFresh, OpenForWriting
  <2>2. CASE v = w
    BY <1>4, <2>1, <2>2 DEF PutOpen, Accept, Rewrite, Linked
  <2>3. CASE v # w
    <3>1. pc'[w] = pc[w] /\ target'[w] = target[w]
      BY <1>4, <2>3 DEF PutOpen, Accept, Goto
    <3>2. QED
      BY <1>0, <1>2, <2>1, <2>3, <3>1
  <2>4. QED
    BY <2>2, <2>3
<1>5. ASSUME NEW v \in Worker,
             \/ PutRefused(v)
             \/ \E s \in Sha : GetOpen(v, s) \/ GetNotFound(v, s) \/ PutConflict(v, s)
                               \/ PutThrows(v, s)
      PROVE  handle'[w].path \in {target'[w], NoSha}
  <2>1. /\ pc[v] = "idle" /\ pc'[v] \in {"done", "lookup"}
        /\ v # w => pc'[w] = pc[w] /\ target'[w] = target[w] /\ handle'[w] = handle[w]
    BY <1>5 DEF PutRefused, GetOpen, GetNotFound, PutConflict, PutThrows, Answer, AnswerAtOnce,
       Accept, Goto, Read, WriteConflict, WriteDiscover, WriteDiscoverThrows,
       WriteOpenThrows, storeVars
  <2>2. QED
    BY <1>0, <2>1
<1>6. ASSUME NEW v \in Worker, Get(v) \/ Throw(v) \/ Reply(v)
      PROVE  handle'[w].path \in {target'[w], NoSha}
  <2>1. /\ pc'[v] \notin {"receive", "extract"}
        /\ v # w => pc'[w] = pc[w] /\ target'[w] = target[w] /\ handle'[w] = handle[w]
    BY <1>6 DEF Get, GetLookup, GetLog, GetReadCache, GetWriteCache, GetReadPackage,
       GetWritePackage, GetSize, Throw, Reply, Answer, Goto, Close, storeVars, requestVars
  <2>2. QED
    BY <1>0, <2>1
<1>7. ASSUME NEW v \in Worker, Put(v)
      PROVE  handle'[w].path \in {target'[w], NoSha}
  <2>0. UNCHANGED target /\ target[v] \in Sha /\ pc' = [pc EXCEPT ![v] = pc'[v]]
    BY <1>7, HandlerFrame DEF ServingOK
  <2>1. CASE PutReceive(v)
    <3>1. PICK x \in Bodies : WriteBody(v, target[v], x)
      BY <2>1 DEF PutReceive
    <3>2. handle'[w].path = handle[w].path
      <4>1. CASE handle[v].path = target[v]
        BY <1>2, <3>1, <4>1 DEF WriteBody
      <4>2. CASE handle[v].path # target[v]
        BY <1>1, <3>1, <4>2 DEF WriteBody, Handle
      <4>3. QED
        BY <4>1, <4>2
    <3>3. pc[w] \in {"receive", "extract"}
      BY <2>0, <2>1 DEF PutReceive
    <3>4. QED
      BY <1>0, <2>0, <3>2, <3>3
  <2>2. CASE ~PutReceive(v)
    <3>1. v = w => pc'[w] \notin {"receive", "extract"}
      <4>1. CASE PutFindPackage(v) \/ PutMissPackage(v)
        <5>1. \E to \in {"addCache", "addPackage"} : pc' = [pc EXCEPT ![v] = to]
          BY <4>1 DEF PutFindPackage, PutMissPackage, Goto
        <5>2. QED
          BY <5>1
      <4>2. CASE ~(PutFindPackage(v) \/ PutMissPackage(v))
        BY <1>7, <2>2, <4>2 DEF Put, PutExtract, PutExtractThrows, PutAssign, PutPublish, PutInfo,
           PutInfoMisses, PutInfoDisk, PutUnrecorded, PutAddPackage, PutPackageId,
           PutAddCache, Goto, Answer
      <4>3. QED
        BY <4>1, <4>2
    <3>2. v # w => handle'[w] = handle[w]
      <4>1. CASE PutExtract(v) \/ PutExtractThrows(v)
        BY <4>1 DEF PutExtract, PutExtractThrows, Close
      <4>2. CASE ~(PutExtract(v) \/ PutExtractThrows(v))
        BY <1>7, <2>2, <4>2 DEF Put, PutAssign, AssignInfo, PutPublish, Publish, PutInfo,
           PutInfoMisses, PutInfoDisk, PutUnrecorded, PutFindPackage, PutMissPackage,
           PutAddPackage, PutPackageId, PutAddCache, storeVars
      <4>3. QED
        BY <4>1, <4>2
    <3>3. QED
      BY <1>0, <2>0, <3>1, <3>2
  <2>3. QED
    BY <2>1, <2>2
<1>8. ASSUME MaintainBegin \/ MaintainStep \/ Environment \/ UNCHANGED vars
      PROVE  handle'[w].path \in {target'[w], NoSha}
  <2>1. UNCHANGED <<pc, target>>
    BY <1>8 DEF MaintainBegin, MaintainStep, MaintainMark, MaintainDryRun, MaintainCommit,
       MaintainRemove, MaintainDies, MaintainEnd, Environment, vars, workerVars, requestVars
  <2>2. handle' = handle \/ \E s \in Sha : Unlink(s)
    BY <1>8 DEF MaintainBegin, MaintainStep, MaintainMark, MaintainDryRun, MaintainCommit,
       MaintainRemove, MaintainDies, MaintainEnd, Remove, RemoveSkips, RemoveThrows,
       Environment, ExternalAdd, vars, storeVars
  <2>3. QED
    BY <1>0, <1>3, <2>1, <2>2
<1>9. QED
  BY <1>4, <1>5, <1>6, <1>7, <1>8 DEF Next, Handler, Request

(* A file loses its name and its place together.                           *)
LEMMA NamesFileKept ==
    ASSUME TypeOK, \A w \in Worker : NamesFile(w), [Next]_vars
    PROVE  \A w \in Worker : NamesFile(w)'
<1> USE StoreConstants DEF TypeOK, StoreTypeOK, Worker
<1>1. ASSUME NEW s \in Sha, Unlink(s) PROVE \A w \in Worker : NamesFile(w)'
  BY <1>1 DEF Unlink, Handle, NamesFile
<1>2. ASSUME NEW v \in Worker, NEW s \in Sha, NEW x \in Content, Rewrite(v, s, x)
      PROVE  \A w \in Worker : NamesFile(w)'
  BY <1>2 DEF Rewrite, Linked, Content, NamesFile
<1>3. ASSUME UNCHANGED disk,
             \A w \in Worker : handle'[w].path \in {handle[w].path, NoSha}
      PROVE  \A w \in Worker : NamesFile(w)'
  BY <1>3 DEF NamesFile
<1>4. ASSUME NEW w \in Worker, Request(w) PROVE \A u \in Worker : NamesFile(u)'
  <2>1. ASSUME NEW s \in Sha, GetOpen(w, s) PROVE \A u \in Worker : NamesFile(u)'
    BY <2>1 DEF GetOpen, Read, ReaderStream, Closed, Linked, NamesFile
  <2>2. ASSUME NEW s \in Sha, PutOpen(w, s) PROVE \A u \in Worker : NamesFile(u)'
    BY <1>2, <2>2 DEF PutOpen, WriteAgain, WriteFresh, OpenForWriting, Content
  <2>3. ASSUME NEW s \in Sha, GetNotFound(w, s) \/ PutConflict(w, s) \/ PutThrows(w, s)
        PROVE  UNCHANGED <<disk, handle>>
    BY <2>3 DEF GetNotFound, PutConflict, PutThrows, WriteConflict, WriteDiscover,
       WriteDiscoverThrows, WriteOpenThrows, storeVars
  <2>4. PutRefused(w) => UNCHANGED <<disk, handle>>
    BY DEF PutRefused, storeVars
  <2>5. QED
    BY <1>3, <1>4, <2>1, <2>2, <2>3, <2>4 DEF Request
<1>5. ASSUME NEW v \in Worker, Handler(v) PROVE \A w \in Worker : NamesFile(w)'
  <2>1. CASE PutReceive(v)
    <3>1. PICK x \in Bodies : WriteBody(v, target[v], x)
      BY <2>1 DEF PutReceive
    <3>2. CASE handle[v].path = target[v]
      <4>1. target[v] \in Sha /\ x \in Content
        BY <2>1, ServerConstants DEF PutReceive, ServingOK, Serving, WriterPC
      <4>2. QED
        BY <1>2, <3>1, <3>2, <4>1 DEF WriteBody
    <3>3. CASE handle[v].path # target[v]
      BY <1>3, <3>1, <3>3 DEF WriteBody, Handle
    <3>4. QED
      BY <3>2, <3>3
  <2>2. CASE PutExtract(v) \/ PutExtractThrows(v) \/ Reply(v)
    BY <1>3, <2>2 DEF PutExtract, PutExtractThrows, Reply, Close, Closed
  <2>3. CASE ~(PutReceive(v) \/ PutExtract(v) \/ PutExtractThrows(v) \/ Reply(v))
    <3>1. UNCHANGED <<disk, handle>>
      BY <1>5, <2>3 DEF Handler, Put, PutAssign, AssignInfo, PutPublish, Publish, PutInfo,
         PutInfoMisses, PutInfoDisk, PutUnrecorded, PutFindPackage, PutMissPackage,
         PutAddPackage, PutPackageId, PutAddCache, Get, GetLookup, GetLog, GetReadCache,
         GetWriteCache, GetReadPackage, GetWritePackage, GetSize, Throw, storeVars
    <3>2. QED
      BY <1>3, <3>1
  <2>4. QED
    BY <2>1, <2>2, <2>3
<1>6. ASSUME MaintainBegin \/ MaintainStep \/ UNCHANGED vars
      PROVE  \A w \in Worker : NamesFile(w)'
  <2>1. UNCHANGED <<disk, handle>> \/ \E s \in Sha : Unlink(s)
    BY <1>6 DEF MaintainBegin, MaintainStep, MaintainMark, MaintainDryRun, MaintainCommit,
       MaintainRemove, MaintainDies, MaintainEnd, Remove, RemoveSkips, RemoveThrows, vars,
       storeVars
  <2>2. QED
    BY <1>1, <1>3, <2>1
<1>7. ASSUME NEW s \in Sha, NEW x \in External, ExternalAdd(s, x)
      PROVE  \A w \in Worker : NamesFile(w)'
  BY <1>7, ServerConstants DEF ExternalAdd, Content, NamesFile
<1>8. QED
  BY <1>4, <1>5, <1>6, <1>7 DEF Next, Environment

(* The unique column stays so: in the table and in what a rollback restores*)
LEMMA ShasStayUnique ==
    ASSUME TypeOK, [Next]_vars, UniqueShas(caches),
           saved # NoTransaction => UniqueShas(saved[2])
    PROVE  UniqueShas(caches)' /\ (saved' # NoTransaction => UniqueShas(saved'[2]))
<1> USE DEF TypeOK, DatabaseTypeOK
<1>0. CachesStep /\ SavedStep
  BY StepRows
<1>1. /\ DOMAIN caches \subseteq Nat \ {0}
      /\ \A k \in DOMAIN caches : caches[k] \in CacheRow
  BY ElementOfSeq, LenProperties
<1>2. ASSUME NEW w \in Worker, cid[w] \in DOMAIN caches,
             CanUpdateCache(cid[w], Bumped(row[w])),
             caches' = [caches EXCEPT ![cid[w]] = Bumped(row[w])]
      PROVE  UniqueShas(caches)'
  BY <1>2 DEF CanUpdateCache, CacheExists, ShaFree, CacheIds, UniqueShas
<1>3. ASSUME NEW w \in Worker, CanInsertCache(row[w]), caches' = Append(caches, row[w])
      PROVE  UniqueShas(caches)'
  <2>1. \A k \in DOMAIN caches : caches[k].sha # row[w].sha
    BY <1>1, <1>3 DEF CanInsertCache, ShaFree, CacheIds
  <2>2. row[w] \in CacheRow
    BY DEF WorkerTypeOK
  <2>3. /\ DOMAIN caches' = DOMAIN caches \cup {Len(caches) + 1}
        /\ caches'[Len(caches) + 1] = row[w]
        /\ \A k \in DOMAIN caches : caches'[k] = caches[k]
    BY <1>3, <2>2, AppendProperties, LenProperties
  <2>4. QED
    BY <2>1, <2>3 DEF UniqueShas
<1>4. ASSUME NEW j \in DOMAIN caches, caches' = [caches EXCEPT ![j].deleted = TRUE]
      PROVE  UniqueShas(caches)'
  <2>1. \A r \in CacheRow : [r EXCEPT !.deleted = TRUE].sha = r.sha
    BY DEF CacheRow
  <2>2. QED
    BY <1>1, <1>4, <2>1 DEF UniqueShas
<1>5. UniqueShas(caches)'
  BY <1>0, <1>2, <1>3, <1>4 DEF CachesStep, UniqueShas
<1>6. ASSUME saved' # NoTransaction PROVE UniqueShas(saved'[2])
  BY <1>0, <1>6 DEF SavedStep, UniqueShas, tables
<1>7. QED
  BY <1>5, <1>6

----------------------------------------------------------------------------
(* The end of the process, and its start.                                  *)

(* A process that has just started knows nothing and has to see each file. *)
LEMMA CrashKept ==
    ASSUME RestartInv, Crash
    PROVE  RestartInv'
<1> USE DEF RestartInv
<1>1. PICK lost \in SUBSET Unflushed : Truncate(lost)
  BY DEF Crash
<1>2. /\ StoreTypeOK'
      /\ \A s \in Sha : disk'[s] # NoFile => disk[s] # NoFile
  <2>1. /\ disk' \in [Sha -> Content \cup {NoFile}]
        /\ \A s \in Sha : disk'[s] = IF s \in lost THEN Partial ELSE disk[s]
    BY <1>1 DEF Truncate, TypeOK, StoreTypeOK, Content
  <2>2. \A s \in Sha : s \in lost => disk[s] # NoFile
    BY <1>1 DEF Unflushed, NamesFile
  <2>3. Closed \in Handle
    BY DEF Closed, Handle
  <2>4. QED
    BY <2>1, <2>2, <2>3 DEF Crash, StoreTypeOK, InfoState, Info
<1>3. DatabaseTypeOK' /\ saved' = NoTransaction /\ UniqueShas(caches)'
  <2>1. /\ packages' \in Seq(PackageRow) /\ caches' \in Seq(CacheRow)
        /\ downloads' \in Seq(Nat) /\ UniqueShas(caches)'
    <3>1. CASE saved = NoTransaction
      BY <3>1 DEF Crash, UndoTransaction, tables, TypeOK, DatabaseTypeOK, UniqueShas
    <3>2. CASE saved # NoTransaction
      <4>1. saved \in Seq(PackageRow) \X Seq(CacheRow) \X Seq(Nat)
        BY <3>2 DEF TypeOK, DatabaseTypeOK, Tables
      <4>2. packages' = saved[1] /\ caches' = saved[2] /\ downloads' = saved[3]
        BY <3>2 DEF Crash, UndoTransaction, RestoreTables
      <4>3. QED
        BY <3>2, <4>1, <4>2 DEF UniqueShas
    <3>3. QED
      BY <3>1, <3>2
  <2>2. QED
    BY <2>1 DEF Crash, DatabaseTypeOK
<1>4. WorkerTypeOK' /\ ServingOK' /\ MaintenanceTypeOK'
  <2>1. NoCacheRow \in CacheRow /\ NoPackageRow \in PackageRow
    BY ServerConstants DEF NoCacheRow, NoPackageRow, CacheRow, PackageRow
  <2>2. QED
    BY <2>1, EmptySeq DEF Crash, ForgetWorkers, WorkerTypeOK, ServingOK, Serving, GetPC,
       WriterPC, RecordPC, MaintenanceTypeOK, PC, Info
<1>5. todo' \in Seq(Sha) /\ OnceEach' /\ \A s \in Sha : disk[s] # NoFile => Pending(s)'
  <2> DEFINE Files == {s \in Sha : disk[s] # NoFile}
  <2>1. Files \in SUBSET Sha /\ todo' \in SeqsExt!SetToSeqs(Files)
    BY DEF Crash
  <2>2. /\ todo' \in Seq(Sha) /\ \A s \in Files : \E k \in DOMAIN todo' : todo'[k] = s
        /\ \A i, j \in DOMAIN todo' : todo'[i] = todo'[j] => i = j
    BY <2>1, OrderVisitsAll
  <2>3. QED
    BY <2>2 DEF Pending, OnceEach
<1>6. TypeOK' /\ ProcessTypeOK'
  BY <1>2, <1>3, <1>4, <1>5 DEF TypeOK, ProcessTypeOK, Crash
<1>7. Resting'
  BY DEF Crash, ForgetWorkers, Resting, Worker
<1>8. OnceEach' /\ \A s \in Sha : Scanning(s)'
  BY <1>2, <1>5 DEF Crash, Scanning, Unknown
<1>9. \A w \in Worker : NamesFile(w)' /\ WritesOwn(w)'
  BY StoreConstants DEF Crash, ForgetWorkers, NamesFile, WritesOwn, Closed, Worker
<1>10. QED
  BY <1>3, <1>6, <1>7, <1>8, <1>9 DEF Crash

(* What startup does not touch while it visits files and entries.          *)
LEMMA RestingKept ==
    ASSUME RestartInv, proc # "up",
           UNCHANGED <<handle, workerVars, maintenanceVars, saved>>
    PROVE  /\ Resting' /\ \A w \in Worker : NamesFile(w)' /\ WritesOwn(w)'
           /\ WorkerTypeOK' /\ ServingOK' /\ MaintenanceTypeOK'
           /\ saved' = NoTransaction
<1> USE DEF workerVars, requestVars, maintenanceVars
<1>1. Resting /\ Resting'
  BY DEF RestartInv, Resting
<1>2. \A w \in Worker : NamesFile(w)' /\ WritesOwn(w)'
  BY <1>1, StoreConstants DEF Resting, NamesFile, WritesOwn, Closed
<1>3. QED
  BY <1>1, <1>2 DEF Resting, RestartInv, TypeOK, WorkerTypeOK, ServingOK, MaintenanceTypeOK

LEMMA HeadOfTodo ==
    ASSUME todo \in Seq(Sha), todo # <<>>
    PROVE  /\ Head(todo) \in Sha /\ Tail(todo) \in Seq(Sha)
           /\ todo' = Tail(todo) => \A s \in Sha : Pending(s) => s = Head(todo) \/ Pending(s)'
           /\ todo' = Tail(todo) /\ OnceEach
                => OnceEach' /\ \A s \in Sha : Pending(s)' => s # Head(todo) /\ Pending(s)
<1>1. Head(todo) \in Sha /\ Tail(todo) \in Seq(Sha)
  BY HeadTailProperties
<1>2. ASSUME todo' = Tail(todo), NEW k \in DOMAIN todo, k # 1
      PROVE  k - 1 \in DOMAIN todo' /\ todo'[k - 1] = todo[k]
  BY <1>2, HeadTailProperties, LenProperties
<1>3. todo[1] = Head(todo)
  BY HeadTailProperties
<1>4. Pending(Head(todo))
  BY <1>3, LenProperties DEF Pending
<1>5. ASSUME todo' = Tail(todo), NEW k \in DOMAIN todo'
      PROVE  k \in Nat /\ k + 1 \in DOMAIN todo /\ todo'[k] = todo[k + 1] /\ k + 1 # 1
  BY <1>5, HeadTailProperties, LenProperties
<1>6. ASSUME todo' = Tail(todo), OnceEach PROVE OnceEach'
  <2> SUFFICES ASSUME NEW i \in DOMAIN todo', NEW j \in DOMAIN todo', todo'[i] = todo'[j]
               PROVE  i = j
    BY DEF OnceEach
  <2>1. i + 1 = j + 1
    BY <1>5, <1>6 DEF OnceEach
  <2>2. QED
    BY <1>5, <1>6, <2>1
<1>7. ASSUME todo' = Tail(todo), OnceEach, NEW s \in Sha, Pending(s)'
      PROVE  s # Head(todo) /\ Pending(s)
  <2>1. PICK k \in DOMAIN todo' : todo'[k] = s
    BY <1>7 DEF Pending
  <2>2. k + 1 \in DOMAIN todo /\ todo[k + 1] = s /\ k + 1 # 1
    BY <1>5, <1>7, <2>1
  <2>3. 1 \in DOMAIN todo
    BY LenProperties
  <2>4. QED
    BY <1>3, <1>7, <2>2, <2>3 DEF OnceEach, Pending
<1>8. QED
  BY <1>1, <1>2, <1>3, <1>6, <1>7 DEF Pending

(* The scan enters the file that it visits, or removes it.                 *)
LEMMA ScanFileKept ==
    ASSUME RestartInv, ScanFile
    PROVE  RestartInv'
<1> DEFINE h == Head(todo)
<1> USE StoreConstants DEF RestartInv, TypeOK, StoreTypeOK
<1>1. /\ h \in Sha /\ todo' \in Seq(Sha) /\ OnceEach'
      /\ \A s \in Sha : /\ Pending(s) => s = h \/ Pending(s)'
                        /\ Pending(s)' => s # h /\ Pending(s)
      /\ Pending(h)
  <2>1. todo[1] = h /\ 1 \in DOMAIN todo
    BY HeadTailProperties, LenProperties DEF ScanFile, ProcessTypeOK
  <2>2. QED
    BY <2>1, HeadOfTodo DEF ScanFile, ProcessTypeOK, Pending
<1>2. \/ /\ disk[h] \in Archive /\ UNCHANGED disk
         /\ infos' = TryEmplace(h, disk[h])
      \/ UNCHANGED infos /\ disk' = [disk EXCEPT ![h] = NoFile]
  BY DEF ScanFile, Extractable, RemoveRejected
<1>3. StoreTypeOK'
  BY <1>1, <1>2 DEF ScanFile, TryEmplace, InfoState, Info
<1>4. ASSUME NEW s \in Sha PROVE Scanning(s)'
  <2>1. Scanning(s)
    BY DEF ScanFile
  <2>2. CASE s = h
    <3>1. CASE disk[h] \in Archive /\ UNCHANGED disk /\ infos' = TryEmplace(h, disk[h])
      BY <1>1, <2>1, <2>2, <3>1 DEF TryEmplace, Scanning, Entered, Unknown
    <3>2. CASE UNCHANGED infos /\ disk' = [disk EXCEPT ![h] = NoFile]
      BY <1>1, <2>1, <2>2, <3>2 DEF Scanning, Entered, Unknown
    <3>3. QED
      BY <1>2, <3>1, <3>2
  <2>3. CASE s # h
    <3>1. infos'[s] = infos[s] /\ disk'[s] = disk[s]
      BY <1>1, <1>2, <2>3, EmplaceStep
    <3>2. QED
      BY <1>1, <2>1, <2>3, <3>1 DEF Scanning, Entered, Unknown
  <2>4. QED
    BY <2>2, <2>3
<1>5. /\ Resting' /\ \A w \in Worker : NamesFile(w)' /\ WritesOwn(w)'
      /\ WorkerTypeOK' /\ ServingOK' /\ MaintenanceTypeOK'
      /\ saved' = NoTransaction
  <2>1. proc # "up" /\ UNCHANGED <<handle, workerVars, maintenanceVars, saved>>
    BY DEF ScanFile, dbVars
  <2>2. QED
    BY <2>1, RestingKept
<1>6. DatabaseTypeOK' /\ UniqueShas(caches)'
  BY DEF ScanFile, dbVars, DatabaseTypeOK, UniqueShas
<1>7. ProcessTypeOK'
  BY <1>1 DEF ScanFile, ProcessTypeOK
<1>8. QED
  BY <1>1, <1>3, <1>4, <1>5, <1>6, <1>7 DEF ScanFile

(* After the scan every file is an archive with its entry.                 *)
LEMMA ScanEndKept ==
    ASSUME RestartInv, ScanEnd
    PROVE  RestartInv'
<1> USE StoreConstants DEF RestartInv, ScanEnd
<1>0. UNCHANGED <<storeVars, dbVars, workerVars, maintenanceVars>>
  BY DEF vars
<1>1. todo' \in Seq(Sha) /\ \A s \in Sha : Readable(s) => Pending(s)'
  <2> DEFINE Entries == {s \in Sha : Readable(s)}
  <2>1. Entries \in SUBSET Sha /\ todo' \in SeqsExt!SetToSeqs(Entries)
    OBVIOUS
  <2>2. todo' \in Seq(Sha) /\ \A s \in Entries : \E k \in DOMAIN todo' : todo'[k] = s
    BY <2>1, OrderVisitsAll
  <2>3. QED
    BY <2>2 DEF Pending
<1>2. ASSUME NEW s \in Sha PROVE Catalogued(s)'
  <2>1. Scanning(s) /\ ~Pending(s)
    BY DEF Pending
  <2>2. CASE Entered(s)
    <3>1. Entered(s)' /\ disk'[s] # NoFile /\ Readable(s)
      BY <1>0, <2>2 DEF Entered, Readable, storeVars
    <3>2. QED
      BY <1>1, <3>1 DEF Catalogued
  <2>3. CASE Unknown(s) /\ disk[s] = NoFile
    BY <1>0, <2>3 DEF Catalogued, Unknown, storeVars
  <2>4. QED
    BY <2>1, <2>2, <2>3 DEF Scanning
<1>3. /\ Resting' /\ \A w \in Worker : NamesFile(w)' /\ WritesOwn(w)'
      /\ WorkerTypeOK' /\ ServingOK' /\ MaintenanceTypeOK'
      /\ saved' = NoTransaction
  BY <1>0, RestingKept DEF storeVars, dbVars
<1>4. DatabaseTypeOK' /\ UniqueShas(caches)' /\ StoreTypeOK'
  BY <1>0 DEF storeVars, dbVars, DatabaseTypeOK, UniqueShas, TypeOK, StoreTypeOK
<1>5. ProcessTypeOK'
  BY <1>1 DEF ProcessTypeOK
<1>6. QED
  BY <1>2, <1>3, <1>4, <1>5 DEF TypeOK

(* main adds the package and the row of the entry that it visits, or finds *)
(* them.                                                                   *)
LEMMA EntryKept ==
    ASSUME RestartInv, NEW h \in Sha, RecordPackage(h) \/ RecordCache(h) \/ RecordKnown(h)
    PROVE  RestartInv'
<1> USE StoreConstants DEF RestartInv, TypeOK, DatabaseTypeOK
<1>0. /\ proc = "record" /\ proc' = proc /\ todo # <<>> /\ h = Head(todo)
      /\ UNCHANGED <<storeVars, workerVars, maintenanceVars, saved, revived>>
  BY DEF RecordPackage, RecordCache, RecordKnown, Recording, InsertPackage, InsertCache,
     processVars, vars, dbVars
<1>1. /\ Tail(todo) \in Seq(Sha)
      /\ todo' = Tail(todo) => \A s \in Sha : Pending(s) => s = h \/ Pending(s)'
  BY <1>0, HeadOfTodo DEF ProcessTypeOK
<1>2. /\ Resting' /\ \A w \in Worker : NamesFile(w)' /\ WritesOwn(w)'
      /\ WorkerTypeOK' /\ ServingOK' /\ MaintenanceTypeOK'
      /\ saved' = NoTransaction
  BY <1>0, RestingKept DEF storeVars
<1>3. StoreTypeOK' /\ \A s \in Sha : /\ Unknown(s)' <=> Unknown(s)
                                     /\ Entered(s)' <=> Entered(s)
                                     /\ disk'[s] = disk[s]
  BY <1>0 DEF storeVars, StoreTypeOK, Unknown, Entered
<1>4. CASE RecordPackage(h)
  <2>1. PackageRow = [name : PackageName, downloads : Nat] /\ infos[h].info \in Info
    BY DEF PackageRow, StoreTypeOK
  <2>2. EntryPackage(h) \in PackageName
    BY <2>1, ServerConstants DEF EntryPackage, NameOf, Info
  <2>3. packages' \in Seq(PackageRow) /\ lastId' \in Nat
    <3>1. [name |-> EntryPackage(h), downloads |-> 0] \in PackageRow
      BY <2>2 DEF PackageRow
    <3>2. QED
      BY <1>4, <3>1, AppendProperties, LenProperties DEF RecordPackage, InsertPackage
  <2>4. UNCHANGED <<caches, downloads, todo>>
    BY <1>4 DEF RecordPackage, InsertPackage, processVars
  <2>5. UniqueShas(caches)' /\ \A s \in Sha : Catalogued(s)'
    BY <1>0, <1>3, <2>4 DEF UniqueShas, Catalogued, Pending, CacheIds
  <2>6. QED
    BY <1>0, <1>2, <1>3, <2>3, <2>4, <2>5 DEF ProcessTypeOK
<1>5. CASE RecordCache(h)
  <2>1. PICK p \in PackageIds(EntryPackage(h)) :
          InsertCache([sha |-> h, package |-> p, downloads |-> 0, deleted |-> FALSE])
    BY <1>5 DEF RecordCache
  <2> DEFINE r == [sha |-> h, package |-> p, downloads |-> 0, deleted |-> FALSE]
  <2>2. r \in CacheRow /\ r.sha = h
    BY LenProperties, ServerConstants DEF PackageIds, CacheRow
  <2> HIDE DEF r
  <2>3. /\ caches' = Append(caches, r) /\ lastId' = Len(caches) + 1
        /\ UNCHANGED <<packages, downloads>>
    BY <2>1 DEF InsertCache, r
  <2>4. /\ caches' \in Seq(CacheRow) /\ lastId' \in Nat
        /\ DOMAIN caches' = DOMAIN caches \cup {Len(caches) + 1}
        /\ caches'[Len(caches) + 1] = r
        /\ \A k \in DOMAIN caches : caches'[k] = caches[k]
    BY <2>2, <2>3, AppendProperties, LenProperties
  <2>5. todo' = Tail(todo) /\ \A k \in DOMAIN caches : caches[k].sha # h
    BY <1>5 DEF RecordCache, CacheIds
  <2>6. UniqueShas(caches)'
    BY <2>2, <2>4, <2>5 DEF UniqueShas
  <2>7. ASSUME NEW s \in Sha PROVE Catalogued(s)'
    <3>1. Catalogued(s)
      BY <1>0
    <3>2. s = h \/ CacheIds(s) # {} => CacheIds(s)' # {}
      BY <2>2, <2>4 DEF CacheIds
    <3>3. Pending(s) => s = h \/ Pending(s)'
      BY <1>1, <2>5
    <3>4. QED
      BY <1>3, <3>1, <3>2, <3>3 DEF Catalogued
  <2>8. QED
    BY <1>0, <1>1, <1>2, <1>3, <2>3, <2>4, <2>5, <2>6, <2>7 DEF ProcessTypeOK
<1>6. CASE RecordKnown(h)
  <2>1. UNCHANGED <<packages, caches, downloads, lastId>> /\ CacheIds(h) # {}
        /\ todo' = Tail(todo)
    BY <1>6 DEF RecordKnown, vars, dbVars
  <2>2. UniqueShas(caches)' /\ \A s \in Sha : CacheIds(s)' = CacheIds(s)
    BY <2>1 DEF UniqueShas, CacheIds
  <2>3. ASSUME NEW s \in Sha PROVE Catalogued(s)'
    <3>1. Catalogued(s) /\ (Pending(s) => s = h \/ Pending(s)')
      BY <1>0, <1>1, <2>1
    <3>2. QED
      BY <1>3, <2>1, <2>2, <3>1 DEF Catalogued
  <2>4. QED
    BY <1>0, <1>1, <1>2, <1>3, <2>1, <2>2, <2>3 DEF ProcessTypeOK
<1>7. QED
  BY <1>4, <1>5, <1>6

(* When everything is recorded, a live row that is not revived is that of  *)
(* a readable archive.                                                     *)
LEMMA CataloguedInOrder ==
    ASSUME RestartInv, proc = "record", todo = <<>>, NEW s \in Sha
    PROVE  /\ disk[s] # NoFile <=> Readable(s)
           /\ Readable(s) => Entered(s) /\ CacheIds(s) # {}
           /\ Uploads(s) = {} /\ Recorders(s) = {}
           /\ ~(LiveRow(s) /\ ~Readable(s)) => HashInv(s)
<1> USE StoreConstants DEF RestartInv, Readable
<1>1. Catalogued(s) /\ ~Pending(s) /\ Resting
  BY DEF Pending
<1>2. /\ disk[s] # NoFile <=> Readable(s)
      /\ Readable(s) => Entered(s) /\ CacheIds(s) # {}
  BY <1>1 DEF Catalogued, Entered, Unknown
<1>3. Uploads(s) = {} /\ Recorders(s) = {}
  BY <1>1 DEF Resting, Uploads, Recorders, WriterPC, RecordPC
<1>4. ASSUME ~(LiveRow(s) /\ ~Readable(s)), Named(s) PROVE Settled(s)
  <2>1. LiveRow(s)
    <3>1. ~HasLiveRow(row, s)
      BY <1>1 DEF Resting, HasLiveRow, NoCacheRow, TypeOK, WorkerTypeOK
    <3>2. HasLiveRow(caches, s)
      BY <1>1, <1>4, <3>1 DEF Resting, Named
    <3>3. QED
      BY <3>2 DEF HasLiveRow, LiveRow, CacheIds
  <2>2. Readable(s) /\ Entered(s)
    BY <1>2, <1>4, <2>1
  <2>3. QED
    BY <1>3, <2>2 DEF Settled, PastUpload, Entered
<1>5. OnDisk(s)
  BY <1>2 DEF OnDisk, Entered
<1>6. QED
  BY <1>2, <1>3, <1>4, <1>5 DEF HashInv, OneUploadOf, WriterInOrder

LEMMA HashUnchanged ==
    ASSUME UNCHANGED vars, NEW s \in Sha, HashInv(s)
    PROVE  HashInv(s)'
BY DEF vars, storeVars, dbVars, workerVars, requestVars, maintenanceVars, HashInv, OneUploadOf,
   Uploads, Recorders, WriterInOrder, Claimed, Readable, OnDisk, PastUpload, Settled, Named,
   HasLiveRow

LEMMA ServeKept ==
    ASSUME RestartInv, Serve
    PROVE  RestartInv'
<1> USE DEF RestartInv, Serve
<1>1. ASSUME NEW s \in Sha \ revived' PROVE HashInv(s)'
  <2>1. HashInv(s)
    BY CataloguedInOrder
  <2>2. QED
    BY <2>1, HashUnchanged
<1>2. TypeOK'
  <2>1. [Next]_vars
    OBVIOUS
  <2>2. QED
    BY <2>1, TypesKept
<1>3. /\ \A w \in Worker : NamesFile(w)' /\ WritesOwn(w)'
      /\ UniqueShas(caches)' /\ (saved' # NoTransaction => UniqueShas(saved'[2]))
  <2>1. [Next]_vars
    OBVIOUS
  <2>2. QED
    BY <2>1, NamesFileKept, WritesOwnKept, ShasStayUnique
<1>4. ProcessTypeOK'
  BY DEF ProcessTypeOK
<1>5. QED
  BY <1>1, <1>2, <1>3, <1>4

(* In its lifetime a process keeps every hash in order that it did not     *)
(* revive: threads meet only where they serve the same hash (HashKept).    *)
LEMMA ServedKept ==
    ASSUME RestartInv, Served
    PROVE  RestartInv'
<1> USE DEF RestartInv, Served, processVars
<1>1. TypeOK' /\ ProcessTypeOK'
  BY TypesKept DEF ProcessTypeOK
<1>2. \A s \in Sha \ revived : HashInv(s)'
  BY HashKept
<1>3. /\ \A w \in Worker : NamesFile(w)' /\ WritesOwn(w)'
      /\ UniqueShas(caches)' /\ (saved' # NoTransaction => UniqueShas(saved'[2]))
  BY NamesFileKept, WritesOwnKept, ShasStayUnique
<1>4. QED
  BY <1>1, <1>2, <1>3

(* A pass that is abandoned forgets its list and leaves its transaction.   *)
LEMMA AbandonKept ==
    ASSUME RestartInv, MaintainAbandons
    PROVE  RestartInv'
<1> USE DEF RestartInv, MaintainAbandons, processVars, storeVars, dbVars, workerVars, requestVars
<1>1. StoreTypeOK' /\ WorkerTypeOK' /\ ServingOK'
  BY DEF TypeOK, StoreTypeOK, WorkerTypeOK, ServingOK
<1>2. DatabaseTypeOK' /\ MaintenanceTypeOK'
  BY EmptySeq DEF TypeOK, DatabaseTypeOK, MaintenanceTypeOK
<1>3. ASSUME NEW s \in Sha \ revived PROVE HashInv(s)'
  <2>1. HashInv(s)
    OBVIOUS
  <2>2. Named(s)' => Named(s)
    BY DEF Named, HasLiveRow
  <2>3. Settled(s)' <=> Settled(s)
    BY DEF Settled, PastUpload, Readable, Uploads
  <2>4. /\ OneUploadOf(s)' /\ WriterInOrder(s)' /\ OnDisk(s)'
        /\ Recorders(s)' # {} => PastUpload(s)'
    BY <2>1 DEF HashInv, OneUploadOf, Uploads, Recorders, WriterInOrder, Claimed, Readable,
       OnDisk, PastUpload
  <2>5. QED
    BY <2>1, <2>2, <2>3, <2>4 DEF HashInv
<1>4. /\ \A w \in Worker : NamesFile(w)' /\ WritesOwn(w)'
      /\ UniqueShas(caches)' /\ (saved' # NoTransaction => UniqueShas(saved'[2]))
  BY DEF NamesFile, WritesOwn, UniqueShas
<1>5. QED
  BY <1>1, <1>2, <1>3, <1>4 DEF TypeOK, ProcessTypeOK

LEMMA RestartInitially == RestartInit => RestartInv
<1> SUFFICES ASSUME RestartInit PROVE RestartInv
  OBVIOUS
<1> USE DEF RestartInit
<1>1. UploadInv
  BY InitInOrder
<1>2. ProcessTypeOK
  BY EmptySeq DEF ProcessTypeOK
<1>3. \A w \in Worker : NamesFile(w) /\ WritesOwn(w)
  BY StoreConstants DEF Init, NamesFile, WritesOwn, Closed, Worker
<1>4. UniqueShas(caches) /\ saved = NoTransaction
  BY DEF Init, InOrder, UniqueShas
<1>5. QED
  BY <1>1, <1>2, <1>3, <1>4 DEF RestartInv, UploadInv

LEMMA RestartKept ==
    ASSUME RestartInv, [RestartNext]_allVars
    PROVE  RestartInv'
<1>1. CASE UNCHANGED allVars
  <2>1. UNCHANGED <<vars, processVars>>
    BY <1>1 DEF allVars
  <2>2. CASE proc = "up"
    <3>1. /\ TypeOK' /\ \A s \in Sha \ revived : HashInv(s)'
          /\ \A w \in Worker : NamesFile(w)' /\ WritesOwn(w)'
          /\ UniqueShas(caches)' /\ (saved' # NoTransaction => UniqueShas(saved'[2]))
      BY <2>1, <2>2, TypesKept, HashKept, NamesFileKept, WritesOwnKept, ShasStayUnique
         DEF RestartInv
    <3>2. QED
      BY <2>1, <2>2, <3>1 DEF RestartInv, ProcessTypeOK, processVars
  <2>3. CASE proc # "up"
    <3>1. UNCHANGED <<proc, todo, revived, storeVars, dbVars, workerVars, maintenanceVars>>
      BY <2>1 DEF vars, processVars
    <3>2. /\ Resting' /\ \A w \in Worker : NamesFile(w)' /\ WritesOwn(w)'
      BY <2>3, <3>1, RestingKept DEF storeVars, dbVars
    <3>3. TypeOK' /\ UniqueShas(caches)' /\ (saved' # NoTransaction => UniqueShas(saved'[2]))
      BY <2>1, TypesKept, ShasStayUnique DEF RestartInv
    <3>4. \A s \in Sha : /\ Scanning(s)' <=> Scanning(s)
                         /\ Catalogued(s)' <=> Catalogued(s)
      BY <3>1 DEF Scanning, Catalogued, Entered, Unknown, Pending, CacheIds, storeVars, dbVars
    <3>5. OnceEach' <=> OnceEach
      BY <3>1 DEF OnceEach
    <3>6. QED
      BY <2>3, <3>1, <3>2, <3>3, <3>4, <3>5 DEF RestartInv, ProcessTypeOK
  <2>4. QED
    BY <2>2, <2>3
<1>2. QED
  BY <1>1, ServedKept, AbandonKept, CrashKept, ScanFileKept, ScanEndKept, EntryKept, ServeKept
     DEF RestartNext, Startup

LEMMA RestartInvariant == RestartSpec => []RestartInv
<1>1. QED
  BY RestartInitially, RestartKept, PTL DEF RestartSpec

(* Across lifetimes two PUTs never write one archive at the same time,     *)
(* unless the process started with a live row whose file was gone.         *)
THEOREM OneUploadInEachLifetime == RestartSpec => []OneUploadUnlessRevived
<1>1. ASSUME RestartInv, NEW s \in Sha \ revived PROVE OneUploadOf(s)
  <2>1. CASE proc = "up"
    BY <1>1, <2>1 DEF RestartInv, HashInv
  <2>2. CASE proc # "up"
    BY <1>1, <2>2 DEF RestartInv, Resting, OneUploadOf, Uploads, WriterPC
  <2>3. QED
    BY <2>1, <2>2
<1>2. RestartInv => OneUploadUnlessRevived
  BY <1>1 DEF OneUploadUnlessRevived
<1>3. QED
  BY <1>2, RestartInvariant, PTL

(* In every lifetime what a readable entry publishes is on disk.           *)
THEOREM ReadableIsOnDiskInEachLifetime == RestartSpec => []ValidOnDiskUnlessRevived
<1>1. RestartInv => ValidOnDiskUnlessRevived
  BY DEF RestartInv, HashInv, ValidOnDiskUnlessRevived
<1>2. QED
  BY <1>1, RestartInvariant, PTL

(* When the process starts to serve, memory, directory and database agree, *)
(* wherever the last lifetime ended.                                       *)
THEOREM StartsInAgreement == RestartSpec => ServesInAgreement
<1>1. ASSUME RestartInv, Serve, NEW s \in Sha
      PROVE  /\ disk'[s] # NoFile <=> Readable(s)'
             /\ Readable(s)' => infos'[s].info = disk'[s] /\ Cardinality(CacheIds(s)') = 1
  <2>1. /\ disk[s] # NoFile <=> Readable(s)
        /\ Readable(s) => Entered(s) /\ CacheIds(s) # {}
    BY <1>1, CataloguedInOrder DEF Serve
  <2>2. UNCHANGED <<disk, infos, caches>>
    BY <1>1 DEF Serve, vars, storeVars, dbVars
  <2>3. ASSUME Readable(s) PROVE Cardinality(CacheIds(s)') = 1
    <3>1. PICK k \in DOMAIN caches : caches[k].sha = s
      BY <2>1, <2>3 DEF CacheIds
    <3>2. CacheIds(s)' = {k}
      BY <1>1, <2>2, <3>1 DEF RestartInv, UniqueShas, CacheIds
    <3>3. QED
      BY <3>2, FS_Singleton
  <2>4. QED
    BY <2>1, <2>2, <2>3 DEF Readable, Entered
<1>2. ASSUME RestartInv, [RestartNext]_allVars
      PROVE  [proc # "up" /\ proc' = "up" => InAgreement']_allVars
  <2>1. proc # "up" /\ proc' = "up" => Serve \/ UNCHANGED allVars
    BY <1>2 DEF RestartNext, Served, MaintainAbandons, Crash, Startup, ScanFile, ScanEnd,
       RecordPackage, RecordCache, RecordKnown, processVars
  <2>2. QED
    BY <1>1, <1>2, <2>1 DEF InAgreement
<1>3. QED
  BY <1>2, RestartInvariant, PTL DEF RestartSpec, ServesInAgreement

----------------------------------------------------------------------------
(* Download counters across lifetimes.                                     *)

CountsWithin(rows, log) ==
    \A k \in DOMAIN rows :
        rows[k].downloads <= Cardinality({d \in DOMAIN log : log[d] = k})

(* So are those of the tables that the end of the process may bring back.  *)
CountsRestore ==
    ~DryRun => /\ CountInv
               /\ saved # NoTransaction => CountsWithin(saved[2], saved[3])

LEMMA CountedWithin ==
    ASSUME TypeOK, CountInv
    PROVE  CountsWithin(caches, downloads)
<1> SUFFICES ASSUME NEW k \in DOMAIN caches
             PROVE  caches[k].downloads <= Cardinality(Logged(k))
  BY DEF CountsWithin, Logged
<1>1. k \in Nat /\ caches[k] \in CacheRow
  BY ElementOfSeq, LenProperties DEF TypeOK, DatabaseTypeOK
<1>2. k \in Nat /\ caches[k].downloads \in Nat
  BY <1>1 DEF CacheRow
<1>3. IsFiniteSet(Counting(k)) /\ caches[k].downloads <= Spare(k)
  BY DEF CountInv, RowInOrder
<1>4. Spare(k) \in Int /\ Spare(k) <= Cardinality(Logged(k)) /\ Cardinality(Logged(k)) \in Nat
  BY <1>2, <1>3, SpareKept, LogGrows
<1>5. QED
  BY <1>2, <1>3, <1>4

(* While nothing runs, the log only has to cover the counters.             *)
LEMMA RestingCounts ==
    TypeOK /\ Resting /\ CountsWithin(caches, downloads) => CountInv
<1> SUFFICES ASSUME TypeOK, Resting, CountsWithin(caches, downloads) PROVE CountInv
  OBVIOUS
<1>1. ASSUME NEW k \in DOMAIN caches PROVE RowInOrder(k)
  <2>1. Counting(k) = {} /\ k \in Nat
    BY LenProperties DEF Resting, Counting, CountPC, TypeOK, DatabaseTypeOK
  <2>2. IsFiniteSet(Counting(k)) /\ Cardinality(Counting(k)) = 0
    BY <2>1, FS_EmptySet
  <2>3. Cardinality(Logged(k)) \in Nat
    BY <2>1, LogGrows
  <2>4. caches[k].downloads <= Cardinality(Logged(k))
    BY DEF CountsWithin, Logged
  <2>5. QED
    BY <2>2, <2>3, <2>4 DEF RowInOrder, Spare
<1>2. \A w \in Worker : CounterInOrder(w)
  BY DEF Resting, CounterInOrder, CountPC, NoCacheRow
<1>3. QED
  BY <1>1, <1>2 DEF CountInv

LEMMA CountsRestoreKept ==
    ASSUME RestartInv, RestartInv', CountsRestore, [RestartNext]_allVars
    PROVE  CountsRestore'
<1> SUFFICES ASSUME ~DryRun
             PROVE  CountInv' /\ (saved' # NoTransaction => CountsWithin(saved'[2], saved'[3]))
  BY DEF CountsRestore
<1> USE DEF CountsRestore
<1>0. TypeOK /\ CountsWithin(caches, downloads)
  BY CountedWithin DEF RestartInv
<1>1. CASE Served \/ UNCHANGED allVars
  <2>1. [Next]_vars
    BY <1>1 DEF Served, allVars
  <2>2. SavedStep
    BY <1>0, <2>1, StepRows
  <2>3. ASSUME saved' # NoTransaction PROVE CountsWithin(saved'[2], saved'[3])
    BY <1>0, <2>2, <2>3 DEF SavedStep, tables
  <2>4. QED
    BY <1>0, <2>1, <2>3, CountKept
<1>2. ASSUME UNCHANGED <<downloads, caches, saved, workerVars>>
      PROVE  CountInv' /\ (saved' # NoTransaction => CountsWithin(saved'[2], saved'[3]))
  BY <1>0, <1>2, MarkedStep
<1>3. ASSUME Resting', CountsWithin(caches, downloads)'
      PROVE  CountInv' /\ (saved' # NoTransaction => CountsWithin(saved'[2], saved'[3]))
  <2>1. TypeOK' /\ Resting' /\ CountsWithin(caches, downloads)' => CountInv'
    BY RestingCounts, PTL
  <2>2. QED
    BY <1>3, <2>1 DEF RestartInv, Resting
<1>4. CASE Crash
  <2>1. Resting'
    BY <1>4 DEF Crash, RestartInv
  <2>2. CASE saved = NoTransaction
    <3>1. UNCHANGED <<caches, downloads>>
      BY <1>4, <2>2 DEF Crash, UndoTransaction, tables
    <3>2. QED
      BY <1>0, <1>3, <2>1, <3>1 DEF CountsWithin
  <2>3. CASE saved # NoTransaction
    <3>1. caches' = saved[2] /\ downloads' = saved[3]
      BY <1>4, <2>3 DEF Crash, UndoTransaction, RestoreTables
    <3>2. QED
      BY <1>3, <2>1, <2>3, <3>1 DEF CountsWithin
  <2>4. QED
    BY <2>2, <2>3
<1>5. ASSUME NEW h \in Sha, RecordCache(h)
      PROVE  CountInv' /\ (saved' # NoTransaction => CountsWithin(saved'[2], saved'[3]))
  <2>1. proc' = "record"
    BY <1>5 DEF RecordCache, Recording
  <2>2. PICK p \in PackageIds(EntryPackage(h)) :
          InsertCache([sha |-> h, package |-> p, downloads |-> 0, deleted |-> FALSE])
    BY <1>5 DEF RecordCache
  <2> DEFINE r == [sha |-> h, package |-> p, downloads |-> 0, deleted |-> FALSE]
  <2>3. r \in CacheRow /\ r.downloads = 0
    BY <1>0, LenProperties, ServerConstants DEF TypeOK, DatabaseTypeOK, PackageIds, CacheRow
  <2> HIDE DEF r
  <2>4. caches' = Append(caches, r) /\ downloads' = downloads
    BY <2>2 DEF InsertCache, r
  <2>5. /\ DOMAIN caches' = DOMAIN caches \cup {Len(caches) + 1}
        /\ Len(caches) + 1 \in Nat
        /\ caches'[Len(caches) + 1] = r
        /\ \A k \in DOMAIN caches : caches'[k] = caches[k]
    BY <1>0, <2>3, <2>4, AppendProperties, LenProperties DEF TypeOK, DatabaseTypeOK
  <2>6. 0 <= Cardinality({d \in DOMAIN downloads : downloads[d] = Len(caches) + 1})
    <3>1. Cardinality(Logged(Len(caches) + 1)) \in Nat
      BY <1>0, <2>5, LogGrows
    <3>2. Cardinality(Logged(Len(caches) + 1)) >= 0
      BY <3>1
    <3>3. QED
      BY <3>2 DEF Logged
  <2>7. CountsWithin(caches, downloads)'
    BY <1>0, <2>3, <2>4, <2>5, <2>6 DEF CountsWithin
  <2>8. QED
    BY <1>3, <2>1, <2>7 DEF RestartInv
<1>6. ASSUME \/ MaintainAbandons \/ ScanFile \/ ScanEnd \/ Serve
             \/ \E h \in Sha : RecordPackage(h) \/ RecordKnown(h)
      PROVE  UNCHANGED <<downloads, caches, saved, workerVars>>
  BY <1>6 DEF MaintainAbandons, ScanFile, ScanEnd, Serve, RecordPackage, RecordKnown,
     InsertPackage, vars, dbVars
<1>7. QED
  BY <1>1, <1>2, <1>4, <1>5, <1>6 DEF RestartNext, Startup

(* The counter of a cache stays within its log, although the end of the    *)
(* process may take rows and log entries of an open transaction away.      *)
THEOREM CountersWithinLogInEachLifetime == RestartSpec => []CountsWithinLog
<1>1. RestartInit => CountsRestore
  BY CountInit DEF RestartInit, Init, CountsRestore
<1>2. RestartInv /\ CountsRestore => CountsWithinLog
  BY CountedWithin DEF RestartInv, CountsRestore, CountsWithin, CountsWithinLog, Logged
<1>3. RestartInv /\ RestartInv' /\ CountsRestore /\ [RestartNext]_allVars => CountsRestore'
  BY CountsRestoreKept
<1>4. QED
  BY <1>1, <1>2, <1>3, RestartInvariant, PTL DEF RestartSpec

----------------------------------------------------------------------------
(* Acknowledged uploads across lifetimes.                                  *)

(* RecordInv, but for a revived hash only its row: passes may remove its   *)
(* entry while it is uploaded, but they leave the row that revived it.     *)
RecordsRestart ==
    ~DryRun =>
        /\ \A s \in Sha : HashRecorded(s)
        /\ \A w \in Worker : LocalsInOrder(w) /\ (target[w] \in revived \/ RecordInOrder(w))
        /\ proc = "up" => \A s \in revived : Recorded(s)

(* While the process starts nothing is written, evicted or drafted.        *)
LEMMA RestingRecords ==
    RestartInv /\ proc # "up" => RecordsRestart
<1> SUFFICES ASSUME RestartInv, proc # "up" PROVE RecordsRestart
  OBVIOUS
<1>1. Resting /\ proc \in {"scan", "record"}
  BY DEF RestartInv, ProcessTypeOK
<1>2. ASSUME NEW s \in Sha PROVE HashRecorded(s)
  <2>1. Entered(s) \/ Unknown(s)
    BY <1>1 DEF RestartInv, Scanning, Catalogued
  <2>2. QED
    BY <1>1, <2>1 DEF Resting, Entered, Unknown, HashRecorded
<1>3. \A w \in Worker : LocalsInOrder(w) /\ RecordInOrder(w)
  BY <1>1 DEF Resting, LocalsInOrder, RecordInOrder, RecordPC
<1>4. QED
  BY <1>2, <1>3 DEF RecordsRestart

LEMMA ServedRecords ==
    ASSUME RestartInv, RecordsRestart, ~DryRun, Served
    PROVE  RecordsRestart'
<1>1. /\ TypeOK /\ [Next]_vars /\ proc = "up" /\ proc' = "up" /\ revived' = revived
      /\ \A s \in Sha : HashRecorded(s)
      /\ \A w \in Worker : LocalsInOrder(w) /\ (target[w] \in revived \/ RecordInOrder(w))
      /\ \A s \in revived : Recorded(s)
      /\ \A s \in Sha : s \notin revived => HashInv(s)
  BY DEF RestartInv, RecordsRestart, Served, processVars
<1>2. RowsStay
  BY <1>1, RowsStayThere
<1>3. \A s \in Sha : HashRecorded(s)'
  BY <1>1, <1>2, HashStaysRecorded
<1>4. \A w \in Worker : LocalsInOrder(w)'
  BY <1>1, LocalsKept
<1>5. \A s \in revived : Recorded(s)'
  BY <1>1, <1>2, RecordedStays
<1>6. ASSUME NEW w \in Worker PROVE target'[w] \in revived \/ RecordInOrder(w)'
  <2>1. CASE target[w] \in revived /\ (Waits(w) \/ Put(w) \/ Get(w))
    <3>1. target'[w] = target[w]
      BY <1>1, <2>1, HandlerFrame DEF Waits
    <3>2. QED
      BY <2>1, <3>1
  <2>2. CASE Request(w) \/ Throw(w) \/ Reply(w)
    BY <1>1, <2>2, FreshInOrder
  <2>3. CASE target[w] \notin revived
    BY <1>1, <1>2, <2>3, RecordInOrderKept
  <2>4. QED
    BY <1>1, <2>1, <2>2, <2>3, OneGoesOn DEF Handler
<1>7. QED
  BY <1>1, <1>3, <1>4, <1>5, <1>6 DEF RecordsRestart

LEMMA RecordsRestartKept ==
    ASSUME RestartInv, RestartInv', RecordsRestart, [RestartNext]_allVars
    PROVE  RecordsRestart'
<1> SUFFICES ASSUME ~DryRun PROVE RecordsRestart'
  BY DEF RecordsRestart
<1>1. CASE Served
  BY <1>1, ServedRecords
<1>2. ASSUME proc' # "up" PROVE RecordsRestart'
  <2>1. RestartInv' /\ (proc # "up")' => RecordsRestart'
    BY RestingRecords, PTL
  <2>2. QED
    BY <1>2, <2>1
<1>3. CASE Serve
  <2>1. /\ UNCHANGED vars /\ revived' = {s \in Sha : LiveRow(s) /\ ~Readable(s)}
        /\ proc # "up"
    BY <1>3 DEF Serve
  <2>2. /\ \A s \in Sha : HashRecorded(s)
        /\ \A w \in Worker : LocalsInOrder(w) /\ RecordInOrder(w)
    <3>1. Resting /\ \A s \in Sha : HashRecorded(s)
      BY <2>1 DEF RestartInv, RecordsRestart
    <3>2. QED
      BY <3>1 DEF Resting, LocalsInOrder, RecordInOrder, RecordPC
  <2>3. \A s \in Sha : LiveRow(s) => Recorded(s)
    BY DEF LiveRow, Recorded
  <2>4. QED
    BY <2>1, <2>2, <2>3 DEF RecordsRestart, vars, storeVars, dbVars, workerVars, requestVars,
       maintenanceVars, HashRecorded, LocalsInOrder, RecordInOrder, Recorded, CacheIds
<1>4. CASE MaintainAbandons \/ UNCHANGED allVars
  <2>1. /\ UNCHANGED <<processVars, infos, caches, workerVars>> /\ toDelete' \in {toDelete, <<>>}
    BY <1>4 DEF MaintainAbandons, allVars, vars, storeVars, dbVars, maintenanceVars
  <2>2. \A s \in Sha : HashRecorded(s)'
    BY <2>1 DEF RecordsRestart, HashRecorded, Recorded, CacheIds
  <2>3. ASSUME NEW w \in Worker
        PROVE  LocalsInOrder(w)' /\ (target'[w] \in revived' \/ RecordInOrder(w)')
    BY <2>1 DEF RecordsRestart, workerVars, requestVars, processVars, LocalsInOrder,
       RecordInOrder, Recorded, CacheIds
  <2>4. QED
    BY <2>1, <2>2, <2>3 DEF RecordsRestart, processVars, Recorded, CacheIds
<1>5. CASE \/ Crash \/ ScanFile \/ ScanEnd
           \/ \E s \in Sha : RecordPackage(s) \/ RecordCache(s) \/ RecordKnown(s)
  <2>1. proc' # "up"
    BY <1>5 DEF Crash, ScanFile, ScanEnd, RecordPackage, RecordCache, RecordKnown, Recording,
       processVars
  <2>2. QED
    BY <1>2, <2>1
<1>6. QED
  BY <1>1, <1>3, <1>4, <1>5 DEF RestartNext, Startup

(* A 200 still means a row in a process that was killed and started again, *)
(* for revived hashes too, whose uploads a pass may have robbed.           *)
THEOREM AcknowledgedAreRecordedInEachLifetime == RestartSpec => []AcknowledgedIsRecorded
<1>1. RestartInit => RecordsRestart
  BY StoreConstants DEF RestartInit, Init, ScannedInfos, RecordsRestart, HashRecorded,
     LocalsInOrder, RecordInOrder, RecordPC
<1>2. RestartInv /\ RecordsRestart => AcknowledgedIsRecorded
  <2>1. CASE proc = "up"
    BY <2>1 DEF RecordsRestart, RecordInOrder, Recorded, AcknowledgedIsRecorded
  <2>2. CASE proc # "up"
    BY <2>2 DEF RestartInv, Resting, AcknowledgedIsRecorded
  <2>3. QED
    BY <2>1, <2>2
<1>3. RestartInv /\ RestartInv' /\ RecordsRestart /\ [RestartNext]_allVars => RecordsRestart'
  BY RecordsRestartKept
<1>4. QED
  BY <1>1, <1>2, <1>3, RestartInvariant, PTL DEF RestartSpec

----------------------------------------------------------------------------
(* The promise that survives a restart.                                    *)

DurableState == [s \in Sha |-> DurableContent(s)]

(* A process that does not serve keeps the archives that are on disk.      *)
LEMMA DurableAtRest ==
    ASSUME RestartInv, NEW s \in Sha, proc # "up"
    PROVE  DurableContent(s) = IF disk[s] \in Archive THEN disk[s] ELSE "none"
BY DEF DurableContent

(* What the cache holds when the process ends is what the scan will find.  *)
LEMMA CrashKeepsArchives ==
    ASSUME RestartInv, Crash, NEW s \in Sha
    PROVE  /\ DurableContent(s)' \in Archive \cup {"none"}
           /\ DurableContent(s) \in Archive => DurableContent(s)' = DurableContent(s)
<1> USE DEF RestartInv
<1>1. DurableContent(s)' = IF disk'[s] \in Archive THEN disk'[s] ELSE "none"
  BY DEF Crash, DurableContent
<1>2. s \notin Unflushed => disk'[s] = disk[s]
  BY DEF Crash, Truncate
<1>3. ASSUME DurableContent(s) \in Archive PROVE disk'[s] = DurableContent(s)
  <2>1. CASE proc = "up"
    <3>1. s \notin revived /\ ContentOf(s) \in Archive /\ DurableContent(s) = ContentOf(s)
      BY <1>3, <2>1, RestartConstants DEF DurableContent
    <3>2. Uploads(s) = {} /\ Readable(s) /\ infos[s].info # NoInfo /\ ContentOf(s) = infos[s].info
      BY <3>1, RestartConstants DEF ContentOf
    <3>3. disk[s] = infos[s].info
      BY <2>1, <3>1, <3>2 DEF HashInv, OnDisk
    <3>4. s \notin Unflushed
      <4>1. ASSUME NEW w \in Worker, pc[w] = "extract", handle[w].path = s PROVE FALSE
        <5>1. target[w] = s
          BY <4>1, StoreConstants DEF WritesOwn
        <5>2. w \in Uploads(s)
          BY <4>1, <5>1 DEF Uploads, WriterPC
        <5>3. QED
          BY <3>2, <5>2
      <4>2. QED
        BY <4>1 DEF Unflushed
    <3>5. QED
      BY <1>2, <3>1, <3>2, <3>3, <3>4
  <2>2. CASE proc # "up"
    <3>1. disk[s] = DurableContent(s)
      BY <1>3, <2>2, RestartConstants DEF DurableContent
    <3>2. s \notin Unflushed
      BY <2>2 DEF Resting, Unflushed
    <3>3. QED
      BY <1>2, <3>1, <3>2
  <2>3. QED
    BY <2>1, <2>2
<1>4. QED
  BY <1>1, <1>3

LEMMA ServedKeepsPromise ==
    ASSUME RestartInv, Served
    PROVE  UNCHANGED DurableState \/ Durable!Next
<1> USE DEF RestartInv, Served, processVars
<1>1. OneHashStep
  BY HashStep
<1>2. ASSUME NEW s \in Sha, Calm(s) PROVE DurableContent(s)' = DurableContent(s)
  BY <1>2, CalmContent DEF DurableContent
<1>3. ASSUME NEW r \in Sha, OnlyStirs(r) PROVE UNCHANGED DurableState \/ Durable!Next
  <2>1. \A s \in Sha : s # r => DurableContent(s)' = DurableContent(s)
    BY <1>2, <1>3 DEF OnlyStirs
  <2>2. CASE r \in revived
    <3>1. DurableContent(r)' = DurableContent(r)
      BY <2>2 DEF DurableContent
    <3>2. QED
      BY <2>1, <3>1 DEF DurableState
  <2>3. CASE r \notin revived
    <3> DEFINE content == [s \in Sha |-> DurableContent(s)]
    <3>1. ContentStep(r)
      BY <1>3, <2>3, StirredContent DEF OnlyStirs
    <3>2. DurableContent(r) = ContentOf(r) /\ DurableContent(r)' = ContentOf(r)'
      BY <2>3 DEF DurableContent
    <3>3. content' = [content EXCEPT ![r] = ContentOf(r)'] /\ content[r] = ContentOf(r)
      BY <2>1, <3>2
    <3>4. CASE ContentOf(r)' = ContentOf(r)
      BY <2>1, <3>2, <3>4 DEF DurableState
    <3>5. CASE ContentOf(r) = "none" /\ ContentOf(r)' = "uploading"
      BY <3>3, <3>5 DEF Durable!Next, Durable!Upload, Durable!Become
    <3>6. CASE ContentOf(r) \in {"none", "uploading"} /\ ContentOf(r)' = "broken"
      BY <3>3, <3>6 DEF Durable!Next, Durable!Fail, Durable!Become
    <3>7. CASE ContentOf(r) \in {"none", "uploading"} /\ ContentOf(r)' \in Archive
      BY <3>3, <3>7 DEF Durable!Next, Durable!Complete, Durable!Discover, Durable!Become
    <3>8. CASE ContentOf(r) \in Archive /\ ContentOf(r)' = "none"
      BY <3>3, <3>8 DEF Durable!Next, Durable!Evict, Durable!Become
    <3>9. QED
      BY <3>1, <3>4, <3>5, <3>6, <3>7, <3>8 DEF ContentStep
  <2>4. QED
    BY <2>2, <2>3
<1>4. QED
  BY <1>1, <1>2, <1>3 DEF OneHashStep, AllCalm, DurableState

LEMMA DurableStep ==
    ASSUME RestartInv, [RestartNext]_allVars
    PROVE  [Durable!DurableNext]_<<DurableState, proc = "up">>
<1> USE DEF RestartInv
<1>1. ASSUME \A s \in Sha : DurableContent(s)' = DurableContent(s), proc' = proc
      PROVE  UNCHANGED <<DurableState, proc = "up">>
  BY <1>1 DEF DurableState
<1>2. ASSUME proc = "up", proc' = "up", UNCHANGED DurableState \/ Durable!Next
      PROVE  [Durable!DurableNext]_<<DurableState, proc = "up">>
  BY <1>2 DEF Durable!DurableNext, Durable!Serve, DurableState
<1>3. ASSUME ~(proc = "up" /\ proc' = "up"),
             \A s \in Sha :
                /\ DurableContent(s)' \in Archive \cup {"none"}
                /\ DurableContent(s) \in Archive => DurableContent(s)' = DurableContent(s)
      PROVE  Durable!DurableNext
  BY <1>3 DEF Durable!DurableNext, Durable!Recover
<1>4. CASE Served
  BY <1>2, <1>4, ServedKeepsPromise DEF Served, processVars
<1>5. CASE MaintainAbandons \/ UNCHANGED allVars
  <2>1. \A s \in Sha : DurableContent(s)' = DurableContent(s)
    BY <1>5 DEF MaintainAbandons, allVars, vars, processVars, storeVars, workerVars, requestVars,
       DurableContent, ContentOf, Uploads, Readable
  <2>2. proc' = proc
    BY <1>5 DEF MaintainAbandons, allVars, processVars
  <2>3. QED
    BY <1>1, <2>1, <2>2
<1>6. CASE Crash
  BY <1>3, <1>6, CrashKeepsArchives DEF Crash
<1>7. CASE ScanFile
  <2> DEFINE content == [s \in Sha |-> DurableContent(s)]
  <2>1. proc # "up" /\ (proc # "up")' /\ proc' = proc
    BY <1>7 DEF ScanFile
  <2>2. PICK h \in Sha : h = Head(todo)
    BY <1>7, HeadOfTodo DEF ScanFile, ProcessTypeOK
  <2>3. \/ UNCHANGED disk
        \/ Unextractable(h) /\ disk' = [disk EXCEPT ![h] = NoFile]
    BY <1>7, <2>2 DEF ScanFile, RemoveRejected
  <2>4. \A s \in Sha : s # h \/ UNCHANGED disk => DurableContent(s)' = DurableContent(s)
    BY <2>1, <2>2, <2>3 DEF DurableContent, TypeOK, StoreTypeOK
  <2>5. CASE UNCHANGED disk \/ disk[h] \notin Archive
    <3>1. \/ disk'[h] = disk[h]
          \/ disk[h] \notin Archive /\ disk'[h] \notin Archive
      BY <2>2, <2>3, <2>5, StoreConstants DEF TypeOK, StoreTypeOK
    <3>2. DurableContent(h)' = DurableContent(h)
      BY <2>1, <3>1 DEF DurableContent
    <3>3. \A s \in Sha : DurableContent(s)' = DurableContent(s)
      BY <2>4, <3>2
    <3>4. QED
      BY <1>1, <2>1, <3>3
  <2>6. CASE disk[h] \in Archive /\ disk' = [disk EXCEPT ![h] = NoFile] /\ Unextractable(h)
    <3>1. DiskFaults
      BY <2>6 DEF Unextractable, Extractable
    <3>2. disk'[h] \notin Archive
      BY <2>2, <2>6, StoreConstants DEF TypeOK, StoreTypeOK
    <3>3. DurableContent(h) \in Archive /\ DurableContent(h)' = "none"
      BY <2>1, <2>6, <3>2 DEF DurableContent
    <3>4. \A s \in Sha : DurableContent(s)' = IF s = h THEN "none" ELSE DurableContent(s)
      BY <2>4, <3>3
    <3>5. content[h] \in Archive /\ content' = [content EXCEPT ![h] = "none"]
      BY <2>2, <3>3, <3>4
    <3>6. Durable!Forget(h)
      BY <2>1, <3>1, <3>5 DEF Durable!Forget
    <3>7. QED
      BY <2>2, <3>6 DEF Durable!DurableNext
  <2>7. QED
    BY <2>3, <2>5, <2>6
<1>8. ASSUME ScanEnd \/ \E h \in Sha : RecordPackage(h) \/ RecordCache(h) \/ RecordKnown(h)
      PROVE  UNCHANGED <<DurableState, proc = "up">>
  <2>1. proc # "up" /\ proc' # "up" /\ UNCHANGED disk
    BY <1>8 DEF ScanEnd, RecordPackage, RecordCache, RecordKnown, Recording, processVars, vars,
       storeVars
  <2>2. QED
    BY <2>1 DEF DurableState, DurableContent
<1>9. CASE Serve
  <2>1. ASSUME NEW s \in Sha
        PROVE  /\ DurableContent(s)' \in Archive \cup {"none"}
               /\ DurableContent(s) \in Archive => DurableContent(s)' = DurableContent(s)
    <3>1. /\ disk[s] # NoFile <=> Readable(s)
          /\ Readable(s) => Entered(s)
          /\ Uploads(s) = {}
          /\ Catalogued(s)
      BY <1>9, CataloguedInOrder DEF Serve
    <3>2. UNCHANGED <<disk, infos, pc, target>>
      BY <1>9 DEF Serve, vars, storeVars, workerVars, requestVars
    <3>3. DurableContent(s) = IF disk[s] \in Archive THEN disk[s] ELSE "none"
      BY <1>9 DEF Serve, DurableContent
    <3>4. DurableContent(s)' = IF s \in revived' THEN "none" ELSE ContentOf(s)'
      BY <1>9 DEF Serve, DurableContent
    <3>5. ContentOf(s)' = ContentOf(s)
      BY <3>2 DEF ContentOf, Uploads, Readable
    <3>6. CASE Readable(s)
      <4>1. Entered(s) /\ s \notin revived'
        BY <1>9, <3>1, <3>6 DEF Serve
      <4>2. ContentOf(s) = disk[s] /\ disk[s] \in Archive
        BY <3>1, <3>6, <4>1, StoreConstants DEF Entered, ContentOf, Readable
      <4>3. QED
        BY <3>3, <3>4, <3>5, <4>1, <4>2
    <3>7. CASE ~Readable(s)
      <4>1. disk[s] = NoFile /\ infos[s].st = "Absent"
        BY <3>1, <3>7 DEF Catalogued, Unknown
      <4>2. ContentOf(s) = "none"
        BY <3>1, <4>1 DEF ContentOf
      <4>3. QED
        BY <3>3, <3>4, <3>5, <4>1, <4>2, StoreConstants
    <3>8. QED
      BY <3>6, <3>7
  <2>2. QED
    BY <1>3, <1>9, <2>1 DEF Serve
<1>10. QED
  BY <1>4, <1>5, <1>6, <1>7, <1>8, <1>9 DEF RestartNext, Startup

(* Seen as DurableContent, the server keeps the promise of DurableCache:   *)
(* its end and its start take no archive, unless a file does not open, and *)
(* heal uploads that were cut short; in between it keeps the promise of    *)
(* ArchiveCache.                                                           *)
THEOREM ArchivesSurvive == RestartSpec => SurvivesRestart
<1>1. RestartInit => Durable!Init /\ (proc = "up") = TRUE
  <2> SUFFICES ASSUME RestartInit PROVE Durable!Init /\ (proc = "up") = TRUE
    OBVIOUS
  <2>1. Cache!Init
    BY CacheInit DEF RestartInit
  <2>2. ASSUME NEW s \in Sha PROVE DurableContent(s) \in Archive \cup {"none"}
    BY <2>1 DEF Cache!Init, RestartInit, DurableContent
  <2>3. QED
    BY <2>2 DEF Durable!Init, RestartInit
<1>2. RestartInv /\ [RestartNext]_allVars
        => [Durable!DurableNext]_<<[s \in Sha |-> DurableContent(s)], proc = "up">>
  BY DurableStep DEF DurableState
<1>3. QED
  BY <1>1, <1>2, RestartInvariant, PTL DEF RestartSpec, SurvivesRestart, Durable!DurableSpec
=============================================================================
