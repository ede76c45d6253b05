------------------------------ MODULE Restart ------------------------------
(***************************************************************************)
(* The life of the server process around CacheServer: it may end at any    *)
(* point, and on its next start scans the cache directory (Store's         *)
(* constructor) and adds the rows that are missing (main) before it serves *)
(* anything. What it kept in memory is lost; files stay as they were left  *)
(* and SQLite undoes the transaction that was open. A remove that throws   *)
(* during the scan ends the process too.                                   *)
(***************************************************************************)
EXTENDS CacheServer

SeqsExt == INSTANCE SequencesExt

(* A route names a hash by 64 hexadecimal digits, and no archive is one of *)
(* the words by which DurableContent tells that there is none.             *)
ASSUME RestartConstants ==
    /\ IsFiniteSet(Sha)
    /\ Archive \cap {"none", "uploading", "broken"} = {}

VARIABLES
    proc,       \* "scan", "record" or "up": how far the process has started
    todo,       \* the hashes that the current phase still has to visit
    revived     \* history: hashes with a live row and no entry at startup

processVars == <<proc, todo, revived>>
allVars == <<vars, processVars>>

ProcessTypeOK ==
    /\ proc \in {"scan", "record", "up"}
    /\ todo \in Seq(Sha)
    /\ proc = "up" => todo = <<>>
    /\ revived \subseteq Sha

LiveRow(s) == \E k \in CacheIds(s) : ~caches[k].deleted

----------------------------------------------------------------------------
(* The end of the process.                                                 *)

(* A file whose stream was not closed yet may lack what was buffered.      *)
Unflushed == {s \in Sha : \E w \in Worker : pc[w] = "extract" /\ handle[w].path = s}

Truncate(lost) == disk' = [s \in Sha |-> IF s \in lost THEN Partial ELSE disk[s]]

UndoTransaction ==
    IF saved = NoTransaction THEN UNCHANGED tables ELSE RestoreTables(saved)

ForgetWorkers ==
    /\ pc' = [w \in Worker |-> "idle"]
    /\ target' = [w \in Worker |-> NoSha]
    /\ seen' = [w \in Worker |-> NoInfo]
    /\ cid' = [w \in Worker |-> 0]
    /\ row' = [w \in Worker |-> NoCacheRow]
    /\ prow' = [w \in Worker |-> NoPackageRow]
    /\ status' = [w \in Worker |-> 0]

Crash ==
    /\ \E lost \in SUBSET Unflushed : Truncate(lost)
    /\ UndoTransaction
    /\ saved' = NoTransaction
    /\ lastId' = 0
    /\ infos' = [s \in Sha |-> [st |-> "Absent", info |-> NoInfo]]
    /\ handle' = [c \in Client |-> Closed]
    /\ ForgetWorkers
    /\ mpc' = "idle"
    /\ toDelete' = <<>>
    /\ proc' = "scan"
    /\ todo' \in SeqsExt!SetToSeqs({s \in Sha : disk[s] # NoFile})
    /\ UNCHANGED revived

----------------------------------------------------------------------------
(* scan: a file on which extractInfo throws is removed from the directory, *)
(* a well-formed archive too if it could not be opened.                    *)

RemoveRejected(s) == disk' = [disk EXCEPT ![s] = NoFile]

ScanFile ==
    /\ proc = "scan"
    /\ todo # <<>>
    /\ \/ /\ Extractable(Head(todo))
          /\ infos' = TryEmplace(Head(todo), disk[Head(todo)])
          /\ UNCHANGED disk
       \/ /\ Unextractable(Head(todo))
          /\ RemoveRejected(Head(todo))
          /\ UNCHANGED infos
    /\ todo' = Tail(todo)
    /\ UNCHANGED <<proc, revived, handle, dbVars, workerVars, maintenanceVars>>

ScanEnd ==
    /\ proc = "scan"
    /\ todo = <<>>
    /\ proc' = "record"
    /\ todo' \in SeqsExt!SetToSeqs({s \in Sha : Readable(s)})
    /\ UNCHANGED <<revived, vars>>

----------------------------------------------------------------------------
(* main: a package and a row for every entry that has none.                *)

EntryPackage(s) == NameOf(infos[s].info)

Recording(s) == proc = "record" /\ todo # <<>> /\ s = Head(todo)

RecordPackage(s) ==
    /\ Recording(s)
    /\ PackageIds(EntryPackage(s)) = {}
    /\ InsertPackage(EntryPackage(s))
    /\ UNCHANGED <<processVars, storeVars, workerVars, maintenanceVars>>

RecordCache(s) ==
    /\ Recording(s)
    /\ CacheIds(s) = {}
    /\ \E p \in PackageIds(EntryPackage(s)) :
         InsertCache([sha |-> s, package |-> p, downloads |-> 0, deleted |-> FALSE])
    /\ todo' = Tail(todo)
    /\ UNCHANGED <<proc, revived, storeVars, workerVars, maintenanceVars>>

(* mutant: an entry whose package is known is taken for recorded *)
RecordKnownPackage(s) ==
    /\ Recording(s)
    /\ PackageIds(EntryPackage(s)) # {}
    /\ todo' = Tail(todo)
    /\ UNCHANGED <<proc, revived, vars>>

RecordKnown(s) ==
    /\ Recording(s)
    /\ PackageIds(EntryPackage(s)) # {}
    /\ CacheIds(s) # {}
    /\ todo' = Tail(todo)
    /\ UNCHANGED <<proc, revived, vars>>

Serve ==
    /\ proc = "record"
    /\ todo = <<>>
    /\ proc' = "up"
    /\ revived' = {s \in Sha : LiveRow(s) /\ ~Readable(s)}
    /\ UNCHANGED <<todo, vars>>

Startup ==
    \/ ScanFile \/ ScanEnd
    \/ \E s \in Sha : RecordPackage(s) \/ RecordCache(s) \/ RecordKnown(s)
    \/ Serve

----------------------------------------------------------------------------
(* A statement of the pass throws. Nothing rolls back, so the transaction  *)
(* stays open while the thread's loop has ended, and every later statement *)
(* of any thread joins it.                                                 *)
MaintainAbandons ==
    /\ proc = "up"
    /\ mpc = "mark"
    /\ mpc' = "dead"
    /\ toDelete' = <<>>
    /\ UNCHANGED <<processVars, storeVars, dbVars, workerVars>>

Served == proc = "up" /\ Next /\ UNCHANGED processVars

RestartInit == Init /\ proc = "up" /\ todo = <<>> /\ revived = {}

RestartNext == Served \/ MaintainAbandons \/ Crash \/ Startup

RestartSpec == RestartInit /\ [][RestartNext]_allVars

----------------------------------------------------------------------------
(* Safety.                                                                 *)

(* What counts as the content of a hash while the process starts is the    *)
(* file that the scan will find, or nothing. Seen so, the end of the       *)
(* process and its start keep every archive that was there, but for one    *)
(* that the scan could not open, and heal the uploads that were cut short  *)
(* or had failed; and between them the server keeps its promise. The       *)
(* revived hashes of this lifetime are left out: a pass that has a live    *)
(* row for them removes entries in any state.                              *)
DurableContent(s) ==
    IF proc # "up" THEN (IF disk[s] \in Archive THEN disk[s] ELSE "none")
    ELSE IF s \in revived THEN "none"
    ELSE ContentOf(s)

Durable == INSTANCE DurableCache
           WITH None <- "none", Uploading <- "uploading", Broken <- "broken",
                content <- [s \in Sha |-> DurableContent(s)], up <- proc = "up",
                Faulty <- DiskFaults

SurvivesRestart == Durable!DurableSpec

(* When the process starts to serve, memory, directory and database agree  *)
(* again, wherever the last lifetime ended and whatever its open           *)
(* transaction lost: no file but archives, and for each of them an entry   *)
(* with its Info and one row.                                              *)
InAgreement ==
    \A s \in Sha :
        /\ disk[s] # NoFile <=> Readable(s)
        /\ Readable(s) => infos[s].info = disk[s] /\ Cardinality(CacheIds(s)) = 1

ServesInAgreement == [][proc # "up" /\ proc' = "up" => InAgreement']_allVars

(* Across lifetimes still no two PUTs write one hash, unless the process   *)
(* started with a live row whose archive is gone: a row that updateLastUse *)
(* wrote back from a copy made before the pass marked it, or the row of an *)
(* archive that the scan could not open. A later pass removes by that row, *)
(* and what it removes may be uploading.                                   *)
OneUploadUnlessRevived ==
    \A s \in Sha \ revived : OneUploadOf(s)

(* The Info of a readable entry is that of its file, in every lifetime.    *)
ValidOnDiskUnlessRevived ==
    proc = "up" => \A s \in Sha \ revived : OnDisk(s)

=============================================================================
