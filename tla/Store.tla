------------------------------- MODULE Store -------------------------------
(***************************************************************************)
(* The on-disk archive store (store.cpp, store.hpp): the table of known    *)
(* archives `infos`, the cache directory `disk`, and the file handles that *)
(* request threads (clients of the store) hold open between calls.         *)
(*                                                                         *)
(* Every critical section under smtx, and every file operation outside it, *)
(* is one operator; CacheServer gives each its place in a thread.          *)
(***************************************************************************)
EXTENDS Naturals

CONSTANTS
    Sha,        \* the hashes that requests name
    Archive,    \* well-formed archives, told apart by content and size
    Client,     \* the threads that hold store readers and writers
    NoSha,      \* the empty string, the hash of a default-constructed Info
    NoInfo,     \* a default-constructed Info
    NoFile,     \* no file in the directory, or a stream that failed to open
    Partial,    \* a file that extractInfo rejects: truncated or corrupt
    DiskFaults  \* whether opening, closing or removing a file may fail

ASSUME StoreConstants ==
    /\ NoSha \notin Sha
    /\ NoInfo \notin Archive
    /\ NoFile \notin Archive \cup {Partial}
    /\ Partial \notin Archive
    /\ DiskFaults \in BOOLEAN

VARIABLES
    infos,      \* [Sha -> [st, info]]: the map `infos`; "Absent" is no entry
    disk,       \* [Sha -> content or NoFile]: the files <root>/xx/<sha>.zip
    handle      \* [Client -> [file, path]]: the stream a client has open

storeVars == <<infos, disk, handle>>

Content == Archive \cup {Partial}
InfoState == {"Absent", "Valid", "Writing", "Deleted"}
Info == Archive \cup {NoInfo}

(* `path` is the directory entry that still names the open file; NoSha     *)
(* once it has been unlinked. A stream that failed to open is Closed.      *)
Handle == [file : Content \cup {NoFile}, path : Sha \cup {NoSha}]
Closed == [file |-> NoFile, path |-> NoSha]
Linked(s, x) == [file |-> x, path |-> s]

StoreTypeOK ==
    /\ infos \in [Sha -> [st : InfoState, info : Info]]
    /\ disk \in [Sha -> Content \cup {NoFile}]
    /\ handle \in [Client -> Handle]

(* The sha field of an Info read from the entry of s.                      *)
ShaOf(s, i) == IF i = NoInfo THEN NoSha ELSE s

----------------------------------------------------------------------------
(* The file system.                                                        *)

(* The file at s now holds x; handles on that same file see it.            *)
Rewrite(c, s, x) ==
    /\ disk' = [disk EXCEPT ![s] = x]
    /\ handle' = [d \in Client |->
                    IF d = c \/ handle[d].path = s THEN Linked(s, x) ELSE handle[d]]

(* std::ofstream{path}: creates the file, or truncates the one there.      *)
OpenForWriting(c, s) == Rewrite(c, s, Partial)

(* The body has been written through c's stream, which an unlink may have  *)
(* separated from the directory.                                           *)
WriteBody(c, s, x) ==
    IF handle[c].path = s
    THEN Rewrite(c, s, x)
    ELSE /\ handle' = [handle EXCEPT ![c].file = x]
         /\ UNCHANGED disk

(* mutant: the file outlives its entry *)
KeepFile(s) == UNCHANGED <<disk, handle>>

Unlink(s) ==
    /\ disk' = [disk EXCEPT ![s] = NoFile]
    /\ handle' = [d \in Client |->
                    IF handle[d].path = s THEN [handle[d] EXCEPT !.path = NoSha]
                                          ELSE handle[d]]

Close(c) == handle' = [handle EXCEPT ![c] = Closed]

(* A file put into the directory by another process.                       *)
ExternalAdd(s, x) ==
    /\ disk[s] = NoFile
    /\ disk' = [disk EXCEPT ![s] = x]
    /\ UNCHANGED <<infos, handle>>

----------------------------------------------------------------------------
(* Store::read and Store::info.                                            *)

Readable(s) == infos[s].st = "Valid"

(* The reader opens the path of the hash inside the Info, so an empty Info *)
(* opens no file. i is the Info that this read of the entry observes.      *)
(* Nobody asks the stream whether it opened.                               *)
ReaderStream(s, i) ==
    IF i = NoInfo \/ disk[s] = NoFile THEN Closed ELSE Linked(s, disk[s])

Read(c, s, i) ==
    /\ Readable(s)
    /\ \E h \in {ReaderStream(s, i)} \cup (IF DiskFaults THEN {Closed} ELSE {}) :
         handle' = [handle EXCEPT ![c] = h]
    /\ UNCHANGED <<infos, disk>>

(* mutants: a truncated file is accepted; a file is entered without its Info *)
ExtractsAnything(s) == disk[s] # NoFile
EmplaceEmpty(s, i) ==
    IF infos[s].st = "Absent"
    THEN [infos EXCEPT ![s] = [st |-> "Valid", info |-> NoInfo]]
    ELSE infos

(* extractInfo: returns the Info of a well-formed archive, and throws on   *)
(* anything else, or if the file does not open, whatever is in it.         *)
Extractable(s) == disk[s] \in Archive
Unextractable(s) == DiskFaults \/ ~Extractable(s)

(* try_emplace of an extracted Info: an existing entry is left as it is.   *)
TryEmplace(s, i) ==
    IF infos[s].st = "Absent"
    THEN [infos EXCEPT ![s] = [st |-> "Valid", info |-> i]]
    ELSE infos

----------------------------------------------------------------------------
(* Store::write, one operator per way out of its critical section.         *)

(* mutants: a second PUT is let in while one is writing, or over a readable entry *)
ClaimedWhenValid(s) == infos[s].st = "Valid"
ClaimedWhenWriting(s) == infos[s].st = "Writing"

Claimed(s) == infos[s].st \in {"Valid", "Writing"}

MarkWriting(s) == [infos EXCEPT ![s].st = "Writing"]

WriteConflict(s) ==
    /\ Claimed(s)
    /\ UNCHANGED storeVars

WriteAgain(c, s) ==
    /\ ~Claimed(s)
    /\ infos[s].st # "Absent"
    /\ infos' = MarkWriting(s)
    /\ OpenForWriting(c, s)

WriteDiscover(s) ==
    /\ infos[s].st = "Absent"
    /\ Extractable(s)
    /\ infos' = TryEmplace(s, disk[s])
    /\ UNCHANGED <<disk, handle>>

WriteDiscoverThrows(s) ==
    /\ infos[s].st = "Absent"
    /\ disk[s] # NoFile
    /\ Unextractable(s)
    /\ UNCHANGED storeVars

WriteFresh(c, s) ==
    /\ infos[s].st = "Absent"
    /\ disk[s] = NoFile
    /\ infos' = TryEmplace(s, NoInfo)
    /\ OpenForWriting(c, s)

(* The StoreWriter constructor throws: the entry is changed, no file is    *)
(* opened and nothing changes the entry back.                              *)
WriteOpenThrows(s) ==
    /\ infos[s].st \in {"Absent", "Deleted"}
    /\ infos[s].st = "Absent" => disk[s] = NoFile
    /\ infos' = IF infos[s].st = "Deleted" THEN MarkWriting(s) ELSE TryEmplace(s, NoInfo)
    /\ UNCHANGED <<disk, handle>>

----------------------------------------------------------------------------
(* StoreWriter::~StoreWriter: close and extract, assign the Info without   *)
(* the lock, publish under it. A stream that does not close is, like an    *)
(* Info that cannot be extracted, an exception.                            *)

(* mutant: a copy of the pair is assigned *)
AssignCopy(s, i) == UNCHANGED storeVars

AssignInfo(s, i) ==
    /\ infos' = [infos EXCEPT ![s].info = i]
    /\ UNCHANGED <<disk, handle>>

(* mutant: the state is not set back *)
PublishNothing(s) == UNCHANGED storeVars

Publish(s) ==
    /\ infos' = [infos EXCEPT ![s].st = "Valid"]
    /\ UNCHANGED <<disk, handle>>

----------------------------------------------------------------------------
(* Store::remove.                                                          *)

Removable(s) == infos[s].st = "Valid"

(* mutants: the entry is not marked, or is erased *)
MarkNothing(s) == infos
EraseEntry(s) == [infos EXCEPT ![s] = [st |-> "Absent", info |-> NoInfo]]

MarkDeleted(s) == [infos EXCEPT ![s].st = "Deleted"]

Remove(s) ==
    /\ Removable(s)
    /\ infos' = MarkDeleted(s)
    /\ Unlink(s)

(* std::filesystem::remove throws after the state has been set.            *)
RemoveThrows(s) ==
    /\ Removable(s)
    /\ infos' = MarkDeleted(s)
    /\ UNCHANGED <<disk, handle>>

RemoveSkips(s) ==
    /\ ~Removable(s)
    /\ UNCHANGED storeVars

----------------------------------------------------------------------------
(* The constructor's scan of directory d: what extractInfo accepts becomes *)
(* a Valid entry.                                                          *)

ScannedInfos(d) ==
    [s \in Sha |-> IF d[s] \in Archive THEN [st |-> "Valid", info |-> d[s]]
                                       ELSE [st |-> "Absent", info |-> NoInfo]]

=============================================================================
