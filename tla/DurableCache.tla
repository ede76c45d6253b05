---------------------------- MODULE DurableCache ----------------------------
(***************************************************************************)
(* What the cache promises across the lives of its server process: the     *)
(* process ends at any point and starts again, and the cache still keeps   *)
(* every archive it had, unless files may fail to open.                    *)
(***************************************************************************)
EXTENDS ArchiveCache

CONSTANT Faulty \* whether opening a file may fail

VARIABLE up     \* whether the server serves

(* While it serves, only an eviction takes an archive away.                *)
Serve == up /\ up' /\ Next

(* Its end and its start take none, and leave nothing half done: an upload *)
(* cut short becomes an archive or leaves no trace, no hash stays broken,  *)
(* and a file that could not be removed is an archive again.               *)
Recover ==
    /\ ~(up /\ up')
    /\ content' \in [Sha -> Archive \cup {None}]
    /\ \A s \in Sha : content[s] \in Archive => content'[s] = content[s]

(* A start takes an archive that it cannot open for a broken one.          *)
Forget(s) ==
    /\ Faulty
    /\ ~up /\ ~up'
    /\ content[s] \in Archive
    /\ content' = [content EXCEPT ![s] = None]

DurableNext == Serve \/ Recover \/ \E s \in Sha : Forget(s)

DurableSpec == Init /\ up = TRUE /\ [][DurableNext]_<<content, up>>

=============================================================================
