---------------------------- MODULE ArchiveCache ----------------------------
(***************************************************************************)
(* What the server promises about the archive of each hash, whatever its   *)
(* threads do: at most one upload at a time, an archive that appears whole *)
(* and stays as it is until maintenance evicts it, and an upload that      *)
(* failed never turning into an archive.                                   *)
(***************************************************************************)
CONSTANTS Sha, Archive, None, Uploading, Broken

VARIABLE content    \* [Sha -> Archive \cup {None, Uploading, Broken}]

Init == content \in [Sha -> Archive \cup {None}]

Become(s, from, to) ==
    /\ content[s] \in from
    /\ content' = [content EXCEPT ![s] = to]

(* A PUT begins to receive a body, or finds that it cannot write one.      *)
Upload(s) == Become(s, {None}, Uploading)
Fail(s) == Become(s, {None, Uploading}, Broken)

(* The body was a well-formed archive.                                     *)
Complete(s, a) == Become(s, {Uploading}, a)

(* An archive that another process put into the directory is noticed.      *)
Discover(s, a) == Become(s, {None}, a)

Evict(s) == Become(s, Archive, None)

Next ==
    \E s \in Sha :
        \/ Upload(s) \/ Fail(s) \/ Evict(s)
        \/ \E a \in Archive : Complete(s, a) \/ Discover(s, a)

Spec == Init /\ [][Next]_content

=============================================================================
