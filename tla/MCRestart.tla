----------------------------- MODULE MCRestart -----------------------------
(* Small instances of Restart for TLC.                                     *)
EXTENDS Restart, TLC

MCRowSha == Sha \cup {NoSha}
MCPackageName == Package \cup {NoName}
MCPackageOf == [a \in Archive |-> CHOOSE p \in Package : TRUE]
MCContent == Archive \cup {Partial}

Symmetry == Permutations(Worker) \cup Permutations(Sha) \cup Permutations(Archive)

(* Bound: no request reads or counts a cache while the table has the row   *)
(* of an empty Info. Counters, lifetimes and failing files multiply; the   *)
(* run of the server has GETs beside such a row.                           *)
NamelessUncounted ==
    downloads # <<>> \/ (\E w \in Worker : pc[w] \in GetPC) => CacheIds(NoSha) = {}

=============================================================================
