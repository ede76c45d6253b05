--------------------------- MODULE MCCacheServer ---------------------------
(* Small instances of CacheServer for TLC.                                 *)
EXTENDS CacheServer, TLC

MCRowSha == Sha \cup {NoSha}
MCPackageName == Package \cup {NoName}

(* One package, so that uploads of different hashes race to insert it.     *)
MCPackageOf == [a \in Archive |-> CHOOSE p \in Package : TRUE]

(* As many packages as archives, each archive of a package of its own.     *)
MCOwnPackage ==
    CHOOSE f \in [Archive -> Package] : \A a, b \in Archive : f[a] = f[b] => a = b

MCContent == Archive \cup {Partial}

Symmetry == Permutations(Worker) \cup Permutations(Sha) \cup Permutations(Archive)

=============================================================================
