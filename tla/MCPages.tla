------------------------------ MODULE MCPages ------------------------------
(* Small instances of Pages for TLC.                                       *)
EXTENDS Pages, TLC

MCRowSha == Sha \cup {NoSha}
MCPackageName == Package \cup {NoName}
MCPackageOf == [a \in Archive |-> CHOOSE p \in Package : TRUE]
MCContent == Archive \cup {Partial}

Symmetry == Permutations(Worker) \cup Permutations(Sha) \cup Permutations(Archive)

=============================================================================
