--------------------------- MODULE MCMaintenance ---------------------------
(* Small instances of Maintenance for TLC.                                 *)
EXTENDS Maintenance

(* One clock on each side of -1, far enough that no time is -1.            *)
MCClocks == {-2, 2}

Symmetry == Permutations(Package) \cup Permutations(Reader)

=============================================================================
