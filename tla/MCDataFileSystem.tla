-------------------------- MODULE MCDataFileSystem --------------------------
(* The small instance of DataFileSystem that TLC checks.                   *)
EXTENDS DataFileSystem, TLC

\* Nothing tells the threads apart, nor the paths.
Symmetry == Permutations(Threads) \union Permutations(Paths)
=============================================================================
