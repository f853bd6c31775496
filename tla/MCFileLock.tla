----------------------------- MODULE MCFileLock -----------------------------
(* FileLock, for TLC. *)
EXTENDS FileLock, TLC

Symmetry == Permutations(Proc)
=============================================================================
