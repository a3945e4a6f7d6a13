----------------------------- MODULE MCKernLock -----------------------------
(* Small instances of KernLock for TLC. *)
EXTENDS KernLock, TLC

Symmetry == Permutations(Threads)
=============================================================================
