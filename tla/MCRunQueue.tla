----------------------------- MODULE MCRunQueue -----------------------------
(* An instance of RunQueue for TLC.                                        *)
EXTENDS RunQueue, TLC

CONSTANTS t1, t2, t3, c1, c2

MCThreads == {t1, t2, t3}
TwoThreads == {t1, t2}
MCCpus == {c1, c2}
MCScanners == {c1}
Symmetry == Permutations(MCThreads)
=============================================================================
