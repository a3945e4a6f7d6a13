----------------------------- MODULE MCVmFault ------------------------------
\* Instances of VmFault for TLC: who reads, writes and forks.
EXTENDS VmFault, TLC

CONSTANTS o1, o2, o3, ta, tb, t1, t2, t3

\* Any free object will do: which one CHOOSE takes makes no difference.
ObjectSymmetry == Permutations(Objects)

\* t1 and t2 in the parent: one writes a page, the other reads the next one;
\* t3 in the child writes the first page too.
TwoInA == t1 :> ta @@ t2 :> ta @@ t3 :> tb
OneReads == {<<t2, 1>>}
BothWrite == {<<t1, 0, 1>>, <<t3, 0, 0>>}
ForksOnce == {<<ta, tb>>}

\* t1 in the parent and t2 in the child.
OneEach == t1 :> ta @@ t2 :> tb
WritesOfA == {<<t1, 0, 1>>}
NoReads == {}

\* Two faults of the parent and one of the child wait for one page.
TwoOfA == t1 :> tb @@ t2 :> ta @@ t3 :> ta
BothRead == {<<t1, 0>>, <<t3, 0>>}
OneWritesEach == {<<t1, 0, 0>>, <<t2, 0, 0>>}
=============================================================================
