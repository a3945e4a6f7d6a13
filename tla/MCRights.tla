------------------------------ MODULE MCRights ------------------------------
\* Instances of Rights for TLC: who does what with which port.
EXTENDS Rights, TLC

CONSTANTS ta, tb, tc, pa, pb, m1, m2

Creates == {<<ta, pa>>, <<tb, pb>>}
Sends == {<<ta, pa>>, <<tb, pa>>}
Deallocates == {<<ta, pa>>, <<tb, pa>>}
\* Any free message will do: which one CHOOSE takes makes no difference.
SlotSymmetry == Permutations({m1, m2})
PbBacksPa == {<<pa, pb>>}
=============================================================================
