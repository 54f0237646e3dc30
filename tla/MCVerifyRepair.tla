---------------------------- MODULE MCVerifyRepair ----------------------------
EXTENDS VerifyRepair
CONSTANTS m1, m2, v1, meshes

MCMod     == {m1, m2}
MCVanilla == {v1}
MCDir     == {meshes}
MCDirOf   == [t \in 1 .. NumTargets |-> IF t = 1 THEN meshes ELSE DataRoot]
=============================================================================
