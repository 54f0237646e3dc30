--------------------------- MODULE MCDeployEngine ---------------------------
EXTENDS DeployEngine
CONSTANTS m1, m2, v1, v2, meshes

MCMod     == {m1, m2}
MCVanilla == {v1, v2}
MCDir     == {meshes}
MCDirOf   == [t \in 1 .. NumTargets |-> IF t = 1 THEN meshes ELSE DataRoot]

\* A mod that ships one file unmodified: its bytes are also an original's.
MCVanillaShared == {v1, m1}
=============================================================================
