---------------------------- MODULE MCLoadOrder ----------------------------
(* The game's master (4), a master of a mod (2) and two regular plugins, of *)
(* which one sorts before every master by name.                             *)
EXTENDS LoadOrder, TLC

CONSTANTS p1, p2

\* Both profiles have every mod's plugin enabled, saved in the order of the
\* names, so that a regular one is ahead of a master; the game's has no row.
MCStart == {[n \in {1, 2, 3} |-> [on |-> TRUE, order |-> n - 1]]}

Profiles == Permutations(Profile)
=============================================================================
