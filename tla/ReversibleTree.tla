--------------------------- MODULE ReversibleTree ---------------------------
(***************************************************************************)
(* What the deploy engine promises (docs/ARCHITECTURE.md, "Crash-Safety    *)
(* Model"; crates/deploy/src/journal.rs): a path of the game folder shows  *)
(* either its original or the file a mod deployed there, and goes from one *)
(* to the other only through an announced move that always ends.           *)
(***************************************************************************)
CONSTANTS
  Target,    \* the paths
  Original,  \* what Steam or the user may have at a path (a missing file too)
  ModFile,   \* what a mod may have there
  Debris,    \* what a file copy that was cut short leaves behind
  Hidden     \* the contents of a path on the move are nobody's business

VARIABLES
  cut,       \* given from outside: the paths a copy was cut short for
  original,  \* what the path would hold without NexTwist
  status,    \* "original", "deployed" or "moving"
  shown      \* what the path holds

vars == <<original, status, shown>>

Init ==
  /\ original \in [Target -> Original]
  /\ status = [t \in Target |-> "original"]
  /\ shown = original

Move(t) ==
  /\ status[t] # "moving"
  /\ status' = [status EXCEPT ![t] = "moving"]
  /\ shown' = [shown EXCEPT ![t] = Hidden]
  /\ UNCHANGED original

Deployed(t) ==
  /\ status[t] = "moving"
  /\ status' = [status EXCEPT ![t] = "deployed"]
  /\ \E m \in ModFile : shown' = [shown EXCEPT ![t] = m]
  /\ UNCHANGED original

Reverted(t) ==
  /\ status[t] = "moving"
  /\ status' = [status EXCEPT ![t] = "original"]
  /\ \E v \in {original[t]} \cup (IF t \in cut THEN {Debris} ELSE {}) :
       shown' = [shown EXCEPT ![t] = v]
  /\ UNCHANGED original

\* Steam or the user changes a file that is not deployed.
Changed(t) ==
  /\ status[t] = "original"
  /\ \E v \in Original :
       /\ original' = [original EXCEPT ![t] = v]
       /\ shown' = [shown EXCEPT ![t] = v]
  /\ UNCHANGED status

Next == \E t \in Target : Move(t) \/ Deployed(t) \/ Reverted(t) \/ Changed(t)

Spec == Init /\ [][Next]_vars

\* Every move ends: no path stays between its two states for ever.
MovesEnd == \A t \in Target : status[t] = "moving" ~> status[t] # "moving"
=============================================================================
