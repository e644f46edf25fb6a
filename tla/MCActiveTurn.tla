---------------------------- MODULE MCActiveTurn ----------------------------
(***************************************************************************)
(* Small instances of ActiveTurn.  Origins are alike, and so are steering  *)
(* messages: both sets are symmetric where no liveness is checked.         *)
(***************************************************************************)
EXTENDS ActiveTurn, TLC

Symmetry == Permutations(Msgs) \cup Permutations(Steers)
=============================================================================
