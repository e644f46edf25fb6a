--------------------------- MODULE MCProcessLock ---------------------------
(***************************************************************************)
(* Small instances of ProcessLock for TLC.                                 *)
(***************************************************************************)
EXTENDS ProcessLock, TLC

Symmetry == Permutations(Procs)
=============================================================================
