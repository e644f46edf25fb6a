----------------------------- MODULE MCNotifier -----------------------------
(***************************************************************************)
(* Small instances of Notifier for TLC.                                    *)
(***************************************************************************)
EXTENDS Notifier, TLC

Serving == {"serve"}
AllModes == {"serve", "prime"}
AllRevs == Revs

Symmetry == Permutations(Tasks)
=============================================================================
