---------------------------- MODULE MCSeenWindow ----------------------------
(***************************************************************************)
(* SeenWindow with the values of the cfg files.                            *)
(***************************************************************************)
EXTENDS SeenWindow
=============================================================================
