------------------------------ MODULE MCRoutes ------------------------------
(***************************************************************************)
(* Small instances of Routes for TLC: three topics, two of which are the   *)
(* same name in two spellings, which Zulip takes for one topic.            *)
(***************************************************************************)
EXTENDS Routes, TLC

CONSTANTS Upper, Lower, Other

Spellings == {Upper, Lower, Other}
OneName == [t \in Spellings |-> IF t = Other THEN "other" ELSE "one"]

\* A spelling is not told from the other one.
Symmetry == Permutations({Upper, Lower})
=============================================================================
