--------------------------- MODULE ExecutionRecord ---------------------------
(***************************************************************************)
(* What the durable state of the bridge promises, without its queues: a    *)
(* write-ahead record of executions.  A file names the origins that no     *)
(* start of the bridge will give to Hermes any more.  It may be rewritten  *)
(* at any time, to more origins or to fewer, but the ones that Hermes has  *)
(* stay in it; and Hermes gets an origin once, when it is in the file.     *)
(***************************************************************************)
EXTENDS Naturals

CONSTANT Origins

VARIABLES
    closed,    \* the origins that the file excludes from execution
    given      \* how many times Hermes was given each origin

vars == <<closed, given>>

TypeOK == closed \subseteq Origins /\ given \in [Origins -> Nat]

Init == closed = {} /\ given = [o \in Origins |-> 0]

\* The file is replaced: what was started or settled is closed, and an origin
\* that was marked but not given to Hermes may be opened again.
Commit ==
    /\ closed' \in SUBSET Origins
    /\ {o \in Origins : given[o] > 0} \subseteq closed'
    /\ UNCHANGED given

Give(o) ==
    /\ o \in closed
    /\ given[o] = 0
    /\ given' = [given EXCEPT ![o] = 1]
    /\ UNCHANGED closed

Next == Commit \/ \E o \in Origins : Give(o)

Spec == Init /\ [][Next]_vars
=============================================================================
