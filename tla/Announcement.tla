----------------------------- MODULE Announcement -----------------------------
(***************************************************************************)
(* What the notifier promises of every notification.  A file names the     *)
(* notifications that are open, the ones whose message may be on its way.  *)
(* A message is only posted for an open notification, and once: a second   *)
(* message needs the review of the first.  And an open notification only   *)
(* leaves the file when its message is there, or when an operator is asked *)
(* to review it.                                                           *)
(***************************************************************************)
EXTENDS Naturals

CONSTANT Notices

VARIABLES
    open,      \* the notifications that may have been posted
    posted,    \* how many messages of each are there
    reviews    \* how often an operator was asked to review it

vars == <<open, posted, reviews>>

Init ==
    /\ open = {}
    /\ posted = [n \in Notices |-> 0]
    /\ reviews = [n \in Notices |-> 0]

\* The file is replaced.
Record ==
    /\ open' \in SUBSET Notices
    /\ reviews' \in [Notices -> Nat]
    /\ \A n \in Notices : reviews[n] <= reviews'[n]
    /\ \A n \in open \ open' : posted[n] > 0 \/ reviews[n] < reviews'[n]
    /\ \A n \in open' \ open : posted[n] <= reviews'[n]
    /\ UNCHANGED posted

Post(n) ==
    /\ n \in open
    /\ posted[n] <= reviews[n]
    /\ posted' = [posted EXCEPT ![n] = @ + 1]
    /\ UNCHANGED <<open, reviews>>

Next == Record \/ \E n \in Notices : Post(n)

Spec == Init /\ [][Next]_vars
=============================================================================
