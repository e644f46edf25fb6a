----------------------------- MODULE SeenWindow -----------------------------
(***************************************************************************)
(* The list seen_ids of the state file.  persist_state orders the set seen *)
(* of _main, keeps the last Window identifiers, and appends those that the *)
(* dead letters and the reconciliations still need; a restart reads the    *)
(* list back, and admit_messages handles whatever part of the newest       *)
(* messages it does not find there.  What happens between the admission of *)
(* a message and its retirement is the subject of the module Bridge: here  *)
(* a message is handled and seen in one step, and a crash only strikes     *)
(* after the save that follows.                                            *)
(***************************************************************************)
EXTENDS Integers, Sequences, FiniteSets, SequencesExt

CONSTANTS
    MaxId,       \* bound on the message identifiers: 1 .. MaxId
    PageSize,    \* num_before of latest_messages
    Window,      \* the 500 of persist_state
    MaxSeenIds,  \* MAX_SEEN_IDS
    MaxRequired  \* MAX_DEAD_LETTERS + MAX_REPLY_RECONCILIATIONS

ASSUME WindowAssumption ==
    /\ MaxId \in Nat
    /\ PageSize \in Nat \ {0}
    /\ Window \in Nat \ {0}
    /\ MaxRequired \in Nat
    /\ MaxSeenIds \in Nat
    /\ PageSize <= Window
    /\ Window + MaxRequired <= MaxSeenIds

VARIABLES
    newest,    \* the newest message of the feed
    seen,      \* the set "seen" in memory
    required,  \* origins of dead letters and of reconciliation jobs
    seenIds,   \* seen_ids in the state file
    saved,     \* the last change of seen or required was saved
    handled    \* history: how often each message was handled, up to 2

vars == <<newest, seen, required, seenIds, saved, handled>>

Ids == 1 .. MaxId

Page == {m \in Ids : m <= newest /\ m > newest - PageSize}

\* The last n elements of a sequence.
LastOf(s, n) == IF Len(s) <= n THEN s ELSE SubSeq(s, Len(s) - n + 1, Len(s))

\* The elements of a set of numbers in their order: the k-th has k - 1 below it.
Ascending(S) ==
    [k \in 1 .. Cardinality(S) |-> CHOOSE m \in S : Cardinality({n \in S : n <= m}) = k]

\* The identifiers of the list that are still in the set, in the order of the list.
Previous(ids, sn) ==
    LET at == Ascending({i \in 1 .. Len(ids) : ids[i] \in sn})
    IN  [k \in 1 .. Len(at) |-> ids[at[k]]]

\* What persist_state cuts: the list, and then what it does not have yet.
Uncut(ids, sn) == Previous(ids, sn) \o Ascending(sn \ ToSet(Previous(ids, sn)))

\* Mutation: the window is one identifier short.
MutOrdered(ids, sn) == LastOf(Uncut(ids, sn), Window - 1)

\* ordered, of persist_state.
Ordered(ids, sn) == LastOf(Uncut(ids, sn), Window)

\* Mutations: what is required is appended twice, or not at all.
MutSavedTwice(ids, sn, req) == Ordered(ids, sn) \o Ascending(req)
MutSavedCut(ids, sn, req) == Ordered(ids, sn)

\* The list that persist_state writes.
SavedIds(ids, sn, req) ==
    LET ordered == Ordered(ids, sn)
    IN  ordered \o Ascending(req \ ToSet(ordered))

Init ==
    /\ newest = 0
    /\ seen = {}
    /\ required = {}
    /\ seenIds = <<>>
    /\ saved = TRUE
    /\ handled = [m \in Ids |-> 0]

Arrive ==
    /\ newest < MaxId
    /\ newest' = newest + 1
    /\ UNCHANGED <<seen, required, seenIds, saved, handled>>

\* A message of the page is handled; it may leave a dead letter or a job.
Handle(m) ==
    /\ m \in Page \ seen
    /\ handled' = [handled EXCEPT ![m] = IF @ < 2 THEN @ + 1 ELSE @]
    /\ seen' = seen \cup {m}
    /\ \/ UNCHANGED required
       \/ Cardinality(required \cup {m}) <= MaxRequired /\ required' = required \cup {m}
    /\ saved' = FALSE
    /\ UNCHANGED <<newest, seenIds>>

\* A reconciliation job ends.
Release(m) ==
    /\ m \in required
    /\ required' = required \ {m}
    /\ saved' = FALSE
    /\ UNCHANGED <<newest, seen, seenIds, handled>>

\* persist_state; the loop calls it at least once per iteration.
Persist ==
    /\ seen' = seen \cup required
    /\ seenIds' = SavedIds(seenIds, seen', required)
    /\ saved' = TRUE
    /\ UNCHANGED <<newest, required, handled>>

\* A crash after a save, and the restart: seen is read from the file.
Restart ==
    /\ saved
    /\ seen' = ToSet(seenIds)
    /\ UNCHANGED <<newest, required, seenIds, saved, handled>>

Next == Arrive \/ (\E m \in Ids : Handle(m) \/ Release(m)) \/ Persist \/ Restart

Spec == Init /\ [][Next]_vars

\* As long as the window holds every message there is, none is handled again after
\* a restart.  It is not so afterwards: identifiers that the window cut off stay in
\* seen, the next save appends them as new, and they push out later ones.
HandledOnce == newest <= Window => \A m \in Ids : handled[m] <= 1

\* The list can be loaded again by require_state_object: identifiers, none of
\* them twice, and no more than MAX_SEEN_IDS; the other variables have their types.
ListIsLoadable ==
    /\ newest \in 0 .. MaxId
    /\ seen \cup required \subseteq Ids
    /\ saved \in BOOLEAN
    /\ handled \in [Ids -> 0 .. 2]
    /\ seenIds \in Seq(Ids)
    /\ \A i, j \in 1 .. Len(seenIds) : i # j => seenIds[i] # seenIds[j]
    /\ Len(seenIds) <= MaxSeenIds

\* The origins of dead letters and of jobs are never cut off by the window.
RequiredKept == saved => required \subseteq ToSet(seenIds)
=============================================================================
