---------------------------- MODULE DurableState ----------------------------
(***************************************************************************)
(* The durable state of bridge.py (the JSON object that save_json writes)  *)
(* and the functions that change its queues: origin_retries,               *)
(* origin_in_flight, dead_letters and reply_reconciliations.               *)
(* Entries are identified by their origin message.                         *)
(***************************************************************************)
EXTENDS Integers, FiniteSets

CONSTANTS
    Msgs,            \* the origins that Zulip may return
    MaxAttempts,     \* MAX_DURABLE_ATTEMPTS
    MaxDead          \* MAX_DEAD_LETTERS

ASSUME DurableAssumption ==
    /\ IsFiniteSet(Msgs)
    /\ MaxAttempts \in Nat \ {0}
    /\ MaxDead \in Nat \ {0}

(***************************************************************************)
(* The durable state.  attempts is the counter of the origin_retries or    *)
(* origin_in_flight entry of an origin, 0 when it has none; dead and       *)
(* uncertain are the dead letters of kind "origin" (uncertain those with   *)
(* UNCERTAIN_STEERING_REASON), lost those of kind "reconciliation".        *)
(***************************************************************************)
Stages == {"none", "admitted", "hermes_may_start"}

DurableStates ==
    [retries : SUBSET Msgs, flight : [Msgs -> Stages],
     attempts : [Msgs -> 0 .. MaxAttempts], dead : SUBSET Msgs,
     uncertain : SUBSET Msgs, lost : SUBSET Msgs, jobs : SUBSET Msgs]

EmptyState ==
    [retries |-> {}, flight |-> [m \in Msgs |-> "none"],
     attempts |-> [m \in Msgs |-> 0], dead |-> {}, uncertain |-> {},
     lost |-> {}, jobs |-> {}]

InFlight(st) == {m \in Msgs : st.flight[m] # "none"}
MayStart(st) == {m \in Msgs : st.flight[m] = "hermes_may_start"}
DurableOriginCount(st) == Cardinality(st.retries) + Cardinality(InFlight(st))

DeadLetterCount(st) == Cardinality(st.dead) + Cardinality(st.lost)

\* Mutation: the limit is compared before the dead letters of M are added.
MutDeadLetterRoom(st, M) == DeadLetterCount(st) <= MaxDead

\* _append_dead_letter finds a place for each origin of M.
DeadLetterRoom(st, M) ==
    Cardinality(st.dead \cup M) + Cardinality(st.lost) <= MaxDead

\* Sets the stage of the origins of M.
WithStage(st, M, stage) ==
    [st EXCEPT !.flight = [m \in Msgs |-> IF m \in M THEN stage ELSE @[m]]]

\* Forgets the counters of the origins of M, whose entries are removed.
ClearAttempts(st, M) ==
    [st EXCEPT !.attempts = [m \in Msgs |-> IF m \in M THEN 0 ELSE @[m]]]

RemoveInFlight(st, M) == ClearAttempts(WithStage(st, M, "none"), M)
RemoveRetry(st, M) == ClearAttempts([st EXCEPT !.retries = @ \ M], M)

Terminalize(st, M) ==
    LET kept == [st EXCEPT !.dead = @ \cup M, !.retries = @ \ M]
    IN  RemoveInFlight(kept, M)

\* Only origins that are still "admitted" go back to the retry queue.
ReturnAdmittedToRetry(st, M) ==
    LET A == {m \in M : st.flight[m] = "admitted"}
    IN  [WithStage(st, A, "none") EXCEPT
            !.retries = @ \cup A,
            !.attempts = [m \in Msgs |-> IF m \in A /\ @[m] = 0 THEN 1 ELSE @[m]]]

\* Mutation: the failed attempts are not limited.
MutExhausted(st, M) == {}

\* The origins of M whose next failed attempt is the last one.
Exhausted(st, M) == {m \in M : st.attempts[m] + 1 >= MaxAttempts}

UpsertRetry(st, M) ==
    LET more == M \ Exhausted(st, M)
    IN  Terminalize([WithStage(st, more, "none") EXCEPT
                        !.retries = @ \cup more,
                        !.attempts = [m \in Msgs |-> IF m \in more THEN @[m] + 1 ELSE @[m]]],
                    Exhausted(st, M))

\* Mutation: an admitted origin stays in the retry queue.
MutAdmitOrigins(st, M) == WithStage(st, M, "admitted")

AdmitOrigins(st, M) == [WithStage(st, M, "admitted") EXCEPT !.retries = @ \ M]

MarkMayStart(st, m) == WithStage(st, {m}, "hermes_may_start")

(***************************************************************************)
(* Saving.  persist_state recomputes seen before it writes; save_json      *)
(* replaces the file atomically, and an error it reports may come before   *)
(* the replacement or after it (the fsync of the directory).               *)
(***************************************************************************)
PersistedSeen(st, sn) ==
    (sn \ st.uncertain)
        \cup st.jobs
        \cup {m \in st.dead \ st.uncertain : st.flight[m] = "none"}

Image(st, sn) == [st |-> st, seen |-> PersistedSeen(st, sn)]
=============================================================================
