---------------------------- MODULE Bridge_proofs ----------------------------
(***************************************************************************)
(* Proofs about Bridge, for any set of origins and any limits: facts of    *)
(* the operators of DurableState, the types, the inductive invariant IInv  *)
(* behind the once-only feeding of Hermes, and the refinement of           *)
(* ExecutionRecord.                                                        *)
(***************************************************************************)
EXTENDS Bridge, TLAPS

(***************************************************************************)
(* What the functions of DurableState do to the parts of a durable state   *)
(* that the proofs about the bridge depend on: the stages of the in-flight *)
(* table, the retry queue and the uncertain origins.                       *)
(***************************************************************************)
\* Setting a stage changes nothing but the stages of the origins named.
LEMMA WithStageFacts ==
    ASSUME NEW st \in DurableStates, NEW M \in SUBSET Msgs, NEW stage \in Stages
    PROVE  /\ WithStage(st, M, stage) \in DurableStates
           /\ \A m \in Msgs : WithStage(st, M, stage).flight[m]
                                = IF m \in M THEN stage ELSE st.flight[m]
           /\ WithStage(st, M, stage).retries = st.retries
           /\ WithStage(st, M, stage).uncertain = st.uncertain
           /\ WithStage(st, M, stage).dead = st.dead
           /\ WithStage(st, M, stage).lost = st.lost
           /\ WithStage(st, M, stage).jobs = st.jobs
           /\ WithStage(st, M, stage).attempts = st.attempts
  BY DEF WithStage, DurableStates, Stages

\* Forgetting counters changes nothing but the counters.
LEMMA ClearAttemptsFacts ==
    ASSUME NEW st \in DurableStates, NEW M \in SUBSET Msgs
    PROVE  /\ ClearAttempts(st, M) \in DurableStates
           /\ ClearAttempts(st, M).flight = st.flight
           /\ ClearAttempts(st, M).retries = st.retries
           /\ ClearAttempts(st, M).uncertain = st.uncertain
           /\ ClearAttempts(st, M).dead = st.dead
           /\ ClearAttempts(st, M).lost = st.lost
           /\ ClearAttempts(st, M).jobs = st.jobs
  BY DurableAssumption DEF ClearAttempts, DurableStates

\* _remove_in_flight_origin takes the origins out of the in-flight table.
LEMMA RemoveInFlightFacts ==
    ASSUME NEW st \in DurableStates, NEW M \in SUBSET Msgs
    PROVE  /\ RemoveInFlight(st, M) \in DurableStates
           /\ \A m \in Msgs : RemoveInFlight(st, M).flight[m]
                                = IF m \in M THEN "none" ELSE st.flight[m]
           /\ RemoveInFlight(st, M).retries = st.retries
           /\ RemoveInFlight(st, M).uncertain = st.uncertain
           /\ RemoveInFlight(st, M).dead = st.dead
           /\ RemoveInFlight(st, M).lost = st.lost
           /\ RemoveInFlight(st, M).jobs = st.jobs
  <1>. DEFINE w == WithStage(st, M, "none")
  <1>1. "none" \in Stages
    BY DEF Stages
  <1>2. /\ w \in DurableStates
        /\ \A m \in Msgs : w.flight[m] = IF m \in M THEN "none" ELSE st.flight[m]
        /\ w.retries = st.retries
        /\ w.uncertain = st.uncertain
        /\ w.dead = st.dead
        /\ w.lost = st.lost
        /\ w.jobs = st.jobs
    BY <1>1 DEF WithStage, DurableStates, Stages
  <1>3. RemoveInFlight(st, M) = ClearAttempts(w, M)
    BY DEF RemoveInFlight
  <1>. HIDE DEF w
  <1>4. /\ ClearAttempts(w, M) \in DurableStates
        /\ ClearAttempts(w, M).flight = w.flight
        /\ ClearAttempts(w, M).retries = w.retries
        /\ ClearAttempts(w, M).uncertain = w.uncertain
        /\ ClearAttempts(w, M).dead = w.dead
        /\ ClearAttempts(w, M).lost = w.lost
        /\ ClearAttempts(w, M).jobs = w.jobs
    BY <1>2, ClearAttemptsFacts
  <1>. QED
    BY <1>2, <1>3, <1>4

\* _remove_origin_retry takes the origins out of the retry queue.
LEMMA RemoveRetryFacts ==
    ASSUME NEW st \in DurableStates, NEW M \in SUBSET Msgs
    PROVE  /\ RemoveRetry(st, M) \in DurableStates
           /\ RemoveRetry(st, M).flight = st.flight
           /\ RemoveRetry(st, M).retries = st.retries \ M
           /\ RemoveRetry(st, M).uncertain = st.uncertain
           /\ RemoveRetry(st, M).dead = st.dead
           /\ RemoveRetry(st, M).lost = st.lost
           /\ RemoveRetry(st, M).jobs = st.jobs
  <1>. DEFINE kept == [st EXCEPT !.retries = @ \ M]
  <1>1. /\ kept \in DurableStates
        /\ kept.flight = st.flight
        /\ kept.retries = st.retries \ M
        /\ kept.uncertain = st.uncertain
        /\ kept.dead = st.dead
        /\ kept.lost = st.lost
        /\ kept.jobs = st.jobs
    BY DEF DurableStates
  <1>. HIDE DEF kept
  <1>2. RemoveRetry(st, M) = ClearAttempts(kept, M)
    BY DEF RemoveRetry, kept
  <1>. QED
    BY <1>1, <1>2, ClearAttemptsFacts

\* _terminalize_origin takes the origins out of both queues.
LEMMA TerminalizeFacts ==
    ASSUME NEW st \in DurableStates, NEW M \in SUBSET Msgs
    PROVE  /\ Terminalize(st, M) \in DurableStates
           /\ \A m \in Msgs : Terminalize(st, M).flight[m]
                                = IF m \in M THEN "none" ELSE st.flight[m]
           /\ Terminalize(st, M).retries = st.retries \ M
           /\ Terminalize(st, M).uncertain = st.uncertain
           /\ Terminalize(st, M).dead = st.dead \cup M
           /\ Terminalize(st, M).lost = st.lost
           /\ Terminalize(st, M).jobs = st.jobs
  <1>. DEFINE kept == [st EXCEPT !.dead = @ \cup M, !.retries = @ \ M]
  <1>1. /\ kept \in DurableStates
        /\ kept.flight = st.flight
        /\ kept.retries = st.retries \ M
        /\ kept.uncertain = st.uncertain
        /\ kept.dead = st.dead \cup M
        /\ kept.lost = st.lost
        /\ kept.jobs = st.jobs
    BY DEF DurableStates
  <1>. HIDE DEF kept
  <1>2. Terminalize(st, M) = RemoveInFlight(kept, M)
    BY DEF Terminalize, kept
  <1>. QED
    BY <1>1, <1>2, RemoveInFlightFacts

\* _return_admitted_origin_to_retry moves the admitted origins, and only
\* these, from the in-flight table to the retry queue.
LEMMA ReturnAdmittedFacts ==
    ASSUME NEW st \in DurableStates, NEW M \in SUBSET Msgs
    PROVE  /\ ReturnAdmittedToRetry(st, M) \in DurableStates
           /\ \A m \in Msgs : ReturnAdmittedToRetry(st, M).flight[m]
                                = IF m \in M /\ st.flight[m] = "admitted"
                                  THEN "none" ELSE st.flight[m]
           /\ ReturnAdmittedToRetry(st, M).retries
                = st.retries \cup {m \in M : st.flight[m] = "admitted"}
           /\ ReturnAdmittedToRetry(st, M).uncertain = st.uncertain
           /\ ReturnAdmittedToRetry(st, M).dead = st.dead
           /\ ReturnAdmittedToRetry(st, M).lost = st.lost
           /\ ReturnAdmittedToRetry(st, M).jobs = st.jobs
  <1>. DEFINE A == {m \in M : st.flight[m] = "admitted"}
              w == WithStage(st, A, "none")
  <1>1. A \in SUBSET Msgs /\ "none" \in Stages
    BY DEF Stages
  <1>2. /\ w \in DurableStates
        /\ \A m \in Msgs : w.flight[m] = IF m \in A THEN "none" ELSE st.flight[m]
        /\ w.retries = st.retries
        /\ w.uncertain = st.uncertain
        /\ w.dead = st.dead
        /\ w.lost = st.lost
        /\ w.jobs = st.jobs
    BY <1>1 DEF WithStage, DurableStates, Stages
  <1>3. 1 \in 0 .. MaxAttempts
    BY DurableAssumption
  <1>. DEFINE R == w.retries \cup A
              C == [m \in Msgs |-> IF m \in A /\ w.attempts[m] = 0 THEN 1 ELSE w.attempts[m]]
  <1>4. ReturnAdmittedToRetry(st, M) = [w EXCEPT !.retries = R, !.attempts = C]
    BY DEF ReturnAdmittedToRetry
  <1>. HIDE DEF w, A
  <1>5. R \in SUBSET Msgs /\ C \in [Msgs -> 0 .. MaxAttempts]
    BY <1>1, <1>2, <1>3 DEF DurableStates
  <1>6. A = {m \in M : st.flight[m] = "admitted"}
    BY DEF A
  <1>7. R = st.retries \cup A
    BY <1>2
  <1>. HIDE DEF R, C
  <1>8. /\ ReturnAdmittedToRetry(st, M).flight = w.flight
        /\ ReturnAdmittedToRetry(st, M).retries = R
        /\ ReturnAdmittedToRetry(st, M).uncertain = w.uncertain
        /\ ReturnAdmittedToRetry(st, M).dead = w.dead
        /\ ReturnAdmittedToRetry(st, M).lost = w.lost
        /\ ReturnAdmittedToRetry(st, M).jobs = w.jobs
        /\ ReturnAdmittedToRetry(st, M) \in DurableStates
    BY <1>2, <1>4, <1>5 DEF DurableStates
  <1>. QED
    BY <1>1, <1>2, <1>6, <1>7, <1>8

\* _upsert_origin_retry moves the origins to the retry queue, except those
\* whose attempts are exhausted, which leave both queues.
LEMMA UpsertRetryFacts ==
    ASSUME NEW st \in DurableStates, NEW M \in SUBSET Msgs
    PROVE  /\ UpsertRetry(st, M) \in DurableStates
           /\ \A m \in Msgs : UpsertRetry(st, M).flight[m]
                                = IF m \in M THEN "none" ELSE st.flight[m]
           /\ UpsertRetry(st, M).retries = (st.retries \cup M) \ Exhausted(st, M)
           /\ UpsertRetry(st, M).uncertain = st.uncertain
           /\ UpsertRetry(st, M).dead = st.dead \cup Exhausted(st, M)
           /\ UpsertRetry(st, M).lost = st.lost
           /\ UpsertRetry(st, M).jobs = st.jobs
  <1>. DEFINE E == Exhausted(st, M)
              more == M \ E
              w == WithStage(st, more, "none")
              R == w.retries \cup more
              C == [m \in Msgs |-> IF m \in more THEN w.attempts[m] + 1 ELSE w.attempts[m]]
              u == [w EXCEPT !.retries = R, !.attempts = C]
  <1>1. E \in SUBSET Msgs /\ more \in SUBSET Msgs /\ "none" \in Stages /\ E \subseteq M
    BY DEF Stages, Exhausted
  <1>2. /\ w \in DurableStates
        /\ \A m \in Msgs : w.flight[m] = IF m \in more THEN "none" ELSE st.flight[m]
        /\ w.retries = st.retries
        /\ w.uncertain = st.uncertain
        /\ w.dead = st.dead
        /\ w.lost = st.lost
        /\ w.jobs = st.jobs
        /\ w.attempts = st.attempts
    BY <1>1 DEF WithStage, DurableStates, Stages
  <1>3. \A m \in more : w.attempts[m] + 1 \in 0 .. MaxAttempts
    BY <1>2, DurableAssumption DEF Exhausted, DurableStates
  <1>4. UpsertRetry(st, M) = Terminalize(u, E)
    BY DEF UpsertRetry
  <1>. HIDE DEF E, more, w
  <1>a. R \in SUBSET Msgs /\ C \in [Msgs -> 0 .. MaxAttempts]
    BY <1>1, <1>2, <1>3 DEF DurableStates
  <1>b. R = w.retries \cup more
    OBVIOUS
  <1>. HIDE DEF R, C
  <1>5. /\ u \in DurableStates
        /\ u.flight = w.flight
        /\ u.retries = w.retries \cup more
        /\ u.uncertain = w.uncertain
        /\ u.dead = w.dead
        /\ u.lost = w.lost
        /\ u.jobs = w.jobs
    BY <1>2, <1>a, <1>b DEF DurableStates
  <1>6. M = more \cup E
    BY <1>1 DEF more
  <1>. HIDE DEF u
  <1>7. /\ Terminalize(u, E) \in DurableStates
        /\ \A m \in Msgs : Terminalize(u, E).flight[m] = IF m \in E THEN "none" ELSE u.flight[m]
        /\ Terminalize(u, E).retries = u.retries \ E
        /\ Terminalize(u, E).uncertain = u.uncertain
        /\ Terminalize(u, E).dead = u.dead \cup E
        /\ Terminalize(u, E).lost = u.lost
        /\ Terminalize(u, E).jobs = u.jobs
    BY <1>1, <1>5, TerminalizeFacts
  <1>8. UpsertRetry(st, M).retries = (st.retries \cup M) \ E
    BY <1>2, <1>4, <1>5, <1>6, <1>7
  <1>9. Exhausted(st, M) = E
    BY DEF E
  <1>. QED
    BY <1>2, <1>4, <1>5, <1>6, <1>7, <1>8, <1>9

\* _admit_origin moves the origins to the in-flight table.
LEMMA AdmitOriginsFacts ==
    ASSUME NEW st \in DurableStates, NEW M \in SUBSET Msgs
    PROVE  /\ AdmitOrigins(st, M) \in DurableStates
           /\ \A m \in Msgs : AdmitOrigins(st, M).flight[m]
                                = IF m \in M THEN "admitted" ELSE st.flight[m]
           /\ AdmitOrigins(st, M).retries = st.retries \ M
           /\ AdmitOrigins(st, M).uncertain = st.uncertain
           /\ AdmitOrigins(st, M).dead = st.dead
           /\ AdmitOrigins(st, M).lost = st.lost
           /\ AdmitOrigins(st, M).jobs = st.jobs
  <1>. DEFINE w == WithStage(st, M, "admitted")
  <1>2. /\ w \in DurableStates
        /\ \A m \in Msgs : w.flight[m] = IF m \in M THEN "admitted" ELSE st.flight[m]
        /\ w.retries = st.retries
        /\ w.uncertain = st.uncertain
        /\ w.dead = st.dead
        /\ w.lost = st.lost
        /\ w.jobs = st.jobs
    BY DEF WithStage, DurableStates, Stages
  <1>3. AdmitOrigins(st, M) = [w EXCEPT !.retries = @ \ M]
    BY DEF AdmitOrigins
  <1>. HIDE DEF w
  <1>4. /\ AdmitOrigins(st, M) \in DurableStates
        /\ AdmitOrigins(st, M).flight = w.flight
        /\ AdmitOrigins(st, M).retries = w.retries \ M
        /\ AdmitOrigins(st, M).uncertain = w.uncertain
        /\ AdmitOrigins(st, M).dead = w.dead
        /\ AdmitOrigins(st, M).lost = w.lost
        /\ AdmitOrigins(st, M).jobs = w.jobs
    BY <1>2, <1>3 DEF DurableStates
  <1>. QED
    BY <1>2, <1>4

\* _mark_hermes_may_start changes the stage of one origin.
LEMMA MarkMayStartFacts ==
    ASSUME NEW st \in DurableStates, NEW m \in Msgs
    PROVE  /\ MarkMayStart(st, m) \in DurableStates
           /\ \A n \in Msgs : MarkMayStart(st, m).flight[n]
                                = IF n = m THEN "hermes_may_start" ELSE st.flight[n]
           /\ MarkMayStart(st, m).retries = st.retries
           /\ MarkMayStart(st, m).uncertain = st.uncertain
           /\ MarkMayStart(st, m).dead = st.dead
           /\ MarkMayStart(st, m).lost = st.lost
           /\ MarkMayStart(st, m).jobs = st.jobs
  <1>1. "hermes_may_start" \in Stages /\ {m} \in SUBSET Msgs
    BY DEF Stages
  <1>. QED
    BY <1>1, WithStageFacts DEF MarkMayStart

\* persist_state drops no identifier but the uncertain ones, and what it
\* writes is a durable state with its identifiers.
LEMMA PersistedSeenFacts ==
    ASSUME NEW st \in DurableStates, NEW sn \in SUBSET Msgs
    PROVE  /\ PersistedSeen(st, sn) \in SUBSET Msgs
           /\ sn \subseteq PersistedSeen(st, sn) \cup st.uncertain
           /\ Image(st, sn) \in [st : DurableStates, seen : SUBSET Msgs]
           /\ Image(st, sn).st = st
           /\ Image(st, sn).seen = PersistedSeen(st, sn)
  BY DEF PersistedSeen, Image, DurableStates

\* Neither terminalizing nor forgetting other origins changes whose next failed
\* attempt is the last one.
LEMMA ExhaustedFacts ==
    ASSUME NEW st \in DurableStates, NEW M \in SUBSET Msgs, NEW N \in SUBSET Msgs, N \cap M = {}
    PROVE  /\ Exhausted(Terminalize(st, M), N) = Exhausted(st, N)
           /\ Exhausted(RemoveRetry(st, M), N) = Exhausted(st, N)
  <1>1. ASSUME NEW s \in DurableStates, s.attempts = st.attempts
        PROVE  Exhausted(ClearAttempts(s, M), N) = Exhausted(st, N)
    BY <1>1 DEF Exhausted, ClearAttempts, DurableStates
  <1>2. Exhausted(Terminalize(st, M), N) = Exhausted(st, N)
    <2>. DEFINE kept == [st EXCEPT !.dead = @ \cup M, !.retries = @ \ M]
                w == WithStage(kept, M, "none")
    <2>1. kept \in DurableStates /\ kept.attempts = st.attempts /\ "none" \in Stages
      BY DEF DurableStates, Stages
    <2>2. Terminalize(st, M) = ClearAttempts(w, M)
      BY DEF Terminalize, RemoveInFlight
    <2>. HIDE DEF kept
    <2>3. w \in DurableStates /\ w.attempts = kept.attempts
      BY <2>1, WithStageFacts
    <2>. HIDE DEF w
    <2>. QED
      BY <1>1, <2>1, <2>2, <2>3
  <1>3. Exhausted(RemoveRetry(st, M), N) = Exhausted(st, N)
    <2>. DEFINE kept == [st EXCEPT !.retries = @ \ M]
    <2>1. kept \in DurableStates /\ kept.attempts = st.attempts
      BY DEF DurableStates
    <2>2. RemoveRetry(st, M) = ClearAttempts(kept, M)
      BY DEF RemoveRetry
    <2>. HIDE DEF kept
    <2>. QED
      BY <1>1, <2>1, <2>2
  <1>. QED
    BY <1>2, <1>3

-----------------------------------------------------------------------------
(***************************************************************************)
(* Proofs about Bridge, for any set of origins and any limits.             *)
(***************************************************************************)

\* What the state file, and a copy taken for a rollback, may hold.
Images == [st : DurableStates, seen : SUBSET Msgs]

(***************************************************************************)
(* The parts of TypeOK, one for each group of variables.                   *)
(***************************************************************************)
\* The two copies of the durable state.
DurablesOK == disk \in Images /\ state \in DurableStates /\ seen \in SUBSET Msgs

\* The main thread.
MainsOK ==
    /\ pc \in Pcs
    /\ round \in {"queue", "page", "shutdown"}
    /\ batch \in SUBSET Msgs
    /\ target \in Msgs \cup {NoMsg}
    /\ pc \in TargetPcs => target \in Msgs
    /\ before \in Images

\* The workers.
WorkersOK ==
    /\ phase \in [Msgs -> Phases]
    /\ result \in [Msgs -> Results]
    /\ started \in [Msgs -> BOOLEAN]
    /\ intr \in [Msgs -> BOOLEAN]
    /\ steerOf \in [Msgs -> Msgs \cup {NoMsg}]

\* The history of the executions.
HistoryOK == fed \in [Msgs -> 0 .. 2] /\ posted \in [Msgs -> 0 .. 2]

\* The bounds of a behaviour.
BudgetsOK == crashes \in 0 .. MaxCrashes /\ faults \in 0 .. MaxFaults

\* TypeOK is the conjunction of its parts.
LEMMA TypeParts ==
    TypeOK <=> DurablesOK /\ MainsOK /\ WorkersOK /\ HistoryOK /\ BudgetsOK
  BY DEF TypeOK, DurablesOK, MainsOK, WorkersOK, HistoryOK, BudgetsOK, Images

\* The state that an execution starts from is a durable state.
LEMMA EmptyFacts ==
    /\ EmptyState \in DurableStates
    /\ NoSnapshot \in Images
  BY DurableAssumption DEF EmptyState, DurableStates, Stages, NoSnapshot, Images

\* What an unchanged part keeps: the durable state,
LEMMA KeepDurables == DurablesOK /\ UNCHANGED durables => DurablesOK'
  BY DEF DurablesOK, durables

\* the main thread,
LEMMA KeepMains == MainsOK /\ UNCHANGED mains => MainsOK'
  BY DEF MainsOK, mains

\* the workers,
LEMMA KeepWorkers == WorkersOK /\ UNCHANGED workers => WorkersOK'
  BY DEF WorkersOK, workers

\* the history
LEMMA KeepHistory == HistoryOK /\ UNCHANGED history => HistoryOK'
  BY DEF HistoryOK, history

\* and the bounds.
LEMMA KeepBudgets == BudgetsOK /\ UNCHANGED budgets => BudgetsOK'
  BY DEF BudgetsOK, budgets

\* The two outcomes of a save.
LEMMA PersistTypes ==
    ASSUME TypeOK
    PROVE  /\ PersistOk => DurablesOK' /\ (UNCHANGED crashes => BudgetsOK')
           /\ \A site : PersistFails(site) => DurablesOK' /\ (UNCHANGED crashes => BudgetsOK')
  <1>1. /\ PersistedSeen(state, seen) \in SUBSET Msgs
        /\ Image(state, seen) \in Images
    BY PersistedSeenFacts DEF TypeOK, Images
  <1>. QED
    BY <1>1, TypeParts, FaultsAssumption DEF PersistOk, PersistFails, DurablesOK, BudgetsOK

\* The moves of the main thread.
LEMMA MoveTypes ==
    ASSUME TypeOK
    PROVE  /\ \A label \in Pcs :
                Goto(label) /\ (label \in TargetPcs => target \in Msgs) => MainsOK'
           /\ Fatal => MainsOK'
           /\ NextIteration => MainsOK'
           /\ EndOfBatch => MainsOK'
           /\ \A m \in Msgs : ThenSave(m) => MainsOK'
  <1>1. /\ MainsOK
        /\ {"stopping", "finish", "submitSave"} \subseteq Pcs
        /\ {"stopping", "finish", "submitSave"} \cap TargetPcs = {}
    BY TypeParts DEF Pcs, LoopPcs, TargetPcs
  <1>2. \A label \in Pcs :
            Goto(label) /\ (label \in TargetPcs => target \in Msgs) => MainsOK'
    BY <1>1 DEF MainsOK, Goto
  <1>3. Fatal => MainsOK'
    BY <1>1, <1>2 DEF Fatal
  <1>4. NextIteration => MainsOK'
    BY <1>1, EmptyFacts DEF MainsOK, NextIteration
  <1>5. EndOfBatch => MainsOK'
    BY <1>1 DEF MainsOK, EndOfBatch
  <1>6. \A m \in Msgs : ThenSave(m) => MainsOK'
    BY <1>1 DEF MainsOK, ThenSave
  <1>. QED
    BY <1>2, <1>3, <1>4, <1>5, <1>6

\* The moves of a worker.
LEMMA WorkerTypes ==
    ASSUME TypeOK, NEW m \in Msgs
    PROVE  /\ Retire(m) => WorkersOK'
           /\ \A where \in Phases :
                Advance(m, where) /\ UNCHANGED <<result, started, intr, steerOf>> => WorkersOK'
           /\ \A outcome \in Results :
                End(m, outcome) => phase' \in [Msgs -> Phases] /\ result' \in [Msgs -> Results]
  <1>1. WorkersOK /\ HistoryOK
    BY TypeParts
  <1>2. "idle" \in Phases /\ "done" \in Phases /\ "none" \in Results
    BY DEF Phases, Results
  <1>3. Retire(m) => WorkersOK'
    BY <1>1, <1>2 DEF Retire, WorkersOK
  <1>4. Feed(m) => fed' \in [Msgs -> 0 .. 2]
    BY <1>1 DEF Feed, HistoryOK
  <1>5. Post(m) => posted' \in [Msgs -> 0 .. 2]
    BY <1>1 DEF Post, HistoryOK
  <1>. QED
    BY <1>1, <1>2, <1>3, <1>4, <1>5 DEF Advance, End, WorkersOK

\* Every step keeps the types of the history.
LEMMA HistoryStep ==
    ASSUME TypeOK, Next
    PROVE  HistoryOK'
  <1>. USE KeepHistory, TypeParts
  <1>Process. CASE ProcessNext
    BY <1>Process DEF ProcessNext, Restart, BootSave, BootSaveFails, Crash,
        RequestShutdown, Halt, history, HistoryOK, LoseMemory, Feed, Post,
        Notice
  <1>Finish. CASE FinishNext
    BY <1>Finish DEF FinishNext, FinishOk, FinishRetry, FinishFail,
        FinishRejected, PostCommitProof, PostCommitRetire, FinishFatal,
        RejectedSave, FinishRejectedProof, FinishSave, FinishDone, history,
        HistoryOK, LoseMemory, Feed, Post, Notice
  <1>Loop. CASE LoopNext
    BY <1>Loop DEF LoopNext, ReconcileDone, ReconcileTerminal, ReconcileSave,
        ReconcileEnd, LoopSave, Fetch, FetchSave, Undo, NothingToAdmit,
        Admit, AdmitSave, history, HistoryOK, LoseMemory, Feed, Post, Notice
  <1>Submit. CASE SubmitNext
    BY <1>Submit DEF SubmitNext, SubmitWorker, SubmitFails, SteerDeferred,
        SteerMark, SubmitBroken, SubmitSave, SubmitEnd, history, HistoryOK,
        LoseMemory, Feed, Post, Notice
  <1>Steer. CASE SteerNext
    BY <1>Steer DEF SteerNext, SteerSave, AbandonSave, SteerUnmark,
        SteerUndoSave, SteerRefused, SteerAppendFails, SteerDelivered,
        SteerUncertain, RetireSave, RetireRetry, history, HistoryOK,
        LoseMemory, Feed, Post, Notice
  <1>Inline. CASE InlineNext
    BY <1>Inline DEF InlineNext, InlineMark, InlineSave, InlineAnswered,
        InlinePublish, InlineFails, InlineFull, history, HistoryOK,
        LoseMemory, Feed, Post, Notice
  <1>Worker. ASSUME NEW m \in Msgs, WorkerNext(m) PROVE HistoryOK'
    BY <1>Worker DEF WorkerNext, Begin, PreFails, LocalAnswer, Mark,
        MarkSave, Register, StartFails, StartHermes, HermesEnds,
        AnswerBlocked, PostAnswer, Publish, PublishSave, ErrorNotice,
        ErrorSave, history, HistoryOK, LoseMemory, Feed, Post, Notice
  <1>. QED
    BY <1>Process, <1>Finish, <1>Loop, <1>Submit, <1>Steer, <1>Inline, <1>Worker DEF Next, MainNext

\* Every step keeps the budgets within their bounds.
LEMMA BudgetStep ==
    ASSUME TypeOK, Next
    PROVE  BudgetsOK'
  <1>. USE PersistTypes, KeepBudgets, TypeParts, FaultsAssumption
  <1>Process. CASE ProcessNext
    <2>1. CASE Restart
      BY <2>1 DEF Restart, budgets, BudgetsOK, LoseMemory
    <2>2. CASE BootSave
      BY <2>2 DEF BootSave, budgets, BudgetsOK, LoseMemory
    <2>3. CASE BootSaveFails
      BY <2>3 DEF BootSaveFails, budgets, BudgetsOK, LoseMemory
    <2>4. CASE Crash
      BY <2>4 DEF Crash, budgets, BudgetsOK, LoseMemory
    <2>5. CASE RequestShutdown
      BY <2>5 DEF RequestShutdown, budgets, BudgetsOK, LoseMemory
    <2>6. CASE Halt
      BY <2>6 DEF Halt, budgets, BudgetsOK, LoseMemory
    <2>. QED
      BY <1>Process, <2>1, <2>2, <2>3, <2>4, <2>5, <2>6 DEF ProcessNext
  <1>Finish. CASE FinishNext
    BY <1>Finish DEF FinishNext, FinishOk, FinishRetry, FinishFail,
        FinishRejected, PostCommitProof, PostCommitRetire, FinishFatal,
        RejectedSave, FinishRejectedProof, FinishSave, FinishDone, budgets,
        BudgetsOK, LoseMemory
  <1>Loop. CASE LoopNext
    BY <1>Loop DEF LoopNext, ReconcileDone, ReconcileTerminal, ReconcileSave,
        ReconcileEnd, LoopSave, Fetch, FetchSave, Undo, NothingToAdmit,
        Admit, AdmitSave, budgets, BudgetsOK, LoseMemory
  <1>Submit. CASE SubmitNext
    <2>1. ASSUME NEW m \in Msgs, SubmitWorker(m) PROVE BudgetsOK'
      BY <2>1 DEF SubmitWorker, budgets, BudgetsOK, LoseMemory
    <2>2. ASSUME NEW m \in Msgs, SubmitFails(m) PROVE BudgetsOK'
      BY <2>2 DEF SubmitFails, budgets, BudgetsOK, LoseMemory
    <2>3. ASSUME NEW m \in Msgs, SteerDeferred(m) PROVE BudgetsOK'
      BY <2>3 DEF SteerDeferred, budgets, BudgetsOK, LoseMemory
    <2>4. ASSUME NEW m \in Msgs, SteerMark(m) PROVE BudgetsOK'
      BY <2>4 DEF SteerMark, budgets, BudgetsOK, LoseMemory
    <2>5. CASE SubmitBroken
      BY <2>5 DEF SubmitBroken, budgets, BudgetsOK, LoseMemory
    <2>6. CASE SubmitSave
      BY <2>6 DEF SubmitSave, budgets, BudgetsOK, LoseMemory
    <2>7. CASE SubmitEnd
      BY <2>7 DEF SubmitEnd, budgets, BudgetsOK, LoseMemory
    <2>. QED
      BY <1>Submit, <2>1, <2>2, <2>3, <2>4, <2>5, <2>6, <2>7 DEF SubmitNext
  <1>Steer. CASE SteerNext
    BY <1>Steer DEF SteerNext, SteerSave, AbandonSave, SteerUnmark,
        SteerUndoSave, SteerRefused, SteerAppendFails, SteerDelivered,
        SteerUncertain, RetireSave, RetireRetry, budgets, BudgetsOK,
        LoseMemory
  <1>Inline. CASE InlineNext
    BY <1>Inline DEF InlineNext, InlineMark, InlineSave, InlineAnswered,
        InlinePublish, InlineFails, InlineFull, budgets, BudgetsOK,
        LoseMemory
  <1>Worker. ASSUME NEW m \in Msgs, WorkerNext(m) PROVE BudgetsOK'
    BY <1>Worker DEF WorkerNext, Begin, PreFails, LocalAnswer, Mark,
        MarkSave, Register, StartFails, StartHermes, HermesEnds,
        AnswerBlocked, PostAnswer, Publish, PublishSave, ErrorNotice,
        ErrorSave, budgets, BudgetsOK, LoseMemory
  <1>. QED
    BY <1>Process, <1>Finish, <1>Loop, <1>Submit, <1>Steer, <1>Inline, <1>Worker DEF Next, MainNext

\* Every step keeps the types of the main thread.
LEMMA MainStep ==
    ASSUME TypeOK, Next
    PROVE  MainsOK'
  <1>. USE MoveTypes, KeepMains, TypeParts, EmptyFacts
  <1>Process. CASE ProcessNext
    BY <1>Process DEF ProcessNext, Restart, BootSave, BootSaveFails, Crash,
        RequestShutdown, Halt, mains, MainsOK, LoseMemory, RetryLater, Defer,
        TerminateTurn, NoRoomForTurn, Finishing, Submitting, Pcs, LoopPcs,
        TargetPcs
  <1>Finish. CASE FinishNext
    BY <1>Finish DEF FinishNext, FinishOk, FinishRetry, FinishFail,
        FinishRejected, PostCommitProof, PostCommitRetire, FinishFatal,
        RejectedSave, FinishRejectedProof, FinishSave, FinishDone, mains,
        MainsOK, LoseMemory, RetryLater, Defer, TerminateTurn, NoRoomForTurn,
        Finishing, Submitting, Pcs, LoopPcs, TargetPcs
  <1>Loop. CASE LoopNext
    <2>1. ASSUME NEW m \in Msgs, ReconcileDone(m) PROVE MainsOK'
      BY <2>1 DEF ReconcileDone, mains, MainsOK, LoseMemory, RetryLater,
        Defer, TerminateTurn, NoRoomForTurn, Finishing, Submitting, Pcs,
        LoopPcs, TargetPcs
    <2>2. ASSUME NEW m \in Msgs, ReconcileTerminal(m) PROVE MainsOK'
      BY <2>2 DEF ReconcileTerminal, mains, MainsOK, LoseMemory, RetryLater,
        Defer, TerminateTurn, NoRoomForTurn, Finishing, Submitting, Pcs,
        LoopPcs, TargetPcs
    <2>3. CASE ReconcileSave
      BY <2>3 DEF ReconcileSave, mains, MainsOK, LoseMemory, RetryLater,
        Defer, TerminateTurn, NoRoomForTurn, Finishing, Submitting, Pcs,
        LoopPcs, TargetPcs
    <2>4. CASE ReconcileEnd
      BY <2>4 DEF ReconcileEnd, mains, MainsOK, LoseMemory, RetryLater,
        Defer, TerminateTurn, NoRoomForTurn, Finishing, Submitting, Pcs,
        LoopPcs, TargetPcs
    <2>5. CASE LoopSave
      BY <2>5 DEF LoopSave, mains, MainsOK, LoseMemory, RetryLater, Defer,
        TerminateTurn, NoRoomForTurn, Finishing, Submitting, Pcs, LoopPcs,
        TargetPcs
    <2>6. CASE Fetch
      <3>1. PICK due \in SUBSET state.retries :
                \E outcome \in [due -> {"fetched", "gone", "retry"}] : FetchDue(due, outcome)
        BY <2>6 DEF Fetch
      <3>2. PICK outcome \in [due -> {"fetched", "gone", "retry"}] : FetchDue(due, outcome)
        BY <3>1
      <3>3. due \in SUBSET Msgs
        BY TypeParts DEF DurablesOK, DurableStates
      <3>4. [st |-> state, seen |-> seen] \in Images
        BY TypeParts DEF DurablesOK, Images
      <3>. QED
        BY <3>2, <3>3, <3>4 DEF FetchDue, MainsOK, Pcs, LoopPcs, TargetPcs
    <2>7. CASE FetchSave
      BY <2>7 DEF FetchSave, mains, MainsOK, LoseMemory, RetryLater, Defer,
        TerminateTurn, NoRoomForTurn, Finishing, Submitting, Pcs, LoopPcs,
        TargetPcs
    <2>8. CASE Undo
      BY <2>8 DEF Undo, mains, MainsOK, LoseMemory, RetryLater, Defer,
        TerminateTurn, NoRoomForTurn, Finishing, Submitting, Pcs, LoopPcs,
        TargetPcs
    <2>9. CASE NothingToAdmit
      BY <2>9 DEF NothingToAdmit, mains, MainsOK, LoseMemory, RetryLater,
        Defer, TerminateTurn, NoRoomForTurn, Finishing, Submitting, Pcs,
        LoopPcs, TargetPcs
    <2>10. CASE Admit
      <3>1. PICK page \in Pages :
                \E outcome \in [Candidates(page) -> {"ignored", "gone", "retry", "prepared"}] :
                    AdmitCandidates(Candidates(page), outcome)
        BY <2>10 DEF Admit
      <3>2. PICK outcome \in [Candidates(page) -> {"ignored", "gone", "retry", "prepared"}] :
                AdmitCandidates(Candidates(page), outcome)
        BY <3>1
      <3>3. Candidates(page) \in SUBSET Msgs
        BY TypeParts DEF Pages, Candidates, MainsOK
      <3>4. [st |-> state, seen |-> seen] \in Images
        BY TypeParts DEF DurablesOK, Images
      <3>. QED
        BY <3>2, <3>3, <3>4 DEF AdmitCandidates, MainsOK, Pcs, LoopPcs, TargetPcs
    <2>11. CASE AdmitSave
      BY <2>11 DEF AdmitSave, mains, MainsOK, LoseMemory, RetryLater, Defer,
        TerminateTurn, NoRoomForTurn, Finishing, Submitting, Pcs, LoopPcs,
        TargetPcs
    <2>. QED
      BY <1>Loop, <2>1, <2>2, <2>3, <2>4, <2>5, <2>6, <2>7, <2>8, <2>9,
        <2>10, <2>11 DEF LoopNext
  <1>Submit. CASE SubmitNext
    BY <1>Submit DEF SubmitNext, SubmitWorker, SubmitFails, SteerDeferred,
        SteerMark, SubmitBroken, SubmitSave, SubmitEnd, mains, MainsOK,
        LoseMemory, RetryLater, Defer, TerminateTurn, NoRoomForTurn,
        Finishing, Submitting, Pcs, LoopPcs, TargetPcs
  <1>Steer. CASE SteerNext
    BY <1>Steer DEF SteerNext, SteerSave, AbandonSave, SteerUnmark,
        SteerUndoSave, SteerRefused, SteerAppendFails, SteerDelivered,
        SteerUncertain, RetireSave, RetireRetry, mains, MainsOK, LoseMemory,
        RetryLater, Defer, TerminateTurn, NoRoomForTurn, Finishing,
        Submitting, Pcs, LoopPcs, TargetPcs
  <1>Inline. CASE InlineNext
    BY <1>Inline DEF InlineNext, InlineMark, InlineSave, InlineAnswered,
        InlinePublish, InlineFails, InlineFull, mains, MainsOK, LoseMemory,
        RetryLater, Defer, TerminateTurn, NoRoomForTurn, Finishing,
        Submitting, Pcs, LoopPcs, TargetPcs
  <1>Worker. ASSUME NEW m \in Msgs, WorkerNext(m) PROVE MainsOK'
    BY <1>Worker DEF WorkerNext, Begin, PreFails, LocalAnswer, Mark,
        MarkSave, Register, StartFails, StartHermes, HermesEnds,
        AnswerBlocked, PostAnswer, Publish, PublishSave, ErrorNotice,
        ErrorSave, mains, MainsOK, LoseMemory, RetryLater, Defer,
        TerminateTurn, NoRoomForTurn, Finishing, Submitting, Pcs, LoopPcs,
        TargetPcs
  <1>. QED
    BY <1>Process, <1>Finish, <1>Loop, <1>Submit, <1>Steer, <1>Inline, <1>Worker DEF Next, MainNext

\* Every step keeps the types of the workers.
LEMMA WorkerStep ==
    ASSUME TypeOK, Next
    PROVE  WorkersOK'
  <1>. USE WorkerTypes, KeepWorkers, TypeParts
  <1>Process. CASE ProcessNext
    <2>1. CASE Restart
      BY <2>1 DEF Restart, workers, WorkersOK, LoseMemory, RetryLater, Defer,
        TerminateTurn, NoRoomForTurn, Phases, Results, Pending, ActiveTurns
    <2>2. CASE BootSave
      BY <2>2 DEF BootSave, workers, WorkersOK, LoseMemory, RetryLater,
        Defer, TerminateTurn, NoRoomForTurn, Phases, Results, Pending,
        ActiveTurns
    <2>3. CASE BootSaveFails
      BY <2>3 DEF BootSaveFails, workers, WorkersOK, LoseMemory, RetryLater,
        Defer, TerminateTurn, NoRoomForTurn, Phases, Results, Pending,
        ActiveTurns
    <2>4. CASE Crash
      BY <2>4 DEF Crash, workers, WorkersOK, LoseMemory, RetryLater, Defer,
        TerminateTurn, NoRoomForTurn, Phases, Results, Pending, ActiveTurns
    <2>5. CASE RequestShutdown
      BY <2>5 DEF RequestShutdown, workers, WorkersOK, LoseMemory,
        RetryLater, Defer, TerminateTurn, NoRoomForTurn, Phases, Results,
        Pending, ActiveTurns
    <2>6. CASE Halt
      BY <2>6 DEF Halt, workers, WorkersOK, LoseMemory, RetryLater, Defer,
        TerminateTurn, NoRoomForTurn, Phases, Results, Pending, ActiveTurns
    <2>. QED
      BY <1>Process, <2>1, <2>2, <2>3, <2>4, <2>5, <2>6 DEF ProcessNext
  <1>Finish. CASE FinishNext
    <2>1. ASSUME NEW m \in Msgs, FinishOk(m) PROVE WorkersOK'
      BY <2>1 DEF FinishOk, workers, WorkersOK, LoseMemory, RetryLater,
        Defer, TerminateTurn, NoRoomForTurn, Phases, Results, Pending,
        ActiveTurns
    <2>2. ASSUME NEW m \in Msgs, FinishRetry(m) PROVE WorkersOK'
      BY <2>2 DEF FinishRetry, workers, WorkersOK, LoseMemory, RetryLater,
        Defer, TerminateTurn, NoRoomForTurn, Phases, Results, Pending,
        ActiveTurns
    <2>3. ASSUME NEW m \in Msgs, FinishFail(m) PROVE WorkersOK'
      BY <2>3 DEF FinishFail, workers, WorkersOK, LoseMemory, RetryLater,
        Defer, TerminateTurn, NoRoomForTurn, Phases, Results, Pending,
        ActiveTurns
    <2>4. ASSUME NEW m \in Msgs, FinishRejected(m) PROVE WorkersOK'
      BY <2>4 DEF FinishRejected, workers, WorkersOK, LoseMemory, RetryLater,
        Defer, TerminateTurn, NoRoomForTurn, Phases, Results, Pending,
        ActiveTurns
    <2>5. ASSUME NEW m \in Msgs, PostCommitProof(m) PROVE WorkersOK'
      BY <2>5 DEF PostCommitProof, workers, WorkersOK, LoseMemory,
        RetryLater, Defer, TerminateTurn, NoRoomForTurn, Phases, Results,
        Pending, ActiveTurns
    <2>6. ASSUME NEW m \in Msgs, PostCommitRetire(m) PROVE WorkersOK'
      BY <2>6 DEF PostCommitRetire, workers, WorkersOK, LoseMemory,
        RetryLater, Defer, TerminateTurn, NoRoomForTurn, Phases, Results,
        Pending, ActiveTurns
    <2>7. ASSUME NEW m \in Msgs, FinishFatal(m) PROVE WorkersOK'
      BY <2>7 DEF FinishFatal, workers, WorkersOK, LoseMemory, RetryLater,
        Defer, TerminateTurn, NoRoomForTurn, Phases, Results, Pending,
        ActiveTurns
    <2>8. CASE RejectedSave
      BY <2>8 DEF RejectedSave, workers, WorkersOK, LoseMemory, RetryLater,
        Defer, TerminateTurn, NoRoomForTurn, Phases, Results, Pending,
        ActiveTurns
    <2>9. CASE FinishRejectedProof
      <3>1. target \in Msgs
        BY <2>9 DEF FinishRejectedProof, MainsOK, TargetPcs
      <3>. QED
        BY <2>9, <3>1 DEF FinishRejectedProof, TerminateTurn, NoRoomForTurn, workers,
          WorkersOK, Results
    <2>10. CASE FinishSave
      BY <2>10 DEF FinishSave, workers, WorkersOK, LoseMemory, RetryLater,
        Defer, TerminateTurn, NoRoomForTurn, Phases, Results, Pending,
        ActiveTurns
    <2>11. CASE FinishDone
      BY <2>11 DEF FinishDone, workers, WorkersOK, LoseMemory, RetryLater,
        Defer, TerminateTurn, NoRoomForTurn, Phases, Results, Pending,
        ActiveTurns
    <2>. QED
      BY <1>Finish, <2>1, <2>2, <2>3, <2>4, <2>5, <2>6, <2>7, <2>8, <2>9,
        <2>10, <2>11 DEF FinishNext
  <1>Loop. CASE LoopNext
    BY <1>Loop DEF LoopNext, ReconcileDone, ReconcileTerminal, ReconcileSave,
        ReconcileEnd, LoopSave, Fetch, FetchSave, Undo, NothingToAdmit,
        Admit, AdmitSave, workers, WorkersOK, LoseMemory, RetryLater, Defer,
        TerminateTurn, NoRoomForTurn, Phases, Results, Pending, ActiveTurns
  <1>Submit. CASE SubmitNext
    BY <1>Submit DEF SubmitNext, SubmitWorker, SubmitFails, SteerDeferred,
        SteerMark, SubmitBroken, SubmitSave, SubmitEnd, workers, WorkersOK,
        LoseMemory, RetryLater, Defer, TerminateTurn, NoRoomForTurn, Phases,
        Results, Pending, ActiveTurns
  <1>Steer. CASE SteerNext
    BY <1>Steer DEF SteerNext, SteerSave, AbandonSave, SteerUnmark,
        SteerUndoSave, SteerRefused, SteerAppendFails, SteerDelivered,
        SteerUncertain, RetireSave, RetireRetry, workers, WorkersOK,
        LoseMemory, RetryLater, Defer, TerminateTurn, NoRoomForTurn, Phases,
        Results, Pending, ActiveTurns
  <1>Inline. CASE InlineNext
    BY <1>Inline DEF InlineNext, InlineMark, InlineSave, InlineAnswered,
        InlinePublish, InlineFails, InlineFull, workers, WorkersOK,
        LoseMemory, RetryLater, Defer, TerminateTurn, NoRoomForTurn, Phases,
        Results, Pending, ActiveTurns
  <1>Worker. ASSUME NEW m \in Msgs, WorkerNext(m) PROVE WorkersOK'
    <2>1. CASE Begin(m)
      BY <2>1 DEF Begin, workers, WorkersOK, LoseMemory, RetryLater, Defer,
        TerminateTurn, NoRoomForTurn, Phases, Results, Pending, ActiveTurns
    <2>2. CASE PreFails(m)
      BY <2>2 DEF PreFails, workers, WorkersOK, LoseMemory, RetryLater,
        Defer, TerminateTurn, NoRoomForTurn, Phases, Results, Pending,
        ActiveTurns
    <2>3. CASE LocalAnswer(m)
      BY <2>3 DEF LocalAnswer, workers, WorkersOK, LoseMemory, RetryLater,
        Defer, TerminateTurn, NoRoomForTurn, Phases, Results, Pending,
        ActiveTurns
    <2>4. CASE Mark(m)
      BY <2>4 DEF Mark, workers, WorkersOK, LoseMemory, RetryLater, Defer,
        TerminateTurn, NoRoomForTurn, Phases, Results, Pending, ActiveTurns
    <2>5. CASE MarkSave(m)
      BY <2>5 DEF MarkSave, workers, WorkersOK, LoseMemory, RetryLater,
        Defer, TerminateTurn, NoRoomForTurn, Phases, Results, Pending,
        ActiveTurns
    <2>6. CASE Register(m)
      BY <2>6 DEF Register, workers, WorkersOK, LoseMemory, RetryLater,
        Defer, TerminateTurn, NoRoomForTurn, Phases, Results, Pending,
        ActiveTurns
    <2>7. CASE StartFails(m)
      BY <2>7 DEF StartFails, workers, WorkersOK, LoseMemory, RetryLater,
        Defer, TerminateTurn, NoRoomForTurn, Phases, Results, Pending,
        ActiveTurns
    <2>8. CASE StartHermes(m)
      <3>1. started' \in [Msgs -> BOOLEAN]
        BY <2>8 DEF StartHermes, WorkersOK
      <3>. QED
        BY <2>8, <3>1 DEF StartHermes, WorkersOK, Advance, Phases
    <2>9. CASE HermesEnds(m)
      BY <2>9 DEF HermesEnds, workers, WorkersOK, LoseMemory, RetryLater,
        Defer, TerminateTurn, NoRoomForTurn, Phases, Results, Pending,
        ActiveTurns
    <2>10. CASE AnswerBlocked(m)
      BY <2>10 DEF AnswerBlocked, workers, WorkersOK, LoseMemory, RetryLater,
        Defer, TerminateTurn, NoRoomForTurn, Phases, Results, Pending,
        ActiveTurns
    <2>11. CASE PostAnswer(m)
      BY <2>11 DEF PostAnswer, workers, WorkersOK, LoseMemory, RetryLater,
        Defer, TerminateTurn, NoRoomForTurn, Phases, Results, Pending,
        ActiveTurns
    <2>12. CASE Publish(m)
      BY <2>12 DEF Publish, workers, WorkersOK, LoseMemory, RetryLater,
        Defer, TerminateTurn, NoRoomForTurn, Phases, Results, Pending,
        ActiveTurns
    <2>13. CASE PublishSave(m)
      BY <2>13 DEF PublishSave, workers, WorkersOK, LoseMemory, RetryLater,
        Defer, TerminateTurn, NoRoomForTurn, Phases, Results, Pending,
        ActiveTurns
    <2>14. CASE ErrorNotice(m)
      BY <2>14 DEF ErrorNotice, workers, WorkersOK, LoseMemory, RetryLater,
        Defer, TerminateTurn, NoRoomForTurn, Phases, Results, Pending,
        ActiveTurns
    <2>15. CASE ErrorSave(m)
      BY <2>15 DEF ErrorSave, workers, WorkersOK, LoseMemory, RetryLater,
        Defer, TerminateTurn, NoRoomForTurn, Phases, Results, Pending,
        ActiveTurns
    <2>. QED
      BY <1>Worker, <2>1, <2>2, <2>3, <2>4, <2>5, <2>6, <2>7, <2>8, <2>9,
        <2>10, <2>11, <2>12, <2>13, <2>14, <2>15 DEF WorkerNext
  <1>. QED
    BY <1>Process, <1>Finish, <1>Loop, <1>Submit, <1>Steer, <1>Inline, <1>Worker DEF Next, MainNext

\* The functions of DurableState return durable states.
LEMMA StateTypes ==
    ASSUME NEW st \in DurableStates, NEW M \in SUBSET Msgs
    PROVE  /\ RemoveInFlight(st, M) \in DurableStates
           /\ RemoveRetry(st, M) \in DurableStates
           /\ Terminalize(st, M) \in DurableStates
           /\ ReturnAdmittedToRetry(st, M) \in DurableStates
           /\ UpsertRetry(st, M) \in DurableStates
           /\ AdmitOrigins(st, M) \in DurableStates
           /\ WithStage(st, M, "admitted") \in DurableStates
           /\ \A m \in Msgs : MarkMayStart(st, m) \in DurableStates
  <1>1. WithStage(st, M, "admitted") \in DurableStates
    BY DEF WithStage, DurableStates, Stages
  <1>. QED
    BY <1>1, RemoveInFlightFacts, RemoveRetryFacts, TerminalizeFacts, ReturnAdmittedFacts,
       UpsertRetryFacts, AdmitOriginsFacts, MarkMayStartFacts

\* Sets of origins that the actions compute.
LEMMA OriginSets ==
    ASSUME NEW st \in DurableStates
    PROVE  /\ \A M \in SUBSET Msgs : Exhausted(st, M) \in SUBSET M
           /\ MayStart(st) \in SUBSET Msgs
           /\ InFlight(st) \in SUBSET Msgs
           /\ st.retries \in SUBSET Msgs
           /\ st.jobs \in SUBSET Msgs
           /\ st.uncertain \in SUBSET Msgs
           /\ \A m : SteeringOf(m) \in SUBSET Msgs
  BY DEF Exhausted, MayStart, InFlight, DurableStates, SteeringOf

\* Changes of the jobs and dead letters.
LEMMA LetterTypes ==
    ASSUME NEW st \in DurableStates, NEW M \in SUBSET Msgs
    PROVE  /\ [st EXCEPT !.jobs = @ \cup M] \in DurableStates
           /\ [st EXCEPT !.jobs = @ \ M] \in DurableStates
           /\ [st EXCEPT !.jobs = @ \ M, !.lost = @ \cup M] \in DurableStates
           /\ [st EXCEPT !.dead = @ \cup M] \in DurableStates
           /\ [st EXCEPT !.uncertain = @ \cup M] \in DurableStates
  BY DEF DurableStates

\* The ways in which an origin leaves the main thread.
LEMMA LeaveTypes ==
    ASSUME TypeOK, NEW m \in Msgs, UNCHANGED disk
    PROVE  /\ RetryLater(m) => DurablesOK'
           /\ Defer(m) => DurablesOK'
           /\ TerminateTurn(m) => DurablesOK'
  <1>1. DurablesOK /\ {m} \in SUBSET Msgs
    BY TypeParts
  <1>2. RetryLater(m) => DurablesOK'
    <2>1. /\ UpsertRetry(state, {m}) \in DurableStates
          /\ Exhausted(state, {m}) \in SUBSET Msgs
      BY <1>1, StateTypes, OriginSets DEF DurablesOK
    <2>. QED
      BY <1>1, <2>1 DEF RetryLater, DurablesOK
  <1>3. Defer(m) => DurablesOK'
    BY <1>1, StateTypes DEF Defer, DurablesOK
  <1>4. TerminateTurn(m) => DurablesOK'
    <2>. DEFINE read == {m} \cup (SteeringOf(m) \cap MayStart(state))
    <2>1. read \in SUBSET Msgs /\ SteeringOf(m) \in SUBSET Msgs
      BY <1>1, OriginSets DEF DurablesOK
    <2>2. Terminalize(state, read) \in DurableStates
      BY <1>1, <2>1, StateTypes DEF DurablesOK
    <2>3. ReturnAdmittedToRetry(Terminalize(state, read), SteeringOf(m)) \in DurableStates
      BY <2>1, <2>2, StateTypes
    <2>. QED
      BY <1>1, <2>1, <2>3 DEF TerminateTurn, DurablesOK
  <1>. QED
    BY <1>2, <1>3, <1>4

\* Every step keeps the types of the durable state, in memory and on disk.
LEMMA DurableStep ==
    ASSUME TypeOK, Next
    PROVE  DurablesOK'
  <1>. USE TypeParts, KeepDurables
  <1>Process. CASE ProcessNext
    <2>1. CASE Restart
      <3>. DEFINE loaded == LoadedState
                  lostTurns == MayStart(loaded) \ loaded.jobs
                  answered == MayStart(loaded) \cap loaded.jobs
                  recovered == RecoverInFlight(loaded)
      <3>1. LoadedSeen \in SUBSET Msgs
        BY DEF LoadedSeen, DurablesOK, Images
      <3>2. loaded \in DurableStates
        <4>1. /\ disk.st \in DurableStates
              /\ disk.st.retries \cap (LoadedSeen \cup disk.st.uncertain) \in SUBSET Msgs
          BY DEF DurablesOK, Images, DurableStates
        <4>. QED
          BY <4>1, StateTypes DEF LoadedState
      <3>. HIDE DEF loaded
      <3>3. MayStart(loaded) \in SUBSET Msgs
        BY <3>2, OriginSets
      <3>4. Terminalize(loaded, lostTurns) \in DurableStates
        BY <3>2, <3>3, StateTypes
      <3>5. RemoveInFlight(Terminalize(loaded, lostTurns), answered) \in DurableStates
        BY <3>3, <3>4, StateTypes
      <3>6. recovered \in DurableStates
        BY <3>5, StateTypes DEF RecoverInFlight
      <3>. HIDE DEF recovered
      <3>7. \A J \in SUBSET loaded.jobs :
               [recovered EXCEPT !.jobs = @ \ J, !.lost = @ \cup J] \in DurableStates
        BY <3>2, <3>6, LetterTypes, OriginSets
      <3>8. /\ UNCHANGED disk
            /\ seen' = LoadedSeen \cup MayStart(loaded)
            /\ state' \in DurableStates
        BY <2>1, <3>7 DEF Restart, loaded, recovered
      <3>. QED
        BY <3>1, <3>3, <3>8 DEF DurablesOK
    <2>3. CASE BootSaveFails
      <3>1. Image(state, seen) \in Images
        BY PersistedSeenFacts DEF DurablesOK, Images
      <3>. QED
        BY <2>3, <3>1, EmptyFacts DEF BootSaveFails, LoseMemory, DurablesOK
    <2>4. CASE Crash
      BY <2>4, EmptyFacts DEF Crash, LoseMemory, DurablesOK
    <2>6. CASE Halt
      BY <2>6, EmptyFacts DEF Halt, LoseMemory, DurablesOK
    <2>. QED
      BY <1>Process, <2>1, <2>3, <2>4, <2>6, PersistTypes
      DEF ProcessNext, durables, BootSave, RequestShutdown
  <1>Finish. CASE FinishNext
    <2>1. ASSUME NEW m \in Msgs, FinishOk(m) PROVE DurablesOK'
      <3>1. {m} \cup SteeringOf(m) \in SUBSET Msgs
        BY OriginSets DEF DurablesOK
      <3>2. RemoveInFlight(state, {m} \cup SteeringOf(m)) \in DurableStates
        BY <3>1, StateTypes DEF DurablesOK
      <3>. QED
        BY <2>1, <3>1, <3>2 DEF FinishOk, DurablesOK
    <2>2. ASSUME NEW m \in Msgs, FinishRetry(m) PROVE DurablesOK'
      <3>1. /\ Exhausted(state, {m}) \in SUBSET Msgs
            /\ SteeringOf(m) \in SUBSET Msgs
        BY OriginSets DEF DurablesOK
      <3>2. UpsertRetry(state, {m}) \in DurableStates
        BY StateTypes DEF DurablesOK
      <3>3. ReturnAdmittedToRetry(UpsertRetry(state, {m}), SteeringOf(m)) \in DurableStates
        BY <3>1, <3>2, StateTypes
      <3>. QED
        BY <2>2, <3>1, <3>3 DEF FinishRetry, DurablesOK
    <2>3. ASSUME NEW m \in Msgs, FinishFail(m) PROVE DurablesOK'
      BY <2>3, LeaveTypes DEF FinishFail, NoRoomForTurn, DurablesOK
    <2>4. ASSUME NEW m \in Msgs, FinishRejected(m) PROVE DurablesOK'
      <3>1. [state EXCEPT !.dead = @ \cup {m}] \in DurableStates
        BY LetterTypes DEF DurablesOK
      <3>. QED
        BY <2>4, <3>1 DEF FinishRejected, DurablesOK
    <2>5. ASSUME NEW m \in Msgs, PostCommitProof(m) PROVE DurablesOK'
      <3>1. {m} \cup SteeringOf(m) \in SUBSET Msgs
        BY OriginSets DEF DurablesOK
      <3>2. RemoveInFlight(state, {m} \cup SteeringOf(m)) \in DurableStates
        BY <3>1, StateTypes DEF DurablesOK
      <3>3. /\ PersistedSeen(state, seen) \in SUBSET Msgs
            /\ Image(state, seen) \in Images
        BY PersistedSeenFacts DEF DurablesOK, Images
      <3>4. CASE PersistFails("loop")
        BY <3>4, PersistTypes
      <3>. QED
        BY <2>5, <3>1, <3>2, <3>3, <3>4 DEF PostCommitProof, DurablesOK
    <2>9. CASE FinishRejectedProof
      <3>1. target \in Msgs
        BY <2>9 DEF FinishRejectedProof, MainsOK, TargetPcs
      <3>. QED
        BY <2>9, <3>1, LeaveTypes DEF FinishRejectedProof, NoRoomForTurn, DurablesOK
    <2>. QED
      BY <1>Finish, <2>1, <2>2, <2>3, <2>4, <2>5, <2>9, PersistTypes
      DEF FinishNext, durables, PostCommitRetire, FinishFatal, RejectedSave,
        FinishSave, FinishDone
  <1>Loop. CASE LoopNext
    <2>1. ASSUME NEW m \in Msgs, ReconcileDone(m) PROVE DurablesOK'
      <3>1. [state EXCEPT !.jobs = @ \ {m}] \in DurableStates
        BY LetterTypes DEF DurablesOK
      <3>. QED
        BY <2>1, <3>1 DEF ReconcileDone, DurablesOK
    <2>2. ASSUME NEW m \in Msgs, ReconcileTerminal(m) PROVE DurablesOK'
      <3>1. [state EXCEPT !.jobs = @ \ {m}, !.lost = @ \cup {m}] \in DurableStates
        BY LetterTypes DEF DurablesOK
      <3>. QED
        BY <2>2, <3>1 DEF ReconcileTerminal, DurablesOK
    <2>6. CASE Fetch
      <3>1. PICK due \in SUBSET state.retries :
                \E outcome \in [due -> {"fetched", "gone", "retry"}] : FetchDue(due, outcome)
        BY <2>6 DEF Fetch
      <3>2. PICK outcome \in [due -> {"fetched", "gone", "retry"}] : FetchDue(due, outcome)
        BY <3>1
      <3>. DEFINE Of(o) == {m \in due : outcome[m] = o}
                  ended == Of("gone") \cup Exhausted(state, Of("retry"))
      <3>3. Of("gone") \in SUBSET Msgs /\ Of("retry") \in SUBSET Msgs
        BY DEF DurablesOK, DurableStates
      <3>4. ended \in SUBSET Msgs
        BY <3>3, OriginSets DEF DurablesOK
      <3>5. Terminalize(state, Of("gone")) \in DurableStates
        BY <3>3, StateTypes DEF DurablesOK
      <3>6. UpsertRetry(Terminalize(state, Of("gone")), Of("retry")) \in DurableStates
        BY <3>3, <3>5, StateTypes
      <3>7. UNCHANGED disk
        BY <2>6 DEF Fetch
      <3>. QED
        BY <3>2, <3>4, <3>6, <3>7 DEF FetchDue, DurablesOK
    <2>8. CASE Undo
      BY <2>8 DEF Undo, DurablesOK, MainsOK, Images
    <2>10. CASE Admit
      <3>1. PICK page \in Pages :
                \E outcome \in [Candidates(page) -> {"ignored", "gone", "retry", "prepared"}] :
                    AdmitCandidates(Candidates(page), outcome)
        BY <2>10 DEF Admit
      <3>2. PICK outcome \in [Candidates(page) -> {"ignored", "gone", "retry", "prepared"}] :
                AdmitCandidates(Candidates(page), outcome)
        BY <3>1
      <3>. DEFINE Of(o) == {m \in Candidates(page) : outcome[m] = o}
                  ended == Of("gone") \cup Exhausted(state, Of("retry"))
                  kept == UpsertRetry(Terminalize(RemoveRetry(state, Of("ignored")), Of("gone")), Of("retry"))
      <3>3. Candidates(page) \in SUBSET Msgs
        BY DEF Pages, Candidates, MainsOK
      <3>4. \A o : Of(o) \in SUBSET Msgs
        BY <3>3
      <3>5. ended \in SUBSET Msgs
        BY <3>4, OriginSets DEF DurablesOK
      <3>6. RemoveRetry(state, Of("ignored")) \in DurableStates
        BY <3>4, StateTypes DEF DurablesOK
      <3>7. Terminalize(RemoveRetry(state, Of("ignored")), Of("gone")) \in DurableStates
        BY <3>4, <3>6, StateTypes
      <3>8. kept \in DurableStates
        BY <3>4, <3>7, StateTypes
      <3>. HIDE DEF kept
      <3>9. AdmitOrigins(kept, Of("prepared")) \in DurableStates
        BY <3>4, <3>8, StateTypes
      <3>10. UNCHANGED disk
        BY <2>10 DEF Admit
      <3>. QED
        BY <3>2, <3>4, <3>5, <3>9, <3>10 DEF AdmitCandidates, DurablesOK, kept
    <2>. QED
      BY <1>Loop, <2>1, <2>2, <2>6, <2>8, <2>10, PersistTypes
      DEF LoopNext, durables, ReconcileSave, ReconcileEnd, LoopSave,
        FetchSave, NothingToAdmit, AdmitSave
  <1>Submit. CASE SubmitNext
    <2>2. ASSUME NEW m \in Msgs, SubmitFails(m) PROVE DurablesOK'
      BY <2>2, LeaveTypes DEF SubmitFails
    <2>3. ASSUME NEW m \in Msgs, SteerDeferred(m) PROVE DurablesOK'
      BY <2>3, LeaveTypes DEF SteerDeferred
    <2>4. ASSUME NEW m \in Msgs, SteerMark(m) PROVE DurablesOK'
      <3>1. MarkMayStart(state, m) \in DurableStates
        BY StateTypes DEF DurablesOK
      <3>. QED
        BY <2>4, <3>1 DEF SteerMark, DurablesOK
    <2>. QED
      BY <1>Submit, <2>2, <2>3, <2>4, PersistTypes
      DEF SubmitNext, durables, SubmitWorker, SubmitBroken, SubmitSave,
        SubmitEnd
  <1>Steer. CASE SteerNext
    <2>1. CASE SteerSave
      <3>1. target \in Msgs /\ {target} \in SUBSET Msgs
        BY <2>1 DEF SteerSave, MainsOK, TargetPcs
      <3>2. WithStage(state, {target}, "admitted") \in DurableStates
        BY <3>1, StateTypes DEF DurablesOK
      <3>3. ReturnAdmittedToRetry(WithStage(state, {target}, "admitted"), {target}) \in DurableStates
        BY <3>1, <3>2, StateTypes
      <3>4. /\ PersistedSeen(state, seen) \in SUBSET Msgs
            /\ Image(state, seen) \in Images
        BY PersistedSeenFacts DEF DurablesOK, Images
      <3>. QED
        BY <2>1, <3>3, <3>4, PersistTypes DEF SteerSave, DurablesOK
    <2>3. CASE SteerUnmark
      <3>1. target \in Msgs /\ {target} \in SUBSET Msgs
        BY <2>3 DEF SteerUnmark, MainsOK, TargetPcs
      <3>2. WithStage(state, {target}, "admitted") \in DurableStates
        BY <3>1, StateTypes DEF DurablesOK
      <3>. QED
        BY <2>3, <3>2 DEF SteerUnmark, DurablesOK
    <2>4. CASE SteerUndoSave
      <3>1. target \in Msgs /\ {target} \in SUBSET Msgs
        BY <2>4 DEF SteerUndoSave, MainsOK, TargetPcs
      <3>2. ReturnAdmittedToRetry(state, {target}) \in DurableStates
        BY <3>1, StateTypes DEF DurablesOK
      <3>3. /\ PersistedSeen(state, seen) \in SUBSET Msgs
            /\ Image(state, seen) \in Images
        BY PersistedSeenFacts DEF DurablesOK, Images
      <3>. QED
        BY <2>4, <3>2, <3>3, PersistTypes DEF SteerUndoSave, DurablesOK
    <2>5. CASE SteerRefused
      <3>1. target \in Msgs /\ {target} \in SUBSET Msgs
        BY <2>5 DEF SteerRefused, MainsOK, TargetPcs
      <3>. QED
        BY <2>5, <3>1, LeaveTypes DEF SteerRefused
    <2>6. CASE SteerAppendFails
      <3>1. target \in Msgs /\ {target} \in SUBSET Msgs
        BY <2>6 DEF SteerAppendFails, MainsOK, TargetPcs
      <3>2. Terminalize(state, {target}) \in DurableStates
        BY <3>1, StateTypes DEF DurablesOK
      <3>. QED
        BY <2>6, <3>1, <3>2 DEF SteerAppendFails, DurablesOK
    <2>8. CASE SteerUncertain
      <3>1. target \in Msgs /\ {target} \in SUBSET Msgs
        BY <2>8 DEF SteerUncertain, MainsOK, TargetPcs
      <3>2. Terminalize(state, {target}) \in DurableStates
        BY <3>1, StateTypes DEF DurablesOK
      <3>3. [Terminalize(state, {target}) EXCEPT !.uncertain = @ \cup {target}] \in DurableStates
        BY <3>1, <3>2, LetterTypes
      <3>. QED
        BY <2>8, <3>1, <3>3 DEF SteerUncertain, DurablesOK
    <2>. QED
      BY <1>Steer, <2>1, <2>3, <2>4, <2>5, <2>6, <2>8, PersistTypes
      DEF SteerNext, durables, AbandonSave, SteerDelivered, RetireSave,
        RetireRetry
  <1>Inline. CASE InlineNext
    <2>1. ASSUME NEW m \in Msgs, InlineMark(m) PROVE DurablesOK'
      <3>1. MarkMayStart(state, m) \in DurableStates
        BY StateTypes DEF DurablesOK
      <3>. QED
        BY <2>1, <3>1 DEF InlineMark, DurablesOK
    <2>3. CASE InlineAnswered
      <3>1. target \in Msgs /\ {target} \in SUBSET Msgs
        BY <2>3 DEF InlineAnswered, MainsOK, TargetPcs
      <3>2. [state EXCEPT !.jobs = @ \cup {target}] \in DurableStates
        BY <3>1, LetterTypes DEF DurablesOK
      <3>. QED
        BY <2>3, <3>2 DEF InlineAnswered, DurablesOK
    <2>4. CASE InlinePublish
      <3>1. target \in Msgs /\ {target} \in SUBSET Msgs
        BY <2>4 DEF InlinePublish, MainsOK, TargetPcs
      <3>2. RemoveInFlight(state, {target}) \in DurableStates
        BY <3>1, StateTypes DEF DurablesOK
      <3>3. /\ PersistedSeen(state, seen) \in SUBSET Msgs
            /\ Image(state, seen) \in Images
        BY PersistedSeenFacts DEF DurablesOK, Images
      <3>. QED
        BY <2>4, <3>1, <3>2, <3>3 DEF InlinePublish, DurablesOK
    <2>5. CASE InlineFails
      <3>1. target \in Msgs /\ {target} \in SUBSET Msgs
        BY <2>5 DEF InlineFails, MainsOK, TargetPcs
      <3>2. Terminalize(state, {target}) \in DurableStates
        BY <3>1, StateTypes DEF DurablesOK
      <3>. QED
        BY <2>5, <3>1, <3>2, LeaveTypes DEF InlineFails, DurablesOK
    <2>. QED
      BY <1>Inline, <2>1, <2>3, <2>4, <2>5, PersistTypes
      DEF InlineNext, durables, InlineSave, InlineFull
  <1>Worker. ASSUME NEW m \in Msgs, WorkerNext(m) PROVE DurablesOK'
    <2>4. CASE Mark(m)
      <3>1. MarkMayStart(state, m) \in DurableStates
        BY StateTypes DEF DurablesOK
      <3>. QED
        BY <2>4, <3>1 DEF Mark, DurablesOK
    <2>12. CASE Publish(m)
      <3>1. [state EXCEPT !.jobs = @ \cup {m}] \in DurableStates
        BY LetterTypes DEF DurablesOK
      <3>. QED
        BY <2>12, <3>1 DEF Publish, DurablesOK
    <2>14. CASE ErrorNotice(m)
      <3>1. [state EXCEPT !.jobs = @ \cup {m}] \in DurableStates
        BY LetterTypes DEF DurablesOK
      <3>. QED
        BY <2>14, <3>1 DEF ErrorNotice, DurablesOK
    <2>. QED
      BY <1>Worker, <2>4, <2>12, <2>14, PersistTypes
      DEF WorkerNext, durables, Begin, PreFails, LocalAnswer, MarkSave,
        Register, StartFails, StartHermes, HermesEnds, AnswerBlocked,
        PostAnswer, PublishSave, ErrorSave
  <1>. QED
    BY <1>Process, <1>Finish, <1>Loop, <1>Submit, <1>Steer, <1>Inline, <1>Worker DEF Next, MainNext

(***************************************************************************)
(* Type correctness.                                                       *)
(***************************************************************************)
\* The initial state has the types of TypeOK.
LEMMA InitTypes == Init => TypeOK
  <1>. SUFFICES ASSUME Init PROVE TypeOK
    OBVIOUS
  <1>1. DurablesOK
    BY EmptyFacts DEF Init, DurablesOK, Images
  <1>2. MainsOK
    BY EmptyFacts DEF Init, MainsOK, Pcs, TargetPcs
  <1>3. WorkersOK
    BY DEF Init, WorkersOK, Phases, Results
  <1>4. HistoryOK /\ BudgetsOK
    BY FaultsAssumption DEF Init, HistoryOK, BudgetsOK
  <1>. QED
    BY <1>1, <1>2, <1>3, <1>4, TypeParts

\* Every step keeps the types of TypeOK.
LEMMA TypeStep == TypeOK /\ [Next]_vars => TypeOK'
  <1>. SUFFICES ASSUME TypeOK, [Next]_vars PROVE TypeOK'
    OBVIOUS
  <1>1. CASE Next
    <2>1. DurablesOK' /\ MainsOK' /\ WorkersOK' /\ HistoryOK' /\ BudgetsOK'
      BY <1>1, DurableStep, MainStep, WorkerStep, HistoryStep, BudgetStep
    <2>. QED
      BY <2>1 DEF TypeOK, DurablesOK, MainsOK, WorkersOK, HistoryOK, BudgetsOK, Images
  <1>2. CASE UNCHANGED vars
    BY <1>2 DEF vars, durables, mains, workers, history, budgets, TypeOK
  <1>. QED
    BY <1>1, <1>2

\* Every variable keeps its type (TypeOK), whatever the origins, the limits and
\* the failures.
THEOREM TypeCorrect == Spec => []TypeOK
  BY InitTypes, TypeStep, PTL DEF Spec

-----------------------------------------------------------------------------
(***************************************************************************)
(* No origin is given to Hermes twice.  The invariant IInv of Bridge is    *)
(* inductive when neither rollback is ever run: fed[m] > 0 makes m         *)
(* Known in the file and in memory, what admit_messages takes is not Known *)
(* and so was never fed, and from its admission to its only use an origin  *)
(* stays in the in-flight table.                                           *)
(***************************************************************************)

(***************************************************************************)
(* What the steps that change the durable state do to each entry.          *)
(***************************************************************************)
\* The entry of n is as before.
Kept(n) ==
    /\ state'.flight[n] = state.flight[n]
    /\ n \in state'.retries <=> n \in state.retries

\* The entry of n has left the in-flight table.
Left(n) == state'.flight[n] = "none"

\* The saved copy of the state is the one in memory.
Saved ==
    /\ disk'.st = state
    /\ seen \subseteq disk'.seen \cup state.uncertain

\* A failed attempt takes one origin out of the in-flight table.
LEMMA RetryLaterEffect ==
    ASSUME TypeOK, NEW m \in Msgs, RetryLater(m)
    PROVE  \/ pc' = "stopping" /\ UNCHANGED <<state, seen, round, batch, target, before>>
           \/ /\ ThenSave(m)
              /\ Left(m)
              /\ \A n \in Msgs \ {m} : Kept(n)
              /\ UNCHANGED state.uncertain
              /\ seen \subseteq seen'
  <1>1. CASE DeadLetterRoom(state, Exhausted(state, {m}))
    <2>1. state \in DurableStates /\ {m} \in SUBSET Msgs
      BY DEF TypeOK
    <2>2. /\ \A n \in Msgs : UpsertRetry(state, {m}).flight[n]
                               = IF n \in {m} THEN "none" ELSE state.flight[n]
          /\ UpsertRetry(state, {m}).retries = (state.retries \cup {m}) \ Exhausted(state, {m})
          /\ UpsertRetry(state, {m}).uncertain = state.uncertain
      BY <2>1, UpsertRetryFacts
    <2>3. Exhausted(state, {m}) \subseteq {m}
      BY DEF Exhausted
    <2>. QED
      BY <1>1, <2>2, <2>3 DEF RetryLater, Left, Kept
  <1>2. CASE ~ DeadLetterRoom(state, Exhausted(state, {m}))
    BY <1>2 DEF RetryLater, Fatal, Goto
  <1>. QED
    BY <1>1, <1>2

\* Deferring takes an admitted origin out of the in-flight table.
LEMMA DeferEffect ==
    ASSUME TypeOK, NEW m \in Msgs, Defer(m)
    PROVE  /\ ThenSave(m)
           /\ Kept(m) \/ Left(m)
           /\ \A n \in Msgs \ {m} : Kept(n)
           /\ state'.flight[m] \in {"none", state.flight[m]}
           /\ UNCHANGED <<state.uncertain, seen>>
  <1>1. state \in DurableStates /\ {m} \in SUBSET Msgs
    BY DEF TypeOK
  <1>2. /\ \A n \in Msgs : ReturnAdmittedToRetry(state, {m}).flight[n]
                             = IF n \in {m} /\ state.flight[n] = "admitted"
                               THEN "none" ELSE state.flight[n]
        /\ ReturnAdmittedToRetry(state, {m}).retries
             = state.retries \cup {n \in {m} : state.flight[n] = "admitted"}
        /\ ReturnAdmittedToRetry(state, {m}).uncertain = state.uncertain
    BY <1>1, ReturnAdmittedFacts
  <1>. QED
    BY <1>2 DEF Defer, Left, Kept

\* A turn that fails takes its origin and its steering out of the in-flight
\* table, and what Hermes may have read is seen.
LEMMA TerminateEffect ==
    ASSUME TypeOK, NEW m \in Msgs, TerminateTurn(m)
    PROVE  /\ \A n \in Msgs \ ({m} \cup SteeringOf(m)) : Kept(n)
           /\ \A n \in {m} \cup SteeringOf(m) : Left(n)
           /\ m \in seen'
           /\ \A n \in SteeringOf(m) : state.flight[n] = "hermes_may_start" => n \in seen'
           /\ UNCHANGED state.uncertain
           /\ seen \subseteq seen'
  <1>. DEFINE read == {m} \cup (SteeringOf(m) \cap MayStart(state))
              t == Terminalize(state, read)
  <1>1. state \in DurableStates /\ read \in SUBSET Msgs /\ SteeringOf(m) \in SUBSET Msgs
    BY OriginSets DEF TypeOK
  <1>2. /\ t \in DurableStates
        /\ \A n \in Msgs : t.flight[n] = IF n \in read THEN "none" ELSE state.flight[n]
        /\ t.retries = state.retries \ read
        /\ t.uncertain = state.uncertain
    BY <1>1, TerminalizeFacts
  <1>3. /\ state' = ReturnAdmittedToRetry(t, SteeringOf(m))
        /\ seen' = seen \cup read
    BY DEF TerminateTurn
  <1>4. \A n \in Msgs : state.flight[n] \in {"none", "admitted", "hermes_may_start"}
    BY <1>1 DEF DurableStates, Stages
  <1>5. \A n \in Msgs : n \in MayStart(state) <=> state.flight[n] = "hermes_may_start"
    BY DEF MayStart
  <1>. HIDE DEF t
  <1>6. /\ \A n \in Msgs : state'.flight[n] = IF n \in SteeringOf(m) /\ t.flight[n] = "admitted"
                                              THEN "none" ELSE t.flight[n]
        /\ state'.retries = t.retries \cup {n \in SteeringOf(m) : t.flight[n] = "admitted"}
        /\ state'.uncertain = t.uncertain
    BY <1>1, <1>2, <1>3, ReturnAdmittedFacts
  <1>. QED
    BY <1>1, <1>2, <1>3, <1>4, <1>5, <1>6 DEF Kept, Left

\* A turn that succeeds takes its origin and its steering out of the table.
LEMMA FinishOkEffect ==
    ASSUME TypeOK, NEW m \in Msgs,
           state' = RemoveInFlight(state, {m} \cup SteeringOf(m))
    PROVE  /\ \A n \in Msgs \ ({m} \cup SteeringOf(m)) : Kept(n)
           /\ \A n \in {m} \cup SteeringOf(m) : Left(n)
           /\ UNCHANGED <<state.uncertain, state.retries>>
  <1>1. state \in DurableStates /\ {m} \cup SteeringOf(m) \in SUBSET Msgs
    BY OriginSets DEF TypeOK
  <1>. QED
    BY <1>1, RemoveInFlightFacts DEF Kept, Left

\* A turn that is retried gives back its origin and the steering that Hermes
\* has not read.
LEMMA FinishRetryEffect ==
    ASSUME TypeOK, NEW m \in Msgs,
           state' = ReturnAdmittedToRetry(UpsertRetry(state, {m}), SteeringOf(m))
    PROVE  /\ \A n \in Msgs \ ({m} \cup SteeringOf(m)) : Kept(n)
           /\ Left(m)
           /\ \A n \in SteeringOf(m) : Kept(n) \/ Left(n)
           /\ \A n \in SteeringOf(m) : state.flight[n] = "hermes_may_start" => n = m \/ Kept(n)
           /\ UNCHANGED state.uncertain
  <1>. DEFINE t == UpsertRetry(state, {m})
  <1>1. state \in DurableStates /\ {m} \in SUBSET Msgs /\ SteeringOf(m) \in SUBSET Msgs
    BY OriginSets DEF TypeOK
  <1>2. /\ t \in DurableStates
        /\ \A n \in Msgs : t.flight[n] = IF n \in {m} THEN "none" ELSE state.flight[n]
        /\ t.retries = (state.retries \cup {m}) \ Exhausted(state, {m})
        /\ t.uncertain = state.uncertain
    BY <1>1, UpsertRetryFacts
  <1>3. Exhausted(state, {m}) \subseteq {m}
    BY DEF Exhausted
  <1>. HIDE DEF t
  <1>. DEFINE r == ReturnAdmittedToRetry(t, SteeringOf(m))
  <1>5. t \in DurableStates
    BY <1>2
  <1>6. /\ \A n \in Msgs : r.flight[n] = IF n \in SteeringOf(m) /\ t.flight[n] = "admitted"
                                         THEN "none" ELSE t.flight[n]
        /\ r.retries = t.retries \cup {n \in SteeringOf(m) : t.flight[n] = "admitted"}
        /\ r.uncertain = t.uncertain
    BY <1>1, <1>5, ReturnAdmittedFacts
  <1>. HIDE DEF r
  <1>7. state' = r
    BY DEF r, t
  <1>. QED
    BY <1>1, <1>2, <1>3, <1>6, <1>7 DEF Kept, Left

\* Fetching due retries touches no entry of the in-flight table.
LEMMA FetchEffect ==
    ASSUME TypeOK, QueuesDisjoint, Fetch
    PROVE  /\ \A n \in Msgs : state'.flight[n] = state.flight[n]
           /\ state'.retries \subseteq state.retries
           /\ UNCHANGED state.uncertain
           /\ seen \subseteq seen'
           /\ pc' \in {"admit", "fetchSave", "stopping"}
           /\ UNCHANGED <<disk, workers, history, target>>
  <1>1. PICK due \in SUBSET state.retries :
            \E outcome \in [due -> {"fetched", "gone", "retry"}] : FetchDue(due, outcome)
    BY DEF Fetch
  <1>2. PICK outcome \in [due -> {"fetched", "gone", "retry"}] : FetchDue(due, outcome)
    BY <1>1
  <1>. DEFINE gone == {m \in due : outcome[m] = "gone"}
              again == {m \in due : outcome[m] = "retry"}
              t == Terminalize(state, gone)
  <1>3. /\ state \in DurableStates /\ gone \in SUBSET Msgs /\ again \in SUBSET Msgs
        /\ gone \subseteq state.retries /\ again \subseteq state.retries
    BY DEF TypeOK, DurableStates
  <1>4. \A n \in state.retries : state.flight[n] = "none"
    BY <1>3 DEF QueuesDisjoint, InFlight, DurableStates
  <1>5. /\ t \in DurableStates
        /\ \A n \in Msgs : t.flight[n] = IF n \in gone THEN "none" ELSE state.flight[n]
        /\ t.retries = state.retries \ gone
        /\ t.uncertain = state.uncertain
    BY <1>3, TerminalizeFacts
  <1>. HIDE DEF t
  <1>6. /\ \A n \in Msgs : UpsertRetry(t, again).flight[n]
                              = IF n \in again THEN "none" ELSE t.flight[n]
        /\ UpsertRetry(t, again).retries = (t.retries \cup again) \ Exhausted(t, again)
        /\ UpsertRetry(t, again).uncertain = t.uncertain
    BY <1>3, <1>5, UpsertRetryFacts
  <1>7. /\ \/ state' = UpsertRetry(t, again)
           \/ state' = state
        /\ seen \subseteq seen'
        /\ pc' \in {"admit", "fetchSave", "stopping"}
        /\ target' = target
    BY <1>2 DEF FetchDue, Fatal, Goto, t
  <1>8. UNCHANGED <<disk, workers, history>>
    BY DEF Fetch
  <1>. QED
    BY <1>3, <1>4, <1>5, <1>6, <1>7, <1>8

\* What admit_messages takes is new: neither seen, nor in the hands of a
\* worker, nor in the in-flight table.
LEMMA AdmitEffect ==
    ASSUME TypeOK, Admit
    PROVE  /\ pc = "admit" /\ pc' \in {"admitSave", "stopping"}
           /\ \A n \in Msgs : \/ Kept(n)
                              \/ /\ n \notin seen /\ n \notin Pending
                                 /\ n \notin InFlight(state) /\ n \notin state.uncertain
                                 /\ \/ Left(n)
                                    \/ state'.flight[n] = "admitted" /\ n \notin state'.retries
           /\ pc' = "admitSave" =>
                \A n \in batch' : /\ n \notin seen /\ n \notin Pending
                                  /\ n \notin InFlight(state) /\ n \notin state.uncertain
                                  /\ state'.flight[n] = "admitted"
           /\ UNCHANGED state.uncertain
           /\ seen \subseteq seen'
           /\ UNCHANGED <<disk, workers, history>>
  <1>1. PICK page \in Pages :
            \E outcome \in [Candidates(page) -> {"ignored", "gone", "retry", "prepared"}] :
                AdmitCandidates(Candidates(page), outcome)
    BY DEF Admit
  <1>2. PICK outcome \in [Candidates(page) -> {"ignored", "gone", "retry", "prepared"}] :
            AdmitCandidates(Candidates(page), outcome)
    BY <1>1
  <1>. DEFINE found == Candidates(page)
              Of(o) == {m \in found : outcome[m] = o}
              s1 == RemoveRetry(state, Of("ignored"))
              s2 == Terminalize(s1, Of("gone"))
              s3 == UpsertRetry(s2, Of("retry"))
              s4 == AdmitOrigins(s3, Of("prepared"))
  <1>3. /\ found \in SUBSET Msgs
        /\ \A n \in found : /\ n \notin seen /\ n \notin Pending
                            /\ n \notin InFlight(state) /\ n \notin state.uncertain
    BY DEF Pages, Candidates, TypeOK
  <1>4. \A o : Of(o) \in SUBSET Msgs /\ Of(o) \subseteq found
    BY <1>3
  <1>5. /\ s1 \in DurableStates
        /\ s1.flight = state.flight
        /\ s1.retries = state.retries \ Of("ignored")
        /\ s1.uncertain = state.uncertain
    BY <1>4, RemoveRetryFacts DEF TypeOK
  <1>. HIDE DEF s1
  <1>6. /\ s2 \in DurableStates
        /\ \A n \in Msgs : s2.flight[n] = IF n \in Of("gone") THEN "none" ELSE s1.flight[n]
        /\ s2.retries = s1.retries \ Of("gone")
        /\ s2.uncertain = s1.uncertain
    BY <1>4, <1>5, TerminalizeFacts
  <1>. HIDE DEF s2
  <1>7. /\ s3 \in DurableStates
        /\ \A n \in Msgs : s3.flight[n] = IF n \in Of("retry") THEN "none" ELSE s2.flight[n]
        /\ s3.retries = (s2.retries \cup Of("retry")) \ Exhausted(s2, Of("retry"))
        /\ s3.uncertain = s2.uncertain
        /\ Exhausted(s2, Of("retry")) \subseteq Of("retry")
    BY <1>4, <1>6, UpsertRetryFacts, OriginSets
  <1>. HIDE DEF s3
  <1>8. /\ \A n \in Msgs : s4.flight[n] = IF n \in Of("prepared") THEN "admitted" ELSE s3.flight[n]
        /\ s4.retries = s3.retries \ Of("prepared")
        /\ s4.uncertain = s3.uncertain
    <2>1. s3 \in DurableStates /\ Of("prepared") \in SUBSET Msgs
      BY <1>4, <1>7
    <2>. HIDE DEF Of
    <2>. QED
      BY <2>1, AdmitOriginsFacts
  <1>. HIDE DEF s4
  <1>9. \/ /\ state' = s4
           /\ batch' = Of("prepared")
           /\ pc' = "admitSave"
           /\ seen \subseteq seen'
        \/ state' = state /\ seen' = seen /\ pc' = "stopping"
    BY <1>2 DEF AdmitCandidates, Fatal, Goto, s1, s2, s3, s4
  <1>10. pc = "admit" /\ UNCHANGED <<disk, workers, history>>
    BY DEF Admit
  <1>11. \A n \in Msgs \ found : s4.flight[n] = state.flight[n] /\ (n \in s4.retries <=> n \in state.retries)
    BY <1>4, <1>5, <1>6, <1>7, <1>8
  <1>12. \A n \in found : \/ s4.flight[n] = "none"
                          \/ s4.flight[n] = "admitted" /\ n \notin s4.retries
    <2>1. \A n \in found : state.flight[n] = "none"
      BY <1>3 DEF InFlight
    <2>. QED
      BY <1>3, <1>4, <1>5, <1>6, <1>7, <1>8, <2>1
  <1>13. s4.uncertain = state.uncertain
    BY <1>5, <1>6, <1>7, <1>8
  <1>14. \A n \in Of("prepared") : n \in found /\ s4.flight[n] = "admitted"
    BY <1>3, <1>8
  <1>. HIDE DEF found, Of
  <1>15. CASE state' = state /\ seen' = seen /\ pc' = "stopping"
    BY <1>10, <1>15 DEF Kept
  <1>16. CASE state' = s4 /\ batch' = Of("prepared") /\ pc' = "admitSave" /\ seen \subseteq seen'
    BY <1>3, <1>10, <1>11, <1>12, <1>13, <1>14, <1>16 DEF Kept, Left
  <1>. QED
    BY <1>9, <1>15, <1>16

(***************************************************************************)
(* The conjuncts of the invariant, one after the other.                    *)
(***************************************************************************)
\* The origin that is fed as steering is in the batch and was never fed.
LEMMA SteeredIsFresh ==
    ASSUME IInv, pc = "steer"
    PROVE  /\ target \in batch /\ target \in Msgs /\ target \notin Pending /\ fed[target] = 0
           /\ state.flight[target] = "hermes_may_start"
           /\ disk.st.flight[target] = "hermes_may_start"
  BY DEF IInv, TypeOK, BatchIsFresh, BatchPcs, BatchTargetPcs

\* A step feeds an origin only when it was never fed and is known, in memory
\* and in the file, as one that Hermes may have.
LEMMA FedStep ==
    ASSUME IInv, Next, NEW n \in Msgs, fed'[n] # fed[n]
    PROVE  /\ fed[n] = 0 /\ fed'[n] = 1
           /\ state.flight[n] = "hermes_may_start"
           /\ disk.st.flight[n] = "hermes_may_start"
           /\ \/ StartHermes(n)
              \/ pc = "steer" /\ n = target /\ (SteerAppendFails \/ SteerDelivered \/ SteerUncertain)
  <1>. DEFINE Goal == /\ fed[n] = 0 /\ fed'[n] = 1
                      /\ state.flight[n] = "hermes_may_start"
                      /\ disk.st.flight[n] = "hermes_may_start"
                      /\ \/ StartHermes(n)
                         \/ /\ pc = "steer" /\ n = target
                            /\ SteerAppendFails \/ SteerDelivered \/ SteerUncertain
  <1>0. fed \in [Msgs -> 0 .. 2]
    BY DEF IInv, TypeOK
  <1>1. CASE ProcessNext
    BY <1>1 DEF ProcessNext, Restart, BootSave, BootSaveFails, Crash, RequestShutdown,
       Halt, LoseMemory, history
  <1>2. CASE FinishNext
    BY <1>2 DEF FinishNext, FinishOk, FinishRetry, FinishFail, FinishRejected,
       PostCommitProof, PostCommitRetire, FinishFatal, RejectedSave,
       FinishRejectedProof, FinishSave, FinishDone, history
  <1>3. CASE LoopNext
    BY <1>3 DEF LoopNext, ReconcileDone, ReconcileTerminal, ReconcileSave, ReconcileEnd,
       LoopSave, Fetch, FetchSave, Undo, NothingToAdmit, Admit, AdmitSave, history
  <1>4. CASE SubmitNext
    BY <1>4 DEF SubmitNext, SubmitWorker, SubmitFails, SteerDeferred, SteerMark,
       SubmitBroken, SubmitSave, SubmitEnd, history
  <1>5. CASE SteerNext
    <2>1. CASE SteerAppendFails \/ SteerDelivered \/ SteerUncertain
      <3>1. pc = "steer" /\ (Feed(target) \/ UNCHANGED fed)
        BY <2>1 DEF SteerAppendFails, SteerDelivered, SteerUncertain
      <3>2. Feed(target) /\ n = target
        BY <1>0, <3>1 DEF Feed
      <3>. QED
        BY <1>0, <2>1, <3>1, <3>2, SteeredIsFresh DEF Feed
    <2>. QED
      BY <1>5, <2>1 DEF SteerNext, SteerSave, AbandonSave, SteerUnmark, SteerUndoSave,
         SteerRefused, RetireSave, RetireRetry, history
  <1>6. CASE InlineNext
    BY <1>6 DEF InlineNext, InlineMark, InlineSave, InlineAnswered, InlinePublish,
       InlineFails, InlineFull, history
  <1>7. ASSUME NEW m \in Msgs, WorkerNext(m) PROVE Goal
    <2>1. CASE StartHermes(m)
      <3>1. phase[m] = "gate" /\ Feed(m)
        BY <2>1 DEF StartHermes, Working
      <3>2. n = m
        BY <1>0, <3>1 DEF Feed
      <3>3. /\ fed[m] = 0
            /\ state.flight[m] = "hermes_may_start"
            /\ disk.st.flight[m] = "hermes_may_start"
        BY <3>1 DEF IInv, WorkersAreStaged, BeforeHermes
      <3>. QED
        BY <1>0, <2>1, <3>1, <3>2, <3>3 DEF Feed
    <2>. QED
      BY <1>7, <2>1 DEF WorkerNext, Begin, PreFails, LocalAnswer, Mark, MarkSave, Register,
         StartFails, HermesEnds, AnswerBlocked, PostAnswer, Publish, PublishSave,
         ErrorNotice, ErrorSave, history
  <1>. QED
    BY <1>1, <1>2, <1>3, <1>4, <1>5, <1>6, <1>7 DEF Next, MainNext

\* What IInv says of the entry of one origin in memory.
EntryOK(n) ==
    /\ n \in state.retries => state.flight[n] = "none"
    /\ fed[n] > 0 => Known(state, seen, n)
    /\ phase[n] \notin {"idle", "done"} => state.flight[n] # "none"
    /\ phase[n] \in {"markSave", "marked", "gate"} => state.flight[n] = "hermes_may_start"
    /\ phase[n] # "idle" /\ started[n] /\ result[n] # "retire"
          => state.flight[n] = "hermes_may_start"

\* The same as one formula per origin, with what is known of its worker.
LEMMA EntryBefore ==
    ASSUME IInv, pc # "down", NEW n \in Msgs
    PROVE  /\ EntryOK(n)
           /\ phase[n] # "idle" /\ ~ started[n] => fed[n] = 0
           /\ result[n] = "retry" => ~ started[n]
           /\ phase[n] # "done" => result[n] = "none"
           /\ phase[n] \in BeforeHermes \cup {"idle"} => ~ started[n]
           /\ steerOf[n] # NoMsg => fed[n] > 0 /\ phase[n] = "idle"
           /\ state.flight[n] \in {"none", "admitted", "hermes_may_start"}
           /\ fed[n] \in 0 .. 1
           /\ phase[n] \in Phases /\ result[n] \in Results /\ started[n] \in BOOLEAN
  BY DEF IInv, TypeOK, QueuesDisjoint, FedIsKnown, WorkersAreStaged, SteeringIsFed,
     HermesAtMostOnce, EntryOK, InFlight, Pending, DurableStates, Stages

\* An origin of the batch is in the in-flight table, and was never used.
LEMMA BatchBefore ==
    ASSUME IInv, pc \in BatchPcs, NEW n \in batch
    PROVE  /\ n \in Msgs /\ phase[n] = "idle" /\ fed[n] = 0 /\ steerOf[n] = NoMsg
           /\ state.flight[n] # "none"
           /\ n \notin state.retries
  BY DEF IInv, TypeOK, BatchIsFresh, SteeringIsFed, QueuesDisjoint, InFlight, Pending

\* A save leaves the entries as they are.
LEMMA PersistEffect ==
    ASSUME TypeOK
    PROVE  /\ PersistOk => Saved /\ UNCHANGED state /\ seen \subseteq seen' \cup state.uncertain
           /\ \A site : PersistFails(site) =>
                /\ Saved \/ UNCHANGED disk
                /\ UNCHANGED state
                /\ seen \subseteq seen' \cup state.uncertain
  BY PersistedSeenFacts DEF PersistOk, PersistFails, Saved, TypeOK

\* Where nothing about an origin changes but seen, its entry stays as it is.
LEMMA EntryStays ==
    ASSUME NEW n \in Msgs, EntryOK(n),
           Kept(n), n \in state.uncertain => n \in state'.uncertain,
           n \in seen => n \in seen' \cup state'.uncertain,
           UNCHANGED <<fed, phase, started, result>>
    PROVE  EntryOK(n)'
  BY DEF EntryOK, Kept, Known

\* The steering of a turn has no worker of its own.
LEMMA SteeringIsIdle ==
    ASSUME IInv, pc # "down", NEW m \in Msgs, NEW n \in SteeringOf(m)
    PROVE  n \in Msgs /\ phase[n] = "idle"
  BY EntryBefore, MsgsAssumption DEF SteeringOf

\* What forgetting a turn does to the workers.
LEMMA RetireEffect ==
    ASSUME TypeOK, NEW m \in Msgs, Retire(m)
    PROVE  /\ phase'[m] = "idle"
           /\ \A n \in Msgs \ {m} : /\ phase'[n] = phase[n]
                                    /\ result'[n] = result[n]
                                    /\ started'[n] = started[n]
  BY DEF Retire, TypeOK

\* A refused reply: all but the second save of its retirement is done.
Retiring(m) ==
    /\ phase[m] = "done"
    /\ result' = [result EXCEPT ![m] = "retire"]
    /\ steerOf' = [s \in Msgs |-> IF steerOf[s] = m THEN NoMsg ELSE steerOf[s]]
    /\ UNCHANGED <<phase, started>>

\* A turn that became terminal is forgotten, at once or after one more save.
LEMMA RejectedEffect ==
    ASSUME TypeOK, FinishRejectedProof, pc = "rejected" => phase[target] = "done"
    PROVE  \/ target \in Msgs /\ TerminateTurn(target) /\ Retiring(target)
           \/ UNCHANGED <<state, seen, workers>>
  BY DEF TypeOK, TargetPcs, FinishRejectedProof, NoRoomForTurn, Retiring

\* The entries after a step of finish_pending.
LEMMA FinishEntries ==
    ASSUME IInv, FinishNext, NEW n \in Msgs
    PROVE  EntryOK(n)'
  <1>1. TypeOK /\ pc # "down"
    BY DEF IInv, FinishNext, FinishOk, FinishRetry, FinishFail, FinishRejected,
       PostCommitProof, PostCommitRetire, FinishFatal, RejectedSave,
       FinishRejectedProof, FinishSave, FinishDone, Finishing
  <1>. USE <1>1, EntryBefore
  <1>2. ASSUME NEW m \in Msgs, TerminateTurn(m), Retire(m) \/ Retiring(m), UNCHANGED fed
        PROVE  EntryOK(n)'
    <2>0. /\ \A k \in Msgs \ ({m} \cup SteeringOf(m)) : Kept(k)
          /\ \A k \in {m} \cup SteeringOf(m) : Left(k)
          /\ m \in seen'
          /\ \A k \in SteeringOf(m) : state.flight[k] = "hermes_may_start" => k \in seen'
          /\ UNCHANGED state.uncertain
          /\ seen \subseteq seen'
      BY <1>2, TerminateEffect
    <2>1. CASE n \in {m} \cup SteeringOf(m)
      <3>1. phase'[n] = "idle" \/ (phase'[n] = "done" /\ result'[n] = "retire")
        BY <1>2, <2>1, RetireEffect, SteeringIsIdle DEF Retiring, TypeOK
      <3>. QED
        BY <1>2, <2>0, <2>1, <3>1 DEF EntryOK, Left, Known
    <2>2. CASE n \notin {m} \cup SteeringOf(m)
      <3>1. /\ phase'[n] = phase[n]
            /\ result'[n] = result[n]
            /\ started'[n] = started[n]
        BY <1>2, <2>2, RetireEffect DEF Retiring, TypeOK
      <3>. QED
        BY <1>2, <2>0, <2>2, <3>1 DEF EntryOK, Kept, Known
    <2>. QED
      BY <2>1, <2>2
  <1>3. ASSUME NEW m \in Msgs, FinishOk(m) PROVE EntryOK(n)'
    <2>1. /\ state' = RemoveInFlight(state, {m} \cup SteeringOf(m))
          /\ seen' = seen \cup {m} \cup SteeringOf(m)
          /\ Retire(m) /\ UNCHANGED fed
      BY <1>3 DEF FinishOk, history
    <2>2. CASE n \in {m} \cup SteeringOf(m)
      <3>1. phase'[n] = "idle" /\ Left(n)
        BY <2>1, <2>2, FinishOkEffect, RetireEffect, SteeringIsIdle
      <3>. QED
        BY <2>1, <2>2, <3>1 DEF EntryOK, Left, Known
    <2>3. CASE n \notin {m} \cup SteeringOf(m)
      <3>1. Kept(n) /\ UNCHANGED state.uncertain
        BY <2>1, <2>3, FinishOkEffect
      <3>. QED
        BY <2>1, <2>3, <3>1, RetireEffect DEF EntryOK, Kept, Known
    <2>. QED
      BY <2>2, <2>3
  <1>4. ASSUME NEW m \in Msgs, FinishRetry(m) PROVE EntryOK(n)'
    <2>1. CASE DeadLetterRoom(state, Exhausted(state, {m}))
      <3>1. /\ state' = ReturnAdmittedToRetry(UpsertRetry(state, {m}), SteeringOf(m))
            /\ seen' = (seen \ {m}) \cup Exhausted(state, {m})
            /\ Retire(m) /\ UNCHANGED fed
            /\ phase[m] = "done" /\ result[m] = "retry"
        BY <1>4, <2>1 DEF FinishRetry, Finishing, history
      <3>2. fed[m] = 0
        BY <3>1
      <3>a. /\ \A k \in Msgs \ ({m} \cup SteeringOf(m)) : Kept(k)
            /\ Left(m)
            /\ \A k \in SteeringOf(m) : Kept(k) \/ Left(k)
            /\ \A k \in SteeringOf(m) : state.flight[k] = "hermes_may_start" => k = m \/ Kept(k)
            /\ UNCHANGED state.uncertain
        BY <3>1, FinishRetryEffect
      <3>3. CASE n = m
        <4>1. phase'[n] = "idle"
          BY <3>1, <3>3, RetireEffect
        <4>. QED
          BY <3>1, <3>2, <3>a, <3>3, <4>1 DEF EntryOK, Left
      <3>4. CASE n # m /\ n \in SteeringOf(m)
        <4>1. phase'[n] = "idle"
          BY <3>1, <3>4, RetireEffect, SteeringIsIdle
        <4>2. n \in seen => n \in seen'
          BY <3>1, <3>4
        <4>. QED
          BY <3>1, <3>a, <3>4, <4>1, <4>2 DEF EntryOK, Left, Kept, Known
      <3>5. CASE n # m /\ n \notin SteeringOf(m)
        <4>1. n \in seen => n \in seen'
          BY <3>1, <3>5
        <4>. QED
          BY <3>1, <3>a, <3>5, <4>1, RetireEffect DEF EntryOK, Kept, Known
      <3>. QED
        BY <3>3, <3>4, <3>5
    <2>2. CASE ~ DeadLetterRoom(state, Exhausted(state, {m}))
      BY <1>4, <2>2 DEF FinishRetry, EntryOK, history, workers, Known
    <2>. QED
      BY <2>1, <2>2
  <1>5. ASSUME NEW m \in Msgs, FinishRejected(m) PROVE EntryOK(n)'
    <2>1. /\ phase[m] = "done" /\ result[m] = "rejected"
          /\ UNCHANGED <<fed, phase, started, result>>
      BY <1>5 DEF FinishRejected, Finishing, history, workers
    <2>2. Kept(n) /\ UNCHANGED state.uncertain
      BY <1>5 DEF FinishRejected, Kept, TypeOK, DurableStates
    <2>3. n # m /\ n \in seen => n \in seen'
      BY <1>5 DEF FinishRejected
    <2>4. CASE n = m
      BY <2>1, <2>2, <2>4 DEF EntryOK, Kept, Known
    <2>. QED
      BY <2>1, <2>2, <2>3, <2>4, EntryStays
  <1>6. ASSUME NEW m \in Msgs, PostCommitProof(m) PROVE EntryOK(n)'
    <2>1. CASE PersistFails("loop") /\ UNCHANGED result
      BY <1>6, <2>1, PersistEffect, EntryStays DEF PostCommitProof, Kept, history
    <2>2. CASE /\ state' = RemoveInFlight(state, {m} \cup SteeringOf(m))
               /\ seen' = PersistedSeen(state, seen) \cup {m} \cup SteeringOf(m)
               /\ result' = [result EXCEPT ![m] = "retire"]
      <3>1. UNCHANGED <<fed, phase, started>> /\ phase[m] = "done"
        BY <1>6 DEF PostCommitProof, Finishing, history
      <3>2. seen \subseteq PersistedSeen(state, seen) \cup state.uncertain
        BY PersistedSeenFacts DEF TypeOK
      <3>3. CASE n \in {m} \cup SteeringOf(m)
        <4>1. Left(n) /\ phase'[n] \in {"idle", "done"} /\ n \in seen'
          BY <2>2, <3>1, <3>3, FinishOkEffect, SteeringIsIdle
        <4>2. phase[n] = "done" => n = m /\ result'[n] = "retire"
          BY <2>2, <3>3, SteeringIsIdle DEF TypeOK
        <4>. QED
          BY <3>1, <4>1, <4>2 DEF EntryOK, Left, Known
      <3>4. CASE n \notin {m} \cup SteeringOf(m)
        BY <2>2, <3>1, <3>2, <3>4, FinishOkEffect DEF EntryOK, Kept, Known, TypeOK
      <3>. QED
        BY <3>3, <3>4
    <2>. QED
      BY <1>6, <2>1, <2>2 DEF PostCommitProof
  <1>7. ASSUME NEW m \in Msgs, PostCommitRetire(m) PROVE EntryOK(n)'
    <2>1. /\ Retire(m) \/ UNCHANGED workers
          /\ UNCHANGED <<state, fed>>
          /\ seen \subseteq seen' \cup state.uncertain
      BY <1>7, PersistEffect DEF PostCommitRetire, history
    <2>. QED
      BY <2>1 DEF EntryOK, Retire, Known, workers, TypeOK
  <1>8. CASE RejectedSave \/ FinishSave
    BY <1>8, PersistEffect, EntryStays DEF RejectedSave, FinishSave, Kept, history, workers
  <1>9. ASSUME NEW m \in Msgs, FinishFail(m) PROVE EntryOK(n)'
    BY <1>2, <1>9 DEF FinishFail, NoRoomForTurn, EntryOK, history, workers, Known
  <1>10. CASE FinishRejectedProof
    <2>1. UNCHANGED fed
      BY <1>10 DEF FinishRejectedProof, history
    <2>2. pc = "rejected" => phase[target] = "done"
      BY DEF IInv, BatchIsFresh
    <2>. QED
      BY <1>2, <1>10, <2>1, <2>2, RejectedEffect DEF EntryOK, workers, Known
  <1>11. CASE FinishDone \/ \E m \in Msgs : FinishFatal(m)
    BY <1>11 DEF FinishDone, FinishFatal, EntryOK, Known, durables, history, workers
  <1>. QED
    BY <1>3, <1>4, <1>5, <1>6, <1>7, <1>8, <1>9, <1>10, <1>11 DEF FinishNext

\* A failed attempt of an origin that was never fed keeps the entries in order.
LEMMA RetryLaterEntries ==
    ASSUME IInv, pc # "down", NEW m \in Msgs, RetryLater(m), phase[m] = "idle", fed[m] = 0,
           UNCHANGED <<fed, workers>>, NEW n \in Msgs
    PROVE  EntryOK(n)'
  <1>1. TypeOK
    BY DEF IInv
  <1>2. EntryOK(n) /\ UNCHANGED <<phase, started, result>>
    BY EntryBefore DEF workers
  <1>3. CASE UNCHANGED <<state, seen>>
    BY <1>2, <1>3 DEF EntryOK, Known
  <1>4. CASE /\ Left(m)
             /\ \A k \in Msgs \ {m} : Kept(k)
             /\ UNCHANGED state.uncertain
             /\ seen \subseteq seen'
    BY <1>2, <1>4 DEF EntryOK, Left, Kept, Known
  <1>. QED
    BY <1>1, <1>3, <1>4, RetryLaterEffect

\* So does deferring it.
LEMMA DeferEntries ==
    ASSUME IInv, pc # "down", NEW m \in Msgs, Defer(m), phase[m] = "idle", fed[m] = 0,
           UNCHANGED <<fed, workers>>, NEW n \in Msgs
    PROVE  EntryOK(n)'
  <1>1. TypeOK
    BY DEF IInv
  <1>2. EntryOK(n) /\ UNCHANGED <<phase, started, result>>
    BY EntryBefore DEF workers
  <1>. QED
    BY <1>1, <1>2, DeferEffect DEF EntryOK, Left, Kept, Known

\* Changing the stage of an origin in the table keeps the queues disjoint.
LEMMA StageEntries ==
    ASSUME IInv, pc # "down", NEW m \in Msgs, NEW stage \in {"admitted", "hermes_may_start"},
           state' = WithStage(state, {m}, stage),
           state.flight[m] # "none",
           stage = "admitted" => phase[m] = "idle" /\ fed[m] = 0,
           UNCHANGED <<seen, fed, started, result>>,
           NEW n \in Msgs, n # m => phase'[n] = phase[n],
           n = m => phase'[n] \in {phase[n], "markSave"} /\ (phase[n] # phase'[n] => phase[n] = "pre")
    PROVE  EntryOK(n)'
  <1>1. state \in DurableStates /\ {m} \in SUBSET Msgs /\ stage \in Stages
    BY DEF IInv, TypeOK, Stages
  <1>2. /\ \A k \in Msgs : state'.flight[k] = IF k \in {m} THEN stage ELSE state.flight[k]
        /\ state'.retries = state.retries
        /\ state'.uncertain = state.uncertain
    BY <1>1, WithStageFacts
  <1>3. EntryOK(n) /\ (phase[n] \in BeforeHermes \cup {"idle"} => ~ started[n])
    BY EntryBefore
  <1>4. CASE n = m
    BY <1>2, <1>3, <1>4 DEF EntryOK, Known, BeforeHermes
  <1>5. CASE n # m
    BY <1>2, <1>3, <1>5 DEF EntryOK, Known
  <1>. QED
    BY <1>4, <1>5

\* The entries after a step of the loop body.
LEMMA LoopEntries ==
    ASSUME IInv, ReliableAdmission, LoopNext, NEW n \in Msgs
    PROVE  EntryOK(n)'
  <1>1. TypeOK /\ QueuesDisjoint /\ pc # "down" /\ pc # "undo"
    BY DEF IInv, LoopNext, ReconcileDone, ReconcileTerminal, ReconcileSave, ReconcileEnd,
       LoopSave, Fetch, FetchSave, Undo, NothingToAdmit, Admit, AdmitSave
  <1>2. EntryOK(n)
    BY <1>1, EntryBefore
  <1>3. CASE \E m \in Msgs : ReconcileDone(m) \/ ReconcileTerminal(m)
    <2>1. Kept(n) /\ UNCHANGED state.uncertain
      BY <1>1, <1>3 DEF ReconcileDone, ReconcileTerminal, Kept, TypeOK, DurableStates
    <2>. QED
      BY <1>2, <1>3, <2>1, EntryStays DEF ReconcileDone, ReconcileTerminal, history, workers
  <1>4. CASE ReconcileSave \/ LoopSave \/ FetchSave \/ AdmitSave
    BY <1>1, <1>2, <1>4, PersistEffect, EntryStays
    DEF ReconcileSave, LoopSave, FetchSave, AdmitSave, Kept, history, workers
  <1>5. CASE ReconcileEnd \/ NothingToAdmit
    BY <1>2, <1>5 DEF ReconcileEnd, NothingToAdmit, EntryOK, Known, durables, history, workers
  <1>6. CASE Fetch
    <2>1. UNCHANGED <<fed, phase, started, result>>
      BY <1>1, <1>6, FetchEffect DEF history, workers
    <2>2. /\ \A k \in Msgs : state'.flight[k] = state.flight[k]
          /\ state'.retries \subseteq state.retries
          /\ UNCHANGED state.uncertain
          /\ seen \subseteq seen'
      BY <1>1, <1>6, FetchEffect
    <2>. QED
      BY <1>2, <2>1, <2>2 DEF EntryOK, Known
  <1>7. CASE Admit
    <2>1. UNCHANGED <<fed, phase, started, result>> /\ seen \subseteq seen' /\ UNCHANGED state.uncertain
      BY <1>1, <1>7, AdmitEffect DEF history, workers
    <2>2. CASE Kept(n)
      BY <1>2, <2>1, <2>2, EntryStays
    <2>3. CASE /\ n \notin seen /\ n \notin Pending
               /\ n \notin InFlight(state) /\ n \notin state.uncertain
               /\ \/ Left(n)
                  \/ state'.flight[n] = "admitted" /\ n \notin state'.retries
      <3>1. phase[n] = "idle" /\ fed[n] = 0
        BY <1>1, <1>2, <2>3, EntryBefore DEF Pending, InFlight, EntryOK, Known
      <3>. QED
        BY <2>1, <2>3, <3>1 DEF EntryOK, Left
    <2>. QED
      BY <1>1, <1>7, <2>2, <2>3, AdmitEffect
  <1>. QED
    BY <1>1, <1>3, <1>4, <1>5, <1>6, <1>7 DEF LoopNext, Undo

\* The entries after a step of the submission of a batch.
LEMMA SubmitEntries ==
    ASSUME IInv, SubmitNext, NEW n \in Msgs
    PROVE  EntryOK(n)'
  <1>1. TypeOK /\ pc # "down" /\ pc \in BatchPcs
    BY DEF IInv, SubmitNext, SubmitWorker, SubmitFails, SteerDeferred, SteerMark,
       SubmitBroken, SubmitSave, SubmitEnd, Submitting, BatchPcs
  <1>2. EntryOK(n) /\ (phase[n] \in BeforeHermes \cup {"idle"} => ~ started[n])
    BY <1>1, EntryBefore
  <1>3. \A m \in batch : m \in Msgs /\ phase[m] = "idle" /\ fed[m] = 0 /\ state.flight[m] # "none"
    BY <1>1, BatchBefore
  <1>4. ASSUME NEW m \in Msgs, SubmitWorker(m) PROVE EntryOK(n)'
    <2>1. /\ m \in batch
          /\ phase' = [phase EXCEPT ![m] = "queued"]
          /\ UNCHANGED <<state, seen, fed, started, result>>
      BY <1>4 DEF SubmitWorker, Submitting, durables, history
    <2>. QED
      BY <1>1, <1>2, <1>3, <2>1 DEF EntryOK, Known, TypeOK, BeforeHermes
  <1>5. ASSUME NEW m \in Msgs, SubmitFails(m) \/ SteerDeferred(m) PROVE EntryOK(n)'
    <2>1. m \in batch /\ (RetryLater(m) \/ Defer(m)) /\ UNCHANGED <<fed, workers>>
      BY <1>5 DEF SubmitFails, SteerDeferred, Submitting, history
    <2>. QED
      BY <1>1, <1>3, <2>1, RetryLaterEntries, DeferEntries
  <1>6. ASSUME NEW m \in Msgs, SteerMark(m) PROVE EntryOK(n)'
    <2>1. /\ m \in batch
          /\ state' = WithStage(state, {m}, "hermes_may_start") \/ UNCHANGED state
          /\ UNCHANGED <<seen, fed, started, result, phase>>
      BY <1>6 DEF SteerMark, Submitting, MarkMayStart, history, workers
    <2>2. CASE UNCHANGED state
      BY <1>2, <2>1, <2>2 DEF EntryOK, Known
    <2>. QED
      BY <1>1, <1>3, <2>1, <2>2, StageEntries
  <1>7. CASE SubmitSave
    BY <1>1, <1>2, <1>7, PersistEffect, EntryStays DEF SubmitSave, Kept, history, workers
  <1>8. CASE SubmitBroken \/ SubmitEnd
    BY <1>2, <1>8 DEF SubmitBroken, SubmitEnd, EntryOK, Known, durables, history, workers
  <1>. QED
    BY <1>4, <1>5, <1>6, <1>7, <1>8 DEF SubmitNext

\* Taking one origin that is seen, uncertain or never fed out of both queues.
LEMMA TargetLeaves ==
    ASSUME IInv, pc # "down", NEW m \in Msgs, phase[m] = "idle",
           UNCHANGED <<phase, started, result>>,
           Left(m), \A k \in Msgs \ {m} : Kept(k),
           \A k \in Msgs \ {m} : fed'[k] = fed[k],
           \A k \in Msgs : k \in state.uncertain => k \in state'.uncertain,
           \A k \in Msgs \ {m} : k \in seen => k \in seen' \cup state'.uncertain,
           fed'[m] = 0 \/ m \in seen' \cup state'.uncertain,
           fed'[m] \in Nat,
           NEW n \in Msgs
    PROVE  EntryOK(n)'
  <1>1. EntryOK(n)
    BY EntryBefore
  <1>2. CASE n = m
    BY <1>1, <1>2 DEF EntryOK, Left, Known
  <1>3. CASE n # m
    BY <1>1, <1>3 DEF EntryOK, Kept, Known
  <1>. QED
    BY <1>2, <1>3

\* Terminalize takes one origin out of both queues.
LEMMA TargetTerminal ==
    ASSUME TypeOK, NEW m \in Msgs
    PROVE  /\ Terminalize(state, {m}) \in DurableStates
           /\ Terminalize(state, {m}).flight[m] = "none"
           /\ Terminalize(state, {m}).uncertain = state.uncertain
           /\ \A k \in Msgs \ {m} :
                /\ Terminalize(state, {m}).flight[k] = state.flight[k]
                /\ k \in Terminalize(state, {m}).retries <=> k \in state.retries
  <1>1. state \in DurableStates /\ {m} \in SUBSET Msgs
    BY DEF TypeOK
  <1>. QED
    BY <1>1, TerminalizeFacts

\* The entries after a step of the steering path.
LEMMA SteerEntries ==
    ASSUME IInv, SteerNext, NEW n \in Msgs
    PROVE  EntryOK(n)'
  <1>1. TypeOK /\ pc # "down"
    BY DEF IInv, SteerNext, SteerSave, AbandonSave, SteerUnmark, SteerUndoSave,
       SteerRefused, SteerAppendFails, SteerDelivered, SteerUncertain, RetireSave, RetireRetry
  <1>2. EntryOK(n)
    BY <1>1, EntryBefore
  <1>3. pc \in BatchTargetPcs =>
            /\ target \in Msgs /\ phase[target] = "idle" /\ fed[target] = 0
            /\ state.flight[target] # "none"
    <2>1. pc \in BatchTargetPcs => pc \in BatchPcs /\ target \in batch
      BY DEF IInv, BatchIsFresh, BatchPcs, BatchTargetPcs
    <2>. QED
      BY <2>1, BatchBefore
  <1>4. CASE AbandonSave \/ RetireSave \/ RetireRetry
    BY <1>1, <1>2, <1>4, PersistEffect, EntryStays
    DEF AbandonSave, RetireSave, RetireRetry, Kept, history, workers
  <1>5. CASE SteerRefused
    <2>1. pc \in BatchTargetPcs /\ (RetryLater(target) \/ Defer(target)) /\ UNCHANGED <<fed, workers>>
      BY <1>5 DEF SteerRefused, BatchTargetPcs, history
    <2>. QED
      BY <1>1, <1>3, <2>1, RetryLaterEntries, DeferEntries
  <1>6. CASE SteerUnmark
    <2>1. /\ pc \in BatchTargetPcs
          /\ state' = WithStage(state, {target}, "admitted")
          /\ UNCHANGED <<seen, fed, started, result, phase>>
      BY <1>6 DEF SteerUnmark, BatchTargetPcs, history, workers
    <2>. QED
      BY <1>1, <1>3, <2>1, StageEntries
  <1>7. CASE SteerSave
    <2>1. pc \in BatchTargetPcs /\ UNCHANGED <<fed, started, result, phase>>
      BY <1>7 DEF SteerSave, BatchTargetPcs, history, workers
    <2>2. CASE PersistOk
      BY <1>1, <1>2, <2>1, <2>2, PersistEffect, EntryStays DEF Kept
    <2>3. CASE /\ state' = ReturnAdmittedToRetry(WithStage(state, {target}, "admitted"), {target})
               /\ seen' = PersistedSeen(state, seen)
      <3>. DEFINE w == WithStage(state, {target}, "admitted")
                  r == ReturnAdmittedToRetry(w, {target})
      <3>1. state \in DurableStates /\ {target} \in SUBSET Msgs /\ "admitted" \in Stages
        BY <1>1, <1>3, <2>1 DEF TypeOK, Stages
      <3>2. /\ w \in DurableStates
            /\ \A k \in Msgs : w.flight[k] = IF k \in {target} THEN "admitted" ELSE state.flight[k]
            /\ w.retries = state.retries
            /\ w.uncertain = state.uncertain
        BY <3>1, WithStageFacts
      <3>. HIDE DEF w
      <3>3. /\ \A k \in Msgs : r.flight[k] = IF k \in {target} /\ w.flight[k] = "admitted"
                                             THEN "none" ELSE w.flight[k]
            /\ r.retries = w.retries \cup {k \in {target} : w.flight[k] = "admitted"}
            /\ r.uncertain = w.uncertain
        BY <3>1, <3>2, ReturnAdmittedFacts
      <3>4. state' = r
        BY <2>3 DEF w
      <3>. HIDE DEF r
      <3>5. seen \subseteq seen' \cup state.uncertain
        BY <1>1, <2>3, PersistedSeenFacts DEF TypeOK
      <3>6. Left(target) /\ (\A k \in Msgs \ {target} : Kept(k)) /\ UNCHANGED state.uncertain
        BY <1>3, <2>1, <3>2, <3>3, <3>4 DEF Left, Kept
      <3>. QED
        BY <1>1, <1>3, <2>1, <3>5, <3>6, TargetLeaves
    <2>. QED
      BY <1>7, <2>2, <2>3 DEF SteerSave
  <1>8. CASE SteerUndoSave
    <2>1. pc \in BatchTargetPcs /\ UNCHANGED <<fed, started, result, phase>>
      BY <1>8 DEF SteerUndoSave, BatchTargetPcs, history, workers
    <2>2. CASE PersistOk
      BY <1>1, <1>2, <2>1, <2>2, PersistEffect, EntryStays DEF Kept
    <2>3. CASE /\ state' = ReturnAdmittedToRetry(state, {target})
               /\ seen' = PersistedSeen(state, seen)
      <3>. DEFINE r == ReturnAdmittedToRetry(state, {target})
      <3>1. state \in DurableStates /\ {target} \in SUBSET Msgs
        BY <1>1, <1>3, <2>1 DEF TypeOK
      <3>2. /\ \A k \in Msgs : r.flight[k] = IF k \in {target} /\ state.flight[k] = "admitted"
                                             THEN "none" ELSE state.flight[k]
            /\ r.retries = state.retries \cup {k \in {target} : state.flight[k] = "admitted"}
            /\ r.uncertain = state.uncertain
        BY <3>1, ReturnAdmittedFacts
      <3>3. state' = r
        BY <2>3
      <3>. HIDE DEF r
      <3>4. seen \subseteq seen' \cup state.uncertain
        BY <1>1, <2>3, PersistedSeenFacts DEF TypeOK
      <3>5. (Left(target) \/ Kept(target)) /\ (\A k \in Msgs \ {target} : Kept(k)) /\ UNCHANGED state.uncertain
        BY <1>3, <2>1, <3>2, <3>3 DEF Left, Kept
      <3>. QED
        BY <1>1, <1>2, <1>3, <2>1, <3>4, <3>5, TargetLeaves, EntryStays
    <2>. QED
      BY <1>8, <2>2, <2>3 DEF SteerUndoSave
  <1>9. CASE SteerAppendFails \/ SteerDelivered \/ SteerUncertain
    <2>1. /\ pc \in BatchTargetPcs /\ pc = "steer"
          /\ UNCHANGED <<started, result, phase>>
          /\ Feed(target) \/ UNCHANGED fed
      BY <1>9 DEF SteerAppendFails, SteerDelivered, SteerUncertain, BatchTargetPcs, workers
    <2>2. /\ \A k \in Msgs \ {target} : fed'[k] = fed[k]
          /\ fed'[target] \in Nat
      BY <1>1, <1>3, <2>1 DEF Feed, TypeOK
    <2>3. state.flight[target] = "hermes_may_start"
      BY <2>1, SteeredIsFresh
    <2>4. CASE UNCHANGED <<state, seen>>
      <3>1. CASE n = target
        BY <1>2, <1>3, <2>1, <2>3, <2>4, <3>1 DEF EntryOK, Known
      <3>2. CASE n # target
        BY <1>2, <2>1, <2>2, <2>4, <3>2 DEF EntryOK, Known
      <3>. QED
        BY <3>1, <3>2
    <2>5. CASE state' = Terminalize(state, {target}) /\ seen' = seen \cup {target}
      <3>1. Left(target) /\ (\A k \in Msgs \ {target} : Kept(k)) /\ UNCHANGED state.uncertain
        BY <1>1, <1>3, <2>1, <2>5, TargetTerminal DEF Left, Kept
      <3>. QED
        BY <1>1, <1>3, <2>1, <2>2, <2>5, <3>1, TargetLeaves
    <2>6. CASE /\ state' = [Terminalize(state, {target}) EXCEPT !.uncertain = @ \cup {target}]
               /\ seen' = seen \ {target}
      <3>. DEFINE t == Terminalize(state, {target})
      <3>1. /\ t \in DurableStates
            /\ t.flight[target] = "none"
            /\ t.uncertain = state.uncertain
            /\ \A k \in Msgs \ {target} :
                 t.flight[k] = state.flight[k] /\ (k \in t.retries <=> k \in state.retries)
        BY <1>1, <1>3, <2>1, TargetTerminal
      <3>2. state' = [t EXCEPT !.uncertain = @ \cup {target}]
        BY <2>6
      <3>. HIDE DEF t
      <3>3. /\ state'.flight = t.flight /\ state'.retries = t.retries
            /\ state'.uncertain = t.uncertain \cup {target}
        BY <3>1, <3>2 DEF DurableStates
      <3>4. Left(target) /\ (\A k \in Msgs \ {target} : Kept(k))
        BY <3>1, <3>3 DEF Left, Kept
      <3>. QED
        BY <1>1, <1>3, <2>1, <2>2, <2>6, <3>1, <3>3, <3>4, TargetLeaves
    <2>. QED
      BY <1>9, <2>4, <2>5, <2>6 DEF SteerAppendFails, SteerDelivered, SteerUncertain, durables
  <1>. QED
    BY <1>4, <1>5, <1>6, <1>7, <1>8, <1>9 DEF SteerNext

\* The entries after a step of an inline answer.
LEMMA InlineEntries ==
    ASSUME IInv, InlineNext, NEW n \in Msgs
    PROVE  EntryOK(n)'
  <1>1. TypeOK /\ pc # "down"
    BY DEF IInv, InlineNext, InlineMark, InlineSave, InlineAnswered, InlinePublish,
       InlineFails, InlineFull, Submitting
  <1>2. EntryOK(n)
    BY <1>1, EntryBefore
  <1>3. pc \in BatchTargetPcs =>
            /\ target \in Msgs /\ phase[target] = "idle" /\ fed[target] = 0
            /\ state.flight[target] # "none"
    <2>1. pc \in BatchTargetPcs => pc \in BatchPcs /\ target \in batch
      BY DEF IInv, BatchIsFresh, BatchPcs, BatchTargetPcs
    <2>. QED
      BY <2>1, BatchBefore
  <1>4. ASSUME NEW m \in Msgs, InlineMark(m) PROVE EntryOK(n)'
    <2>1. /\ pc \in BatchPcs /\ m \in batch
          /\ state' = WithStage(state, {m}, "hermes_may_start")
          /\ UNCHANGED <<seen, fed, started, result, phase>>
      BY <1>4 DEF InlineMark, Submitting, MarkMayStart, BatchPcs, history, workers
    <2>. QED
      BY <1>1, <2>1, BatchBefore, StageEntries
  <1>5. CASE InlineSave
    BY <1>1, <1>2, <1>5, PersistEffect, EntryStays DEF InlineSave, Kept, history, workers
  <1>6. CASE InlineAnswered
    <2>1. Kept(n) /\ UNCHANGED state.uncertain
      BY <1>1, <1>6 DEF InlineAnswered, Kept, TypeOK, DurableStates
    <2>. QED
      BY <1>2, <1>6, <2>1, EntryStays DEF InlineAnswered, workers
  <1>7. CASE InlinePublish
    <2>1. /\ pc \in BatchTargetPcs
          /\ state' = RemoveInFlight(state, {target})
          /\ seen' = PersistedSeen(state, seen) \cup {target}
          /\ UNCHANGED <<fed, started, result, phase>>
      BY <1>7 DEF InlinePublish, BatchTargetPcs, history, workers
    <2>2. seen \subseteq seen' \cup state.uncertain
      BY <1>1, <2>1, PersistedSeenFacts DEF TypeOK
    <2>3. Left(target) /\ (\A k \in Msgs \ {target} : Kept(k)) /\ UNCHANGED state.uncertain
      <3>1. state \in DurableStates /\ {target} \in SUBSET Msgs
        BY <1>1, <1>3, <2>1 DEF TypeOK
      <3>. QED
        BY <1>3, <2>1, <3>1, RemoveInFlightFacts DEF Left, Kept
    <2>. QED
      BY <1>1, <1>3, <2>1, <2>2, <2>3, TargetLeaves
  <1>8. CASE InlineFails
    <2>1. pc \in BatchTargetPcs /\ UNCHANGED <<fed, workers>>
      BY <1>8 DEF InlineFails, BatchTargetPcs
    <2>2. CASE RetryLater(target)
      BY <1>1, <1>3, <2>1, <2>2, RetryLaterEntries
    <2>3. CASE state' = Terminalize(state, {target}) /\ seen' = seen \cup {target}
      <3>1. Left(target) /\ (\A k \in Msgs \ {target} : Kept(k)) /\ UNCHANGED state.uncertain
        BY <1>1, <1>3, <2>1, <2>3, TargetTerminal DEF Left, Kept
      <3>. QED
        BY <1>1, <1>3, <2>1, <2>3, <3>1, TargetLeaves DEF workers
    <2>. QED
      BY <1>8, <2>2, <2>3 DEF InlineFails
  <1>9. CASE InlineFull
    BY <1>2, <1>9 DEF InlineFull, EntryOK, Known, durables, history, workers
  <1>. QED
    BY <1>4, <1>5, <1>6, <1>7, <1>8, <1>9 DEF InlineNext

\* The entries after a step of a worker.
LEMMA WorkerEntries ==
    ASSUME IInv, NEW m \in Msgs, WorkerNext(m), NEW n \in Msgs
    PROVE  EntryOK(n)'
  <1>1. TypeOK /\ pc # "down"
    BY DEF IInv, WorkerNext, Begin, PreFails, LocalAnswer, Mark, MarkSave, Register,
       StartFails, StartHermes, HermesEnds, AnswerBlocked, PostAnswer, Publish,
       PublishSave, ErrorNotice, ErrorSave, Working, Up
  <1>2. /\ EntryOK(n)
        /\ phase[n] \in BeforeHermes \cup {"idle"} => ~ started[n]
        /\ phase[n] # "done" => result[n] = "none"
    BY <1>1, EntryBefore
  <1>3. phase \in [Msgs -> Phases] /\ result \in [Msgs -> Results] /\ started \in [Msgs -> BOOLEAN]
    BY <1>1 DEF TypeOK
  <1>4. CASE \/ Begin(m) \/ PreFails(m) \/ LocalAnswer(m) \/ Register(m) \/ StartFails(m)
             \/ HermesEnds(m) \/ AnswerBlocked(m) \/ PostAnswer(m)
    <2>1. /\ UNCHANGED <<state, seen, fed, started>>
          /\ phase[m] \notin {"idle", "done"}
          /\ \E where \in Phases : phase' = [phase EXCEPT ![m] = where]
          /\ phase'[m] \in {"markSave", "marked", "gate"} => phase[m] = "marked"
          /\ UNCHANGED result \/ \E o \in Results \ {"retire"} : result' = [result EXCEPT ![m] = o]
      BY <1>3, <1>4 DEF Begin, PreFails, LocalAnswer, Register, StartFails, HermesEnds,
         AnswerBlocked, PostAnswer, Working, Advance, End, Phases, Results, durables, history
    <2>3. CASE n = m
      BY <1>2, <1>3, <2>3, <2>1 DEF EntryOK, Known
    <2>4. CASE n # m
      BY <1>2, <1>3, <2>4, <2>1 DEF EntryOK, Known
    <2>. QED
      BY <2>3, <2>4
  <1>5. CASE Mark(m)
    <2>1. /\ state' = WithStage(state, {m}, "hermes_may_start")
          /\ phase[m] = "pre" /\ phase' = [phase EXCEPT ![m] = "markSave"]
          /\ UNCHANGED <<seen, fed, started, result>>
      BY <1>5 DEF Mark, MarkMayStart, Working, Advance, history
    <2>2. state.flight[m] # "none"
      BY <1>1, <2>1, EntryBefore DEF EntryOK
    <2>. QED
      BY <1>1, <1>3, <2>1, <2>2, StageEntries
  <1>6. CASE MarkSave(m) \/ PublishSave(m) \/ ErrorSave(m)
    <2>1. /\ phase[m] \notin {"idle", "done"}
          /\ \/ phase' = [phase EXCEPT ![m] = "marked"] /\ phase[m] = "markSave"
             \/ phase' = [phase EXCEPT ![m] = "done"]
          /\ UNCHANGED result \/ \E o \in Results \ {"retire"} : result' = [result EXCEPT ![m] = o]
          /\ UNCHANGED <<fed, started>>
      BY <1>3, <1>6 DEF MarkSave, PublishSave, ErrorSave, Working, Advance, End, Results, history
    <2>2. UNCHANGED state /\ seen \subseteq seen' \cup state.uncertain
      BY <1>1, <1>6, PersistEffect DEF MarkSave, PublishSave, ErrorSave
    <2>3. CASE n = m
      BY <1>2, <1>3, <2>3, <2>1, <2>2 DEF EntryOK, Known
    <2>4. CASE n # m
      BY <1>2, <1>3, <2>4, <2>1, <2>2 DEF EntryOK, Known
    <2>. QED
      BY <2>3, <2>4
  <1>7. CASE StartHermes(m)
    <2>1. /\ phase[m] = "gate"
          /\ phase' = [phase EXCEPT ![m] = "run"]
          /\ UNCHANGED <<state, seen, result>>
          /\ started'[m] = TRUE
          /\ \A k \in Msgs \ {m} : fed'[k] = fed[k] /\ started'[k] = started[k]
      BY <1>1, <1>7 DEF StartHermes, Working, Advance, Feed, durables, TypeOK
    <2>2. state.flight[m] = "hermes_may_start"
      BY <1>1, <2>1, EntryBefore DEF EntryOK
    <2>3. CASE n = m
      BY <1>2, <1>3, <2>1, <2>2, <2>3 DEF EntryOK, Known
    <2>4. CASE n # m
      BY <1>2, <1>3, <2>1, <2>4 DEF EntryOK, Known
    <2>. QED
      BY <2>3, <2>4
  <1>8. CASE Publish(m) \/ ErrorNotice(m)
    <2>1. /\ UNCHANGED <<seen, fed, started>>
          /\ phase[m] \in {"publish", "error"}
          /\ \E where \in {"publishSave", "errorSave", "done"} : phase' = [phase EXCEPT ![m] = where]
          /\ UNCHANGED result \/ \E o \in Results \ {"retire"} : result' = [result EXCEPT ![m] = o]
      BY <1>3, <1>8 DEF Publish, ErrorNotice, Working, Advance, End, Results, history
    <2>2. Kept(n) /\ UNCHANGED state.uncertain
      BY <1>1, <1>8 DEF Publish, ErrorNotice, Kept, TypeOK, DurableStates
    <2>3. CASE n = m
      BY <1>2, <1>3, <2>3, <2>1, <2>2 DEF EntryOK, Kept, Known
    <2>4. CASE n # m
      BY <1>2, <1>3, <2>4, <2>1, <2>2 DEF EntryOK, Kept, Known
    <2>. QED
      BY <2>3, <2>4
  <1>. QED
    BY <1>4, <1>5, <1>6, <1>7, <1>8 DEF WorkerNext

\* A restart empties the in-flight table, keeps what is uncertain, and takes none
\* of the origins it must not run again for new.
LEMMA RestartEffect ==
    ASSUME IInv, Restart, NEW n \in Msgs
    PROVE  /\ state'.flight[n] = "none"
           /\ state'.uncertain = disk.st.uncertain
           /\ Known(disk.st, disk.seen, n) => Known(state', seen', n)
           /\ phase'[n] = "idle"
  <1>. DEFINE loaded == LoadedState
              old == disk.st.retries \cap (LoadedSeen \cup disk.st.uncertain)
              lostTurns == MayStart(loaded) \ loaded.jobs
              answered == MayStart(loaded) \cap loaded.jobs
              t == Terminalize(loaded, lostTurns)
              u == RemoveInFlight(t, answered)
              recovered == ReturnAdmittedToRetry(u, Msgs)
  <1>1. /\ disk.st \in DurableStates /\ disk.seen \in SUBSET Msgs
        /\ \A k \in Msgs : phase[k] = "idle"
    BY DEF IInv, TypeOK, NothingRunsYet, Restart
  <1>2. old \in SUBSET Msgs
    BY <1>1 DEF DurableStates
  <1>3. /\ loaded \in DurableStates
        /\ loaded.flight = disk.st.flight
        /\ loaded.uncertain = disk.st.uncertain
    BY <1>1, <1>2, RemoveRetryFacts DEF LoadedState
  <1>. HIDE DEF loaded, old
  <1>4. lostTurns \in SUBSET Msgs /\ answered \in SUBSET Msgs
    BY DEF MayStart
  <1>5. /\ t \in DurableStates
        /\ \A k \in Msgs : t.flight[k] = IF k \in lostTurns THEN "none" ELSE loaded.flight[k]
        /\ t.uncertain = loaded.uncertain
    BY <1>3, <1>4, TerminalizeFacts
  <1>. HIDE DEF t
  <1>6. /\ u \in DurableStates
        /\ \A k \in Msgs : u.flight[k] = IF k \in answered THEN "none" ELSE t.flight[k]
        /\ u.uncertain = t.uncertain
    BY <1>4, <1>5, RemoveInFlightFacts
  <1>. HIDE DEF u
  <1>7. /\ recovered \in DurableStates
        /\ \A k \in Msgs : recovered.flight[k] = IF k \in Msgs /\ u.flight[k] = "admitted"
                                                 THEN "none" ELSE u.flight[k]
        /\ recovered.uncertain = u.uncertain
    BY <1>6, ReturnAdmittedFacts
  <1>. HIDE DEF recovered
  <1>8. RecoverInFlight(loaded) = recovered
    BY DEF RecoverInFlight, recovered, u, t
  <1>9. /\ \E J : state' = [recovered EXCEPT !.jobs = @ \ J, !.lost = @ \cup J]
        /\ seen' = LoadedSeen \cup MayStart(loaded)
        /\ UNCHANGED phase
    BY <1>8 DEF Restart, loaded, workers
  <1>10. /\ state'.flight = recovered.flight
         /\ state'.uncertain = recovered.uncertain
    BY <1>7, <1>9 DEF DurableStates
  <1>11. state'.flight[n] = "none"
    <2>1. loaded.flight[n] \in {"none", "admitted", "hermes_may_start"}
      BY <1>3 DEF DurableStates, Stages
    <2>2. loaded.flight[n] = "hermes_may_start" => n \in lostTurns \cup answered
      BY DEF MayStart
    <2>. QED
      BY <1>5, <1>6, <1>7, <1>10, <2>1, <2>2
  <1>12. state'.uncertain = disk.st.uncertain
    BY <1>3, <1>5, <1>6, <1>7, <1>10
  <1>13. Known(disk.st, disk.seen, n) => Known(state', seen', n)
    BY <1>3, <1>9, <1>12 DEF Known, MayStart, LoadedSeen
  <1>. QED
    BY <1>1, <1>9, <1>11, <1>12, <1>13

\* The entries after the restart, computed from the file.
LEMMA RestartEntries ==
    ASSUME IInv, Restart, NEW n \in Msgs
    PROVE  EntryOK(n)'
  <1>1. fed[n] > 0 => Known(disk.st, disk.seen, n)
    BY DEF IInv, FedIsKnown
  <1>2. UNCHANGED fed
    BY DEF Restart, history
  <1>. QED
    BY <1>1, <1>2, RestartEffect DEF EntryOK

\* The entries after any step that leaves the process up.
LEMMA EntryStep ==
    ASSUME IInv, ReliableAdmission, Next, NEW n \in Msgs, pc' # "down"
    PROVE  EntryOK(n)'
  <1>1. CASE ProcessNext
    <2>1. CASE Restart
      BY <2>1, RestartEntries
    <2>2. CASE BootSave
      <3>1. TypeOK /\ pc # "down"
        BY <2>2 DEF BootSave, IInv
      <3>. QED
        BY <2>2, <3>1, EntryBefore, PersistEffect, EntryStays DEF BootSave, Kept, history, workers
    <2>3. CASE RequestShutdown
      BY <2>3, EntryBefore
      DEF RequestShutdown, EntryOK, Known, durables, history, workers, LoopPcs
    <2>. QED
      BY <1>1, <2>1, <2>2, <2>3 DEF ProcessNext, BootSaveFails, Crash, Halt, LoseMemory
  <1>. QED
    BY <1>1, FinishEntries, LoopEntries, SubmitEntries, SteerEntries, InlineEntries,
       WorkerEntries DEF Next, MainNext

\* What leads to a rollback does not happen.
LEMMA PersistFaults ==
    ASSUME ReliableAdmission
    PROVE  ~ PersistFails("fetch") /\ ~ PersistFails("admit")
  BY DEF ReliableAdmission, PersistFails

\* A step of the main thread stays in the loop, or leaves it by the shutdown.
LEMMA MainPcs ==
    ASSUME IInv, ReliableAdmission, MainNext
    PROVE  pc' \notin {"down", "boot", "undo"}
  <1>1. round \in {"queue", "page", "shutdown"}
    BY DEF IInv, TypeOK
  <1>2. pc # "undo"
    BY DEF IInv
  <1>3. CASE FinishNext
    BY <1>1, <1>3 DEF FinishNext, FinishOk, FinishRetry, FinishFail, FinishRejected,
       PostCommitProof, PostCommitRetire, FinishFatal, RejectedSave, FinishRejectedProof,
       FinishSave, FinishDone, Finishing, NoRoomForTurn, Goto, Fatal, NextIteration
  <1>4. CASE LoopNext
    BY <1>2, <1>4, PersistFaults DEF LoopNext, ReconcileDone, ReconcileTerminal, ReconcileSave, ReconcileEnd,
       LoopSave, Fetch, FetchDue, FetchSave, Undo, NothingToAdmit, Admit, AdmitCandidates,
       AdmitSave, Goto, Fatal, NextIteration, EndOfBatch, mains
  <1>5. CASE SubmitNext
    BY <1>5 DEF SubmitNext, SubmitWorker, SubmitFails, SteerDeferred, SteerMark,
       SubmitBroken, SubmitSave, SubmitEnd, Submitting, RetryLater, Defer, ThenSave,
       EndOfBatch, Goto, Fatal, NextIteration
  <1>6. CASE SteerNext
    BY <1>6 DEF SteerNext, SteerSave, AbandonSave, SteerUnmark, SteerUndoSave,
       SteerRefused, SteerAppendFails, SteerDelivered, SteerUncertain, RetireSave,
       RetireRetry, RetryLater, Defer, ThenSave, Goto, Fatal, NextIteration, mains
  <1>7. CASE InlineNext
    BY <1>7 DEF InlineNext, InlineMark, InlineSave, InlineAnswered, InlinePublish,
       InlineFails, InlineFull, RetryLater, ThenSave, Goto, Fatal, NextIteration
  <1>. QED
    BY <1>3, <1>4, <1>5, <1>6, <1>7 DEF MainNext

\* A step of a worker leaves the main thread where it is.
LEMMA WorkerPcs ==
    ASSUME NEW m \in Msgs, WorkerNext(m)
    PROVE  pc \notin {"down", "boot"} /\ UNCHANGED mains
  BY DEF WorkerNext, Begin, PreFails, LocalAnswer, Mark, MarkSave, Register,
     StartFails, StartHermes, HermesEnds, AnswerBlocked, PostAnswer, Publish,
     PublishSave, ErrorNotice, ErrorSave, Working, Up, mains

\* The process goes down without its memory.
LEMMA DownStep ==
    ASSUME IInv, ReliableAdmission, Next, pc' = "down"
    PROVE  /\ state' = EmptyState
           /\ \A n \in Msgs : /\ phase'[n] = "idle" /\ result'[n] = "none"
                              /\ started'[n] = FALSE /\ steerOf'[n] = NoMsg
  <1>1. CASE LoseMemory
    BY <1>1 DEF LoseMemory
  <1>2. CASE ProcessNext
    BY <1>1, <1>2 DEF ProcessNext, Restart, BootSave, BootSaveFails, Crash,
       RequestShutdown, Halt, Goto
  <1>3. ASSUME NEW m \in Msgs, WorkerNext(m) PROVE FALSE
    BY <1>3, WorkerPcs DEF mains
  <1>. QED
    BY <1>2, <1>3, MainPcs DEF Next

\* The file changes only by a save of what is in memory.
LEMMA DiskStep ==
    ASSUME Next
    PROVE  UNCHANGED disk \/ (pc # "down" /\ disk' = Image(state, seen))
  <1>. DEFINE Goal == UNCHANGED disk \/ (pc # "down" /\ disk' = Image(state, seen))
  <1>1. CASE ProcessNext
    BY <1>1 DEF ProcessNext, Restart, BootSave, BootSaveFails, Crash, RequestShutdown,
       Halt, PersistOk, durables
  <1>2. CASE FinishNext
    BY <1>2 DEF FinishNext, FinishOk, FinishRetry, FinishFail, FinishRejected,
       PostCommitProof, PostCommitRetire, FinishFatal, RejectedSave, FinishRejectedProof,
       FinishSave, FinishDone, Finishing, PersistOk, PersistFails, durables
  <1>3. CASE LoopNext
    BY <1>3 DEF LoopNext, ReconcileDone, ReconcileTerminal, ReconcileSave, ReconcileEnd,
       LoopSave, Fetch, FetchSave, Undo, NothingToAdmit, Admit, AdmitSave, PersistOk,
       PersistFails, durables
  <1>4. CASE SubmitNext
    BY <1>4 DEF SubmitNext, SubmitWorker, SubmitFails, SteerDeferred, SteerMark,
       SubmitBroken, SubmitSave, SubmitEnd, PersistOk, PersistFails, durables
  <1>5. CASE SteerNext
    BY <1>5 DEF SteerNext, SteerSave, AbandonSave, SteerUnmark, SteerUndoSave,
       SteerRefused, SteerAppendFails, SteerDelivered, SteerUncertain, RetireSave,
       RetireRetry, PersistOk, PersistFails, durables
  <1>6. CASE InlineNext
    BY <1>6 DEF InlineNext, InlineMark, InlineSave, InlineAnswered, InlinePublish,
       InlineFails, InlineFull, PersistOk, PersistFails, durables
  <1>7. ASSUME NEW m \in Msgs, WorkerNext(m) PROVE Goal
    BY <1>7 DEF WorkerNext, Begin, PreFails, LocalAnswer, Mark, MarkSave, Register,
       StartFails, StartHermes, HermesEnds, AnswerBlocked, PostAnswer, Publish,
       PublishSave, ErrorNotice, ErrorSave, Working, Up, PersistOk, PersistFails, durables
  <1>. QED
    BY <1>1, <1>2, <1>3, <1>4, <1>5, <1>6, <1>7 DEF Next, MainNext

\* A known origin stays known in the file.
LEMMA DiskKnows ==
    ASSUME IInv, Next, NEW n \in Msgs, Known(disk.st, disk.seen, n),
           pc # "down" => Known(state, seen, n)
    PROVE  Known(disk'.st, disk'.seen, n)
  <1>1. CASE UNCHANGED disk
    BY <1>1
  <1>2. CASE pc # "down" /\ disk' = Image(state, seen)
    <2>1. /\ disk'.st = state
          /\ seen \subseteq disk'.seen \cup state.uncertain
      BY <1>2, PersistedSeenFacts DEF IInv, TypeOK
    <2>. QED
      BY <1>2, <2>1 DEF Known
  <1>. QED
    BY <1>1, <1>2, DiskStep

\* The queues stay disjoint.
LEMMA DisjointStep ==
    ASSUME IInv, ReliableAdmission, Next, TypeOK'
    PROVE  QueuesDisjoint'
  <1>1. state'.retries \cap InFlight(state') = {}
    <2>1. CASE pc' = "down"
      <3>1. state' = EmptyState
        BY <2>1, DownStep
      <3>. QED
        BY <3>1 DEF EmptyState, InFlight, IInv, QueuesDisjoint
    <2>2. CASE pc' # "down"
      <3>1. \A n \in Msgs : n \in state'.retries => state'.flight[n] = "none"
        BY <2>2, EntryStep DEF EntryOK
      <3>. QED
        BY <3>1 DEF InFlight
    <2>. QED
      BY <2>1, <2>2
  <1>2. disk'.st.retries \cap InFlight(disk'.st) = {}
    <2>1. disk'.st = disk.st \/ disk'.st = state
      BY DiskStep DEF Image
    <2>. QED
      BY <2>1 DEF IInv, QueuesDisjoint
  <1>. QED
    BY <1>1, <1>2 DEF QueuesDisjoint

\* An origin that was fed stays known.
LEMMA KnownStep ==
    ASSUME IInv, ReliableAdmission, Next
    PROVE  FedIsKnown'
  <1>. SUFFICES ASSUME NEW n \in Msgs, fed'[n] > 0
                PROVE  /\ Known(disk'.st, disk'.seen, n)
                       /\ pc' # "down" => Known(state', seen', n)
    BY DEF FedIsKnown, Known
  <1>1. pc' # "down" => Known(state', seen', n)
    BY EntryStep DEF EntryOK, Known
  <1>2. CASE fed'[n] = fed[n]
    BY <1>1, <1>2, DiskKnows DEF IInv, FedIsKnown
  <1>3. CASE fed'[n] # fed[n]
    BY <1>1, <1>3, FedStep, DiskKnows DEF Known
  <1>. QED
    BY <1>2, <1>3

\* No origin is fed twice.
LEMMA OnceStep ==
    ASSUME IInv, Next
    PROVE  HermesAtMostOnce'
  <1>. SUFFICES ASSUME NEW n \in Msgs PROVE fed'[n] <= 1
    BY DEF HermesAtMostOnce
  <1>. QED
    BY FedStep DEF IInv, HermesAtMostOnce

\* The steering of a turn has been fed, and has no worker of its own.
LEMMA SteeringStep ==
    ASSUME IInv, Next
    PROVE  SteeringIsFed'
  <1>. SUFFICES ASSUME NEW n \in Msgs, steerOf'[n] # NoMsg
                PROVE  fed'[n] > 0 /\ phase'[n] = "idle"
    BY DEF SteeringIsFed, Pending
  <1>1. /\ phase \in [Msgs -> Phases]
        /\ steerOf \in [Msgs -> Msgs \cup {NoMsg}]
        /\ fed \in [Msgs -> 0 .. 2]
        /\ steerOf[n] # NoMsg => fed[n] > 0 /\ phase[n] = "idle"
        /\ NoMsg \notin Msgs
    BY MsgsAssumption DEF IInv, TypeOK, SteeringIsFed, Pending
  <1>2. CASE ProcessNext
    BY <1>1, <1>2 DEF ProcessNext, Restart, BootSave, BootSaveFails, Crash,
       RequestShutdown, Halt, LoseMemory, workers, history
  <1>3. CASE FinishNext
    BY <1>1, <1>3 DEF FinishNext, FinishOk, FinishRetry, FinishFail, FinishRejected,
       PostCommitProof, PostCommitRetire, FinishFatal, RejectedSave, FinishRejectedProof,
       FinishSave, FinishDone, TerminateTurn, NoRoomForTurn, Retire, workers, history
  <1>4. CASE LoopNext
    BY <1>1, <1>4 DEF LoopNext, ReconcileDone, ReconcileTerminal, ReconcileSave,
       ReconcileEnd, LoopSave, Fetch, FetchSave, Undo, NothingToAdmit, Admit, AdmitSave,
       workers, history
  <1>5. CASE SubmitNext
    <2>1. ASSUME NEW m \in Msgs, SubmitWorker(m) PROVE fed'[n] > 0 /\ phase'[n] = "idle"
      <3>1. pc \in BatchPcs /\ m \in batch
        BY <2>1 DEF SubmitWorker, Submitting, BatchPcs
      <3>2. fed[m] = 0
        BY <3>1 DEF IInv, BatchIsFresh
      <3>. QED
        BY <1>1, <2>1, <3>2 DEF SubmitWorker, history
    <2>. QED
      BY <1>1, <1>5, <2>1 DEF SubmitNext, SubmitFails, SteerDeferred, SteerMark,
         SubmitBroken, SubmitSave, SubmitEnd, workers, history
  <1>6. CASE SteerNext
    <2>1. CASE SteerAppendFails \/ SteerDelivered \/ SteerUncertain
      <3>1. target \in Msgs /\ phase[target] = "idle" /\ fed[target] = 0
        BY <2>1, SteeredIsFresh DEF SteerAppendFails, SteerDelivered, SteerUncertain, Pending
      <3>2. CASE SteerDelivered
        BY <1>1, <3>1, <3>2 DEF SteerDelivered, Feed
      <3>. QED
        BY <1>1, <2>1, <3>1, <3>2 DEF SteerAppendFails, SteerUncertain, Feed, workers
    <2>. QED
      BY <1>1, <1>6, <2>1 DEF SteerNext, SteerSave, AbandonSave, SteerUnmark, SteerUndoSave,
         SteerRefused, RetireSave, RetireRetry, history, workers
  <1>7. CASE InlineNext
    BY <1>1, <1>7 DEF InlineNext, InlineMark, InlineSave, InlineAnswered, InlinePublish,
       InlineFails, InlineFull, history, workers
  <1>8. ASSUME NEW m \in Msgs, WorkerNext(m) PROVE fed'[n] > 0 /\ phase'[n] = "idle"
    <2>1. /\ UNCHANGED steerOf /\ phase[m] # "idle"
          /\ \E where \in Phases : phase' = [phase EXCEPT ![m] = where]
          /\ UNCHANGED fed \/ Feed(m)
      BY <1>8 DEF WorkerNext, Begin, PreFails, LocalAnswer, Mark, MarkSave, Register,
         StartFails, StartHermes, HermesEnds, AnswerBlocked, PostAnswer, Publish,
         PublishSave, ErrorNotice, ErrorSave, Working, Advance, End, Phases, history, workers
    <2>. QED
      BY <1>1, <2>1 DEF Feed
  <1>. QED
    BY <1>2, <1>3, <1>4, <1>5, <1>6, <1>7, <1>8 DEF Next, MainNext

\* Nothing runs before the first save of an execution.
LEMMA IdleStep ==
    ASSUME IInv, ReliableAdmission, Next
    PROVE  NothingRunsYet'
  <1>. SUFFICES ASSUME NEW n \in Msgs, pc' \in {"down", "boot"}
                PROVE  phase'[n] = "idle" /\ steerOf'[n] = NoMsg
    BY DEF NothingRunsYet
  <1>1. CASE pc' = "down"
    BY <1>1, DownStep
  <1>2. CASE pc' = "boot"
    <2>1. CASE ProcessNext
      <3>1. pc = "down" /\ UNCHANGED workers
        BY <1>2, <2>1 DEF ProcessNext, Restart, BootSave, BootSaveFails, Crash, LoseMemory,
           RequestShutdown, Halt, Goto
      <3>2. phase[n] = "idle" /\ steerOf[n] = NoMsg
        BY <3>1 DEF IInv, NothingRunsYet
      <3>. QED
        BY <3>1, <3>2 DEF workers
    <2>2. ASSUME NEW m \in Msgs, WorkerNext(m) PROVE FALSE
      BY <1>2, <2>2, WorkerPcs DEF mains
    <2>. QED
      BY <1>2, <2>1, <2>2, MainPcs DEF Next
  <1>. QED
    BY <1>1, <1>2

\* The worker of each origin goes through its phases in order.
WorkerOK(n) ==
    /\ phase[n] \in BeforeHermes \cup {"idle"} => ~ started[n]
    /\ phase[n] # "done" => result[n] = "none"
    /\ result[n] = "retry" => ~ started[n]
    /\ phase[n] # "idle" /\ ~ started[n] => fed[n] = 0

\* It is registered only after its mark was saved.
LEMMA WorkerPhase ==
    ASSUME IInv, NEW m \in Msgs, WorkerNext(m), NEW n \in Msgs
    PROVE  /\ WorkerOK(n)'
           /\ phase'[n] \in {"marked", "gate"}
                => \/ phase[n] \in {"marked", "gate"}
                   \/ phase[n] = "markSave" /\ disk' = Image(state, seen)
  <1>1. /\ phase \in [Msgs -> Phases] /\ result \in [Msgs -> Results]
        /\ started \in [Msgs -> BOOLEAN] /\ fed \in [Msgs -> 0 .. 2]
        /\ \A k \in Msgs : WorkerOK(k)
    BY DEF IInv, TypeOK, WorkersAreStaged, WorkerOK
  <1>2. \A k \in Msgs \ {m} : /\ phase'[k] = phase[k] /\ result'[k] = result[k]
                              /\ started'[k] = started[k] /\ fed'[k] = fed[k]
    BY <1>1 DEF WorkerNext, Begin, PreFails, LocalAnswer, Mark, MarkSave, Register,
       StartFails, StartHermes, HermesEnds, AnswerBlocked, PostAnswer, Publish,
       PublishSave, ErrorNotice, ErrorSave, Working, Advance, End, Feed, history, workers
  <1>3. CASE n = m
    BY <1>1, <1>3 DEF WorkerNext, Begin, PreFails, LocalAnswer, Mark, MarkSave, Register,
       StartFails, StartHermes, HermesEnds, AnswerBlocked, PostAnswer, Publish,
       PublishSave, ErrorNotice, ErrorSave, Working, Advance, End, Feed, history, workers,
       WorkerOK, BeforeHermes, PersistOk
  <1>4. CASE n # m
    BY <1>1, <1>2, <1>4 DEF WorkerOK
  <1>. QED
    BY <1>3, <1>4

\* The same for a step of the main thread or of the process.
LEMMA WorkerKept ==
    ASSUME IInv, MainNext \/ ProcessNext, NEW n \in Msgs
    PROVE  /\ WorkerOK(n)'
           /\ phase'[n] \in {"marked", "gate"} => phase[n] \in {"marked", "gate"}
  <1>1. /\ phase \in [Msgs -> Phases] /\ result \in [Msgs -> Results]
        /\ started \in [Msgs -> BOOLEAN] /\ fed \in [Msgs -> 0 .. 2]
        /\ WorkerOK(n)
    BY DEF IInv, TypeOK, WorkersAreStaged, WorkerOK
  <1>2. CASE ProcessNext
    BY <1>1, <1>2 DEF ProcessNext, Restart, BootSave, BootSaveFails, Crash,
       RequestShutdown, Halt, LoseMemory, workers, history, WorkerOK, BeforeHermes
  <1>3. CASE FinishNext
    <2>1. ASSUME NEW m \in Msgs, Retire(m), UNCHANGED fed
          PROVE  WorkerOK(n)' /\ phase'[n] \in {"idle", phase[n]}
      BY <1>1, <2>1 DEF Retire, WorkerOK, BeforeHermes
    <2>2. ASSUME NEW m \in Msgs, PostCommitProof(m)
          PROVE  WorkerOK(n)' /\ phase'[n] = phase[n]
      BY <1>1, <2>2 DEF PostCommitProof, Finishing, WorkerOK, history
    <2>3. \/ UNCHANGED <<workers, fed>>
          \/ \E m \in Msgs : \/ (Retire(m) \/ Retiring(m)) /\ UNCHANGED fed
                             \/ PostCommitProof(m)
      <3>1. CASE FinishRejectedProof
        BY <3>1, RejectedEffect DEF FinishRejectedProof, history, IInv, BatchIsFresh, workers
      <3>. QED
        BY <1>3, <3>1 DEF FinishNext, FinishOk, FinishRetry, FinishFail, FinishRejected,
           PostCommitRetire, FinishFatal, RejectedSave, FinishSave, FinishDone,
           NoRoomForTurn, workers, history
    <2>4. ASSUME NEW m \in Msgs, Retiring(m), UNCHANGED fed
          PROVE  WorkerOK(n)' /\ phase'[n] = phase[n]
      BY <1>1, <2>4 DEF Retiring, WorkerOK, BeforeHermes
    <2>. QED
      BY <1>1, <2>1, <2>2, <2>3, <2>4 DEF workers, WorkerOK
  <1>4. CASE LoopNext
    BY <1>1, <1>4 DEF LoopNext, ReconcileDone, ReconcileTerminal, ReconcileSave,
       ReconcileEnd, LoopSave, Fetch, FetchSave, Undo, NothingToAdmit, Admit, AdmitSave,
       workers, history, WorkerOK
  <1>5. CASE SubmitNext
    <2>1. ASSUME NEW m \in Msgs, SubmitWorker(m)
          PROVE  WorkerOK(n)' /\ (phase'[n] \in {"marked", "gate"} => phase[n] \in {"marked", "gate"})
      <3>1. pc \in BatchPcs /\ m \in batch
        BY <2>1 DEF SubmitWorker, Submitting, BatchPcs
      <3>2. fed[m] = 0 /\ phase[m] = "idle"
        BY <3>1 DEF IInv, BatchIsFresh, Pending
      <3>. QED
        BY <1>1, <2>1, <3>2 DEF SubmitWorker, history, WorkerOK, BeforeHermes
    <2>. QED
      BY <1>1, <1>5, <2>1 DEF SubmitNext, SubmitFails, SteerDeferred, SteerMark,
         SubmitBroken, SubmitSave, SubmitEnd, workers, history, WorkerOK
  <1>6. CASE SteerNext
    <2>1. CASE SteerAppendFails \/ SteerDelivered \/ SteerUncertain
      <3>1. target \in Msgs /\ phase[target] = "idle"
        BY <2>1, SteeredIsFresh DEF SteerAppendFails, SteerDelivered, SteerUncertain, Pending
      <3>2. UNCHANGED <<phase, result, started>> /\ (Feed(target) \/ UNCHANGED fed)
        BY <2>1 DEF SteerAppendFails, SteerDelivered, SteerUncertain, workers
      <3>. QED
        BY <1>1, <3>1, <3>2 DEF Feed, WorkerOK
    <2>. QED
      BY <1>1, <1>6, <2>1 DEF SteerNext, SteerSave, AbandonSave, SteerUnmark, SteerUndoSave,
         SteerRefused, RetireSave, RetireRetry, history, workers, WorkerOK
  <1>7. CASE InlineNext
    BY <1>1, <1>7 DEF InlineNext, InlineMark, InlineSave, InlineAnswered, InlinePublish,
       InlineFails, InlineFull, history, workers, WorkerOK
  <1>. QED
    BY <1>2, <1>3, <1>4, <1>5, <1>6, <1>7 DEF MainNext

\* The workers stay staged: what they do agrees with the state and the file.
LEMMA StagedStep ==
    ASSUME IInv, ReliableAdmission, Next
    PROVE  WorkersAreStaged'
  <1>. SUFFICES ASSUME NEW n \in Msgs
                PROVE  /\ WorkerOK(n)'
                       /\ phase'[n] \notin {"idle", "done"} => state'.flight[n] # "none"
                       /\ phase'[n] \in {"markSave", "marked", "gate"}
                            => state'.flight[n] = "hermes_may_start"
                       /\ phase'[n] # "idle" /\ started'[n] /\ result'[n] # "retire"
                            => state'.flight[n] = "hermes_may_start"
                       /\ phase'[n] \in {"marked", "gate"}
                            => disk'.st.flight[n] = "hermes_may_start"
    BY DEF WorkersAreStaged, WorkerOK, InFlight
  <1>1. /\ WorkerOK(n)'
        /\ phase'[n] \in {"marked", "gate"}
             => \/ phase[n] \in {"marked", "gate"}
                \/ phase[n] = "markSave" /\ disk' = Image(state, seen)
    BY WorkerPhase, WorkerKept DEF Next
  <1>2. CASE pc' = "down"
    BY <1>1, <1>2, DownStep
  <1>3. CASE pc' # "down"
    <2>1. EntryOK(n)'
      BY <1>3, EntryStep
    <2>2. ASSUME phase'[n] \in {"marked", "gate"}
          PROVE  disk'.st.flight[n] = "hermes_may_start"
      <3>1. /\ phase[n] \in {"markSave", "marked", "gate"}
            /\ state.flight[n] = "hermes_may_start"
            /\ phase[n] \in {"marked", "gate"} => disk.st.flight[n] = "hermes_may_start"
        BY <1>1, <2>2 DEF IInv, WorkersAreStaged
      <3>2. disk'.st = state \/ (disk'.st = disk.st /\ phase[n] # "markSave")
        BY <1>1, <2>2, DiskStep DEF Image
      <3>. QED
        BY <3>1, <3>2
    <2>. QED
      BY <1>1, <2>1, <2>2 DEF EntryOK
  <1>. QED
    BY <1>2, <1>3

\* The entries of the batch other than the target keep their entry.
BatchOK(n) ==
    /\ phase[n] = "idle"
    /\ fed[n] = 0
    /\ state.flight[n] # "none"

\* Where the batch is after a step of the loop that is not one of its steps.
LEMMA BatchElsewhere ==
    ASSUME IInv, ReliableAdmission, FinishNext \/ LoopNext, pc' \in BatchPcs
    PROVE  Admit \/ AdmitSave
  <1>1. round \in {"queue", "page", "shutdown"}
    BY DEF IInv, TypeOK
  <1>2. pc # "undo"
    BY DEF IInv
  <1>3. CASE FinishNext
    BY <1>1, <1>3 DEF FinishNext, FinishOk, FinishRetry, FinishFail, FinishRejected,
       PostCommitProof, PostCommitRetire, FinishFatal, RejectedSave, FinishRejectedProof,
       FinishSave, FinishDone, Finishing, NoRoomForTurn, Goto, Fatal, NextIteration, BatchPcs
  <1>4. CASE LoopNext
    BY <1>2, <1>4, PersistFaults DEF LoopNext, ReconcileDone, ReconcileTerminal,
       ReconcileSave, ReconcileEnd, LoopSave, Fetch, FetchDue, FetchSave, Undo,
       NothingToAdmit, Goto, Fatal, NextIteration, EndOfBatch, mains, BatchPcs
  <1>. QED
    BY <1>3, <1>4

\* What is admitted, saved or not, was never fed.
LEMMA BatchAdmit ==
    ASSUME IInv, ReliableAdmission, Admit \/ AdmitSave, pc' \in BatchPcs, NEW n \in batch'
    PROVE  n \in Msgs /\ BatchOK(n)'
  <1>1. TypeOK
    BY DEF IInv
  <1>2. CASE Admit
    <2>1. /\ pc = "admit" /\ pc' = "admitSave"
          /\ n \notin seen /\ n \notin Pending
          /\ n \notin InFlight(state) /\ n \notin state.uncertain
          /\ state'.flight[n] = "admitted"
      BY <1>1, <1>2, AdmitEffect DEF BatchPcs
    <2>2. UNCHANGED <<phase, fed>>
      BY <1>2 DEF Admit, workers, history
    <2>3. batch' \subseteq Msgs
      BY <1>1, <1>2, TypeStep DEF Next, MainNext, LoopNext, TypeOK
    <2>4. fed[n] = 0
      BY <2>1, <2>2, <2>3 DEF IInv, TypeOK, FedIsKnown, Known, InFlight
    <2>. QED
      BY <2>1, <2>2, <2>4, <2>3 DEF BatchOK, Pending
  <1>3. CASE AdmitSave
    <2>1. pc \in BatchPcs /\ n \in batch /\ UNCHANGED <<phase, fed, state>>
      BY <1>3, PersistFaults DEF AdmitSave, BatchPcs, workers, history, PersistOk
    <2>. QED
      BY <2>1, BatchBefore DEF BatchOK
  <1>. QED
    BY <1>2, <1>3

\* A batch whose origins have an entry and no worker.
Waits(n) == phase[n] = "idle" /\ state.flight[n] # "none"
BatchIsIdle == pc \in BatchPcs => \A n \in batch : Waits(n)

StillWaits(n) ==
    /\ phase'[n] = "idle" /\ fed'[n] = fed[n] /\ steerOf'[n] = steerOf[n]
    /\ state'.flight[n] # "none"
    /\ n \in state'.uncertain => n \in state.uncertain

\* Submitting a batch uses its origins one after the other.
LEMMA BatchSubmit ==
    ASSUME TypeOK, BatchIsIdle, SubmitNext, pc' \in BatchPcs, NEW n \in batch'
    PROVE  pc \in BatchPcs /\ n \in batch /\ StillWaits(n)
  <1>1. TypeOK /\ pc \in BatchPcs /\ batch' \subseteq batch
    BY DEF SubmitNext, SubmitWorker, SubmitFails, SteerDeferred, SteerMark,
       SubmitBroken, SubmitSave, SubmitEnd, Submitting, RetryLater, Defer, ThenSave,
       EndOfBatch, Goto, Fatal, NextIteration, BatchPcs
  <1>2. n \in Msgs /\ Waits(n)
    BY <1>1 DEF BatchIsIdle, Waits, TypeOK
  <1>3. ASSUME NEW m \in Msgs, SubmitWorker(m) PROVE StillWaits(n)
    BY <1>1, <1>2, <1>3 DEF SubmitWorker, StillWaits, Waits, durables, history, TypeOK
  <1>4. ASSUME NEW m \in Msgs, SubmitFails(m) \/ SteerDeferred(m) PROVE StillWaits(n)
    <2>1. (RetryLater(m) \/ Defer(m)) /\ UNCHANGED <<workers, history>>
      BY <1>4 DEF SubmitFails, SteerDeferred
    <2>2. n # m /\ ThenSave(m)
      BY <1>1, <2>1, RetryLaterEffect, DeferEffect DEF ThenSave, BatchPcs
    <2>3. Kept(n) /\ UNCHANGED state.uncertain
      BY <1>1, <1>2, <2>1, <2>2, RetryLaterEffect, DeferEffect DEF ThenSave, BatchPcs, Kept
    <2>. QED
      BY <1>2, <2>1, <2>3 DEF StillWaits, Waits, Kept, workers, history
  <1>5. ASSUME NEW m \in Msgs, SteerMark(m) PROVE StillWaits(n)
    <2>1. /\ state' = WithStage(state, {m}, "hermes_may_start")
          /\ UNCHANGED <<workers, history>>
      BY <1>1, <1>5 DEF SteerMark, MarkMayStart, Fatal, Goto, BatchPcs
    <2>2. /\ state \in DurableStates /\ {m} \in SUBSET Msgs
          /\ "hermes_may_start" \in Stages
      BY <1>1 DEF TypeOK, Stages
    <2>3. /\ state'.flight[n] \in {"hermes_may_start", state.flight[n]}
          /\ UNCHANGED state.uncertain
      BY <1>2, <2>1, <2>2, WithStageFacts
    <2>. QED
      BY <1>2, <2>1, <2>3 DEF StillWaits, Waits, workers, history
  <1>6. CASE SubmitBroken \/ SubmitSave \/ SubmitEnd
    BY <1>1, <1>2, <1>6, PersistEffect
    DEF SubmitBroken, SubmitSave, SubmitEnd, StillWaits, Waits, durables, workers, history
  <1>. QED
    BY <1>1, <1>3, <1>4, <1>5, <1>6 DEF SubmitNext

\* Feeding an origin to an active turn leaves the rest of the batch alone.
LEMMA BatchSteer ==
    ASSUME TypeOK, BatchIsIdle, SteerNext, pc' \in BatchPcs, NEW n \in batch'
    PROVE  pc \in BatchPcs /\ n \in batch /\ StillWaits(n)
  <1>1. TypeOK /\ pc \in BatchPcs /\ batch' \subseteq batch
    BY DEF SteerNext, SteerSave, AbandonSave, SteerUnmark, SteerUndoSave,
       SteerRefused, SteerAppendFails, SteerDelivered, SteerUncertain, RetireSave,
       RetireRetry, RetryLater, Defer, ThenSave, Goto, Fatal, NextIteration, mains, BatchPcs
  <1>2. /\ pc \in BatchPcs /\ n \in batch /\ n \in Msgs /\ Waits(n)
        /\ UNCHANGED phase
        /\ ~ SteerDelivered => UNCHANGED steerOf
    BY <1>1 DEF BatchIsIdle, Waits, TypeOK, SteerNext, SteerSave, AbandonSave, SteerUnmark,
       SteerUndoSave, SteerRefused, SteerAppendFails, SteerDelivered, SteerUncertain,
       RetireSave, RetireRetry, workers
  <1>3. pc \in TargetPcs => target \in Msgs
    BY <1>1 DEF TypeOK
  <1>4. CASE SteerSave \/ SteerUndoSave \/ RetireSave \/ RetireRetry
    <2>1. UNCHANGED <<state, history, workers>>
      BY <1>1, <1>4, PersistEffect
      DEF SteerSave, SteerUndoSave, RetireSave, RetireRetry, Goto, BatchPcs
    <2>. QED
      BY <1>2, <2>1 DEF StillWaits, Waits, history, workers
  <1>5. CASE AbandonSave
    BY <1>1, <1>5 DEF AbandonSave, BatchPcs
  <1>6. CASE SteerUnmark
    <2>1. /\ state' = WithStage(state, {target}, "admitted") /\ UNCHANGED <<history, workers>>
          /\ target \in Msgs
      BY <1>3, <1>6 DEF SteerUnmark, TargetPcs
    <2>2. state \in DurableStates /\ {target} \in SUBSET Msgs /\ "admitted" \in Stages
      BY <1>1, <2>1 DEF TypeOK, Stages
    <2>3. /\ state'.flight[n] \in {"admitted", state.flight[n]}
          /\ UNCHANGED state.uncertain
      BY <1>2, <2>1, <2>2, WithStageFacts
    <2>. QED
      BY <1>2, <2>1, <2>3 DEF StillWaits, Waits, history, workers
  <1>7. CASE SteerRefused
    <2>1. /\ RetryLater(target) \/ Defer(target)
          /\ target \in Msgs /\ UNCHANGED <<history, workers>>
      BY <1>3, <1>7 DEF SteerRefused, TargetPcs
    <2>2. n # target
      BY <1>1, <2>1, RetryLaterEffect, DeferEffect DEF ThenSave, BatchPcs
    <2>3. Kept(n) /\ UNCHANGED state.uncertain
      BY <1>1, <1>2, <2>1, <2>2, RetryLaterEffect, DeferEffect DEF ThenSave, BatchPcs, Kept
    <2>. QED
      BY <1>2, <2>1, <2>3 DEF StillWaits, Waits, Kept, history, workers
  <1>8. CASE SteerAppendFails \/ SteerDelivered \/ SteerUncertain
    <2>1. target \in Msgs /\ (Feed(target) \/ UNCHANGED fed) /\ n # target
      BY <1>1, <1>3, <1>8 DEF SteerAppendFails, SteerDelivered, SteerUncertain, TargetPcs,
         ThenSave, NextIteration, BatchPcs
    <2>2. \/ UNCHANGED state
          \/ state' = Terminalize(state, {target})
          \/ state' = [Terminalize(state, {target}) EXCEPT !.uncertain = @ \cup {target}]
      BY <1>8 DEF SteerAppendFails, SteerDelivered, SteerUncertain, durables
    <2>. DEFINE t == Terminalize(state, {target})
    <2>3. t \in DurableStates /\ t.flight[n] = state.flight[n] /\ t.uncertain = state.uncertain
      BY <1>1, <1>2, <2>1, TargetTerminal
    <2>4. UNCHANGED state \/ state' = t \/ state' = [t EXCEPT !.uncertain = @ \cup {target}]
      BY <2>2
    <2>. HIDE DEF t
    <2>5. /\ state'.flight[n] = state.flight[n]
          /\ n \in state'.uncertain => n \in state.uncertain
      BY <2>1, <2>3, <2>4 DEF DurableStates
    <2>6. fed'[n] = fed[n] /\ steerOf'[n] = steerOf[n]
      <3>1. UNCHANGED steerOf \/ \E p : steerOf' = [steerOf EXCEPT ![target] = p]
        BY <1>2 DEF SteerDelivered
      <3>. QED
        BY <1>1, <1>2, <2>1, <3>1 DEF Feed, TypeOK
    <2>. QED
      BY <1>2, <2>5, <2>6 DEF StillWaits, Waits
  <1>. QED
    BY <1>1, <1>4, <1>5, <1>6, <1>7, <1>8 DEF SteerNext

\* So does an inline answer.
LEMMA BatchInline ==
    ASSUME TypeOK, BatchIsIdle, InlineNext, pc' \in BatchPcs, NEW n \in batch'
    PROVE  pc \in BatchPcs /\ n \in batch /\ StillWaits(n)
  <1>1. TypeOK /\ pc \in BatchPcs /\ batch' \subseteq batch
    BY DEF InlineNext, InlineMark, InlineSave, InlineAnswered, InlinePublish,
       InlineFails, InlineFull, Submitting, RetryLater, ThenSave, Goto, Fatal,
       NextIteration, BatchPcs
  <1>2. /\ pc \in BatchPcs /\ n \in batch /\ n \in Msgs /\ Waits(n)
        /\ UNCHANGED <<phase, fed, steerOf>>
    BY <1>1 DEF BatchIsIdle, Waits, TypeOK, InlineNext, InlineMark, InlineSave, InlineAnswered,
       InlinePublish, InlineFails, InlineFull, workers, history
  <1>3. /\ pc \in TargetPcs => target \in Msgs
        /\ state \in DurableStates
    BY <1>1 DEF TypeOK
  <1>4. ASSUME NEW m \in Msgs, InlineMark(m) PROVE StillWaits(n)
    <2>1. /\ state' = WithStage(state, {m}, "hermes_may_start")
          /\ {m} \in SUBSET Msgs /\ "hermes_may_start" \in Stages
      BY <1>4 DEF InlineMark, MarkMayStart, Stages
    <2>2. /\ state'.flight[n] \in {"hermes_may_start", state.flight[n]}
          /\ UNCHANGED state.uncertain
      BY <1>2, <1>3, <2>1, WithStageFacts
    <2>. QED
      BY <1>2, <2>2 DEF StillWaits, Waits
  <1>5. CASE InlineSave \/ InlineFull
    BY <1>1, <1>2, <1>5, PersistEffect DEF InlineSave, InlineFull, StillWaits, Waits, durables
  <1>6. CASE InlineAnswered
    BY <1>2, <1>3, <1>6 DEF InlineAnswered, StillWaits, Waits, DurableStates
  <1>7. CASE InlinePublish
    <2>1. /\ target \in Msgs /\ n # target
          /\ state' = RemoveInFlight(state, {target})
      BY <1>3, <1>7 DEF InlinePublish, TargetPcs, ThenSave
    <2>2. state'.flight[n] = state.flight[n] /\ UNCHANGED state.uncertain
      BY <1>2, <1>3, <2>1, RemoveInFlightFacts
    <2>. QED
      BY <1>2, <2>2 DEF StillWaits, Waits
  <1>8. CASE InlineFails
    <2>1. target \in Msgs
      BY <1>3, <1>8 DEF InlineFails, TargetPcs
    <2>2. CASE RetryLater(target)
      <3>1. n # target
        BY <1>1, <2>1, <2>2, RetryLaterEffect DEF ThenSave, BatchPcs
      <3>2. Kept(n) /\ UNCHANGED state.uncertain
        BY <1>1, <1>2, <2>1, <2>2, <3>1, RetryLaterEffect DEF Kept
      <3>. QED
        BY <1>2, <3>2 DEF StillWaits, Waits, Kept
    <2>3. CASE state' = Terminalize(state, {target}) /\ ThenSave(target)
      <3>1. state'.flight[n] = state.flight[n] /\ UNCHANGED state.uncertain
        BY <1>1, <1>2, <2>1, <2>3, TargetTerminal DEF ThenSave
      <3>. QED
        BY <1>2, <3>1 DEF StillWaits, Waits
    <2>. QED
      BY <1>8, <2>2, <2>3 DEF InlineFails
  <1>. QED
    BY <1>1, <1>4, <1>5, <1>6, <1>7, <1>8 DEF InlineNext

\* A worker leaves the origins alone that are not submitted yet.
LEMMA BatchWorker ==
    ASSUME TypeOK, NEW m \in Msgs, WorkerNext(m), NEW n \in Msgs, phase[n] = "idle"
    PROVE  /\ phase'[n] = "idle" /\ fed'[n] = fed[n] /\ steerOf'[n] = steerOf[n]
           /\ state'.flight[n] = state.flight[n]
           /\ UNCHANGED state.uncertain
  <1>1. /\ phase \in [Msgs -> Phases] /\ fed \in [Msgs -> 0 .. 2]
        /\ state \in DurableStates
    BY DEF TypeOK
  <1>2. /\ phase[m] # "idle"
        /\ \E where \in Phases : phase' = [phase EXCEPT ![m] = where]
        /\ UNCHANGED steerOf
        /\ UNCHANGED fed \/ Feed(m)
        /\ \/ UNCHANGED state
           \/ state' = WithStage(state, {m}, "hermes_may_start")
           \/ state' = [state EXCEPT !.jobs = @ \cup {m}]
    BY DEF WorkerNext, Begin, PreFails, LocalAnswer, Mark, MarkSave, Register, StartFails,
       StartHermes, HermesEnds, AnswerBlocked, PostAnswer, Publish, PublishSave, ErrorNotice,
       ErrorSave, Working, Advance, End, Phases, MarkMayStart, history, durables,
       PersistOk, PersistFails
  <1>3. n # m
    BY <1>2
  <1>4. phase'[n] = "idle" /\ fed'[n] = fed[n]
    BY <1>1, <1>2, <1>3 DEF Feed
  <1>5. {m} \in SUBSET Msgs /\ "hermes_may_start" \in Stages
    BY DEF Stages
  <1>6. state' = WithStage(state, {m}, "hermes_may_start")
          => state'.flight[n] = state.flight[n] /\ UNCHANGED state.uncertain
    <2>. DEFINE w == WithStage(state, {m}, "hermes_may_start")
    <2>1. w.flight[n] = state.flight[n] /\ w.uncertain = state.uncertain
      BY <1>1, <1>3, <1>5, WithStageFacts
    <2>. HIDE DEF w
    <2>. QED
      BY <2>1 DEF w
  <1>7. state' = [state EXCEPT !.jobs = @ \cup {m}]
          => state'.flight[n] = state.flight[n] /\ UNCHANGED state.uncertain
    BY <1>1 DEF DurableStates
  <1>. QED
    BY <1>2, <1>4, <1>6, <1>7

\* The batch holds fresh origins after every step.
LEMMA BatchStep ==
    ASSUME IInv, ReliableAdmission, Next, pc' \in BatchPcs, NEW n \in batch'
    PROVE  n \in Msgs /\ BatchOK(n)'
  <1>0. TypeOK /\ BatchIsIdle
    BY BatchBefore DEF IInv, BatchIsIdle, Waits
  <1>1. CASE ProcessNext
    BY <1>1 DEF ProcessNext, Restart, BootSave, BootSaveFails, Crash, RequestShutdown, Halt,
       LoseMemory, Goto, BatchPcs
  <1>2. CASE FinishNext \/ LoopNext
    BY <1>2, BatchElsewhere, BatchAdmit
  <1>3. CASE SubmitNext \/ SteerNext \/ InlineNext
    <2>1. pc \in BatchPcs /\ n \in batch /\ StillWaits(n)
      BY <1>0, <1>3, BatchSubmit, BatchSteer, BatchInline
    <2>. QED
      BY <2>1, BatchBefore DEF BatchOK, StillWaits
  <1>6. ASSUME NEW m \in Msgs, WorkerNext(m) PROVE n \in Msgs /\ BatchOK(n)'
    <2>1. pc \in BatchPcs /\ n \in batch
      BY <1>6, WorkerPcs DEF mains
    <2>. QED
      BY <1>0, <1>6, <2>1, BatchBefore, BatchWorker DEF BatchOK
  <1>. QED
    BY <1>1, <1>2, <1>3, <1>6 DEF Next, MainNext

\* The target of a step that feeds or answers it is an origin of the batch, and
\* has the mark from its save on.
TargetOK ==
    /\ pc \in BatchTargetPcs => target \in batch
    /\ pc \in {"steerSave", "steer"} => state.flight[target] = "hermes_may_start"
    /\ pc = "steer" => disk.st.flight[target] = "hermes_may_start"
    /\ pc \in {"rejectSave", "rejected", "retireTurn"} => phase[target] = "done"

\* TargetOK after a step of the main thread or of the process.
LEMMA TargetMain ==
    ASSUME IInv, ReliableAdmission, MainNext \/ ProcessNext
    PROVE  TargetOK'
  <1>1. /\ TypeOK /\ TargetOK /\ pc # "undo"
        /\ round \in {"queue", "page", "shutdown"}
    BY DEF IInv, TypeOK, BatchIsFresh, TargetOK
  <1>2. CASE ProcessNext
    BY <1>2 DEF ProcessNext, Restart, BootSave, BootSaveFails, Crash, RequestShutdown, Halt,
       LoseMemory, Goto, TargetOK, BatchTargetPcs
  <1>3. CASE FinishNext
    <2>1. ASSUME NEW m \in Msgs, FinishRejected(m) \/ PostCommitProof(m) PROVE TargetOK'
      BY <2>1 DEF FinishRejected, PostCommitProof, Finishing, Fatal, Goto, NextIteration,
         TargetOK, BatchTargetPcs, workers
    <2>2. CASE RejectedSave
      BY <1>1, <2>2 DEF RejectedSave, Goto, NextIteration, TargetOK, BatchTargetPcs, workers
    <2>. QED
      BY <1>1, <1>3, <2>1, <2>2 DEF FinishNext, FinishOk, FinishRetry, FinishFail,
         PostCommitRetire, FinishFatal, FinishRejectedProof, FinishSave, FinishDone,
         TerminateTurn, NoRoomForTurn, Goto, Fatal, NextIteration, TargetOK, BatchTargetPcs
  <1>4. CASE LoopNext
    BY <1>1, <1>4, PersistFaults DEF LoopNext, ReconcileDone, ReconcileTerminal,
       ReconcileSave, ReconcileEnd, LoopSave, Fetch, FetchDue, FetchSave, Undo,
       NothingToAdmit, Admit, AdmitCandidates, AdmitSave, Goto, Fatal, NextIteration,
       EndOfBatch, mains, TargetOK, BatchTargetPcs
  <1>5. CASE SubmitNext
    <2>1. ASSUME NEW m \in Msgs, SteerMark(m) PROVE TargetOK'
      <3>1. state \in DurableStates /\ {m} \in SUBSET Msgs /\ "hermes_may_start" \in Stages
        BY <1>1 DEF TypeOK, Stages
      <3>2. WithStage(state, {m}, "hermes_may_start").flight[m] = "hermes_may_start"
        BY <3>1, WithStageFacts
      <3>. QED
        BY <2>1, <3>2 DEF SteerMark, Submitting, MarkMayStart, Fatal, Goto, TargetOK,
           BatchTargetPcs
    <2>. QED
      BY <1>1, <1>5, <2>1 DEF SubmitNext, SubmitWorker, SubmitFails, SteerDeferred,
         SubmitBroken, SubmitSave, SubmitEnd, Submitting, RetryLater, Defer, ThenSave,
         EndOfBatch, Goto, Fatal, NextIteration, TargetOK, BatchTargetPcs
  <1>6. CASE SteerNext
    <2>1. CASE SteerSave
      <3>1. CASE PersistOk /\ Goto("steer")
        BY <1>1, <2>1, <3>1, PersistEffect DEF SteerSave, Goto, Saved, TargetOK, BatchTargetPcs
      <3>2. CASE Goto("abandonSave")
        BY <3>2 DEF Goto, TargetOK, BatchTargetPcs
      <3>. QED
        BY <2>1, <3>1, <3>2 DEF SteerSave
    <2>. QED
      BY <1>1, <1>6, <2>1 DEF SteerNext, AbandonSave, SteerUnmark, SteerUndoSave,
         SteerRefused, SteerAppendFails, SteerDelivered, SteerUncertain, RetireSave,
         RetireRetry, RetryLater, Defer, ThenSave, Goto, Fatal, NextIteration, mains,
         TargetOK, BatchTargetPcs
  <1>7. CASE InlineNext
    BY <1>1, <1>7 DEF InlineNext, InlineMark, InlineSave, InlineAnswered, InlinePublish,
       InlineFails, InlineFull, Submitting, RetryLater, ThenSave, Goto, Fatal, NextIteration,
       TargetOK, BatchTargetPcs
  <1>. QED
    BY <1>2, <1>3, <1>4, <1>5, <1>6, <1>7 DEF MainNext

\* TargetOK after a step of a worker.
LEMMA TargetWorker ==
    ASSUME IInv, NEW m \in Msgs, WorkerNext(m)
    PROVE  TargetOK'
  <1>1. TypeOK /\ TargetOK /\ Next /\ UNCHANGED mains
    BY WorkerPcs DEF IInv, BatchIsFresh, TargetOK, Next
  <1>2. pc \in {"rejectSave", "rejected", "retireTurn"} => phase'[target] = "done"
    <2>1. /\ phase[m] # "done"
          /\ \E where \in Phases : phase' = [phase EXCEPT ![m] = where]
      BY DEF WorkerNext, Begin, PreFails, LocalAnswer, Mark, MarkSave, Register, StartFails,
         StartHermes, HermesEnds, AnswerBlocked, PostAnswer, Publish, PublishSave, ErrorNotice,
         ErrorSave, Working, Advance, End, Phases
    <2>2. pc \in {"rejectSave", "rejected", "retireTurn"} => target \in Msgs /\ phase[target] = "done"
      BY <1>1 DEF TypeOK, TargetPcs, TargetOK
    <2>. QED
      BY <1>1, <2>1, <2>2 DEF TypeOK
  <1>3. pc \in {"steerSave", "steer"} => state'.flight[target] = state.flight[target]
    <2>1. pc \in {"steerSave", "steer"} => target \in Msgs /\ phase[target] = "idle"
      <3>1. pc \in {"steerSave", "steer"} => pc \in BatchPcs /\ target \in batch
        BY <1>1 DEF TargetOK, BatchPcs, BatchTargetPcs
      <3>. QED
        BY <3>1, BatchBefore
    <2>. QED
      BY <1>1, <2>1, BatchWorker
  <1>4. disk'.st = disk.st \/ disk'.st = state
    BY <1>1, DiskStep DEF Image
  <1>. QED
    BY <1>1, <1>2, <1>3, <1>4 DEF TargetOK, mains

(***************************************************************************)
(* The invariant.                                                          *)
(***************************************************************************)
\* The invariant holds of the state in which nothing has run.
LEMMA InitInv == Init => IInv
  <1>. SUFFICES ASSUME Init PROVE IInv
    OBVIOUS
  <1>1. TypeOK
    BY InitTypes
  <1>2. \A m \in Msgs : EmptyState.flight[m] = "none"
    BY DEF EmptyState
  <1>3. EmptyState.retries = {} /\ EmptyState.uncertain = {}
    BY DEF EmptyState
  <1>4. QueuesDisjoint /\ HermesAtMostOnce /\ FedIsKnown
    BY <1>2, <1>3 DEF Init, QueuesDisjoint, InFlight, HermesAtMostOnce, FedIsKnown
  <1>5. BatchIsFresh /\ WorkersAreStaged /\ SteeringIsFed /\ NothingRunsYet
    BY DEF Init, BatchIsFresh, BatchPcs, BatchTargetPcs, WorkersAreStaged, SteeringIsFed,
       NothingRunsYet, BeforeHermes
  <1>. QED
    BY <1>1, <1>4, <1>5 DEF Init, IInv

\* Every step preserves it, when neither rollback is run.
LEMMA StepInv == ReliableAdmission /\ IInv /\ [Next]_vars => IInv'
  <1>. SUFFICES ASSUME ReliableAdmission, IInv, [Next]_vars PROVE IInv'
    OBVIOUS
  <1>1. TypeOK'
    BY TypeStep DEF IInv
  <1>2. CASE Next
    <2>1. pc' # "undo"
      <3>1. CASE ProcessNext
        BY <3>1 DEF ProcessNext, Restart, BootSave, BootSaveFails, Crash, RequestShutdown,
           Halt, LoseMemory, Goto
      <3>. QED
        BY <1>2, <3>1, MainPcs, WorkerPcs DEF Next, IInv, mains
    <2>2. QueuesDisjoint' /\ FedIsKnown' /\ HermesAtMostOnce'
      BY <1>1, <1>2, DisjointStep, KnownStep, OnceStep
    <2>3. WorkersAreStaged' /\ SteeringIsFed' /\ NothingRunsYet'
      BY <1>2, StagedStep, SteeringStep, IdleStep
    <2>4. TargetOK'
      BY <1>2, TargetMain, TargetWorker DEF Next
    <2>5. pc' \in BatchPcs => \A n \in batch' : n \in Msgs /\ BatchOK(n)'
      BY <1>2, BatchStep
    <2>6. BatchIsFresh'
      BY <2>4, <2>5 DEF BatchIsFresh, TargetOK, BatchOK, Pending, InFlight
    <2>. QED
      BY <1>1, <2>1, <2>2, <2>3, <2>6 DEF IInv
  <1>3. CASE UNCHANGED vars
    BY <1>1, <1>3 DEF vars, durables, mains, workers, history, budgets, IInv,
       QueuesDisjoint, InFlight, HermesAtMostOnce, FedIsKnown, Known, BatchIsFresh, Pending,
       WorkersAreStaged, SteeringIsFed, NothingRunsYet
  <1>. QED
    BY <1>2, <1>3

\* When queued_origin_messages and admit_messages put no old copy of the state back,
\* be it for a failed save, a refused note or a full queue, the queues, the workers
\* and what Hermes was fed agree at every moment: admit_messages, handle_message
\* and finish_pending.
THEOREM BridgeInvariant ==
    ASSUME ReliableAdmission
    PROVE  Spec => []IInv
  <1>1. Init => IInv
    BY InitInv
  <1>2. IInv /\ [Next]_vars => IInv'
    BY StepInv
  <1>. QED
    BY <1>1, <1>2, PTL DEF Spec


\* No origin is given to Hermes in two executions (HermesAtMostOnce), for any
\* number of crashes, restarts and failures of the other saves, if neither rollback
\* of queued_origin_messages and admit_messages is run.
THEOREM AtMostOnce ==
    ASSUME ReliableAdmission
    PROVE  Spec => []HermesAtMostOnce
  <1>1. IInv => HermesAtMostOnce
    BY DEF IInv
  <1>. QED
    BY <1>1, BridgeInvariant, PTL

(***************************************************************************)
(* The refinement of ExecutionRecord.                                      *)
(***************************************************************************)
\* The start is one of the abstract specification: nothing is closed.
LEMMA RecordInit == Init => Record!Init
  BY DEF Init, Record!Init, ClosedOrigins, Known, EmptyState

\* Giving an origin to Hermes leaves the file as it is.
LEMMA FeedingKeepsFile ==
    ASSUME IInv, Next, NEW n \in Msgs, fed'[n] # fed[n]
    PROVE  /\ n \in ClosedOrigins
           /\ fed[n] = 0
           /\ fed' = [fed EXCEPT ![n] = 1]
           /\ UNCHANGED disk
  <1>1. /\ fed[n] = 0 /\ fed'[n] = 1
        /\ disk.st.flight[n] = "hermes_may_start"
        /\ \/ StartHermes(n)
           \/ pc = "steer" /\ n = target /\ (SteerAppendFails \/ SteerDelivered \/ SteerUncertain)
    BY FedStep
  <1>2. Feed(n) /\ UNCHANGED disk
    BY <1>1 DEF StartHermes, SteerAppendFails, SteerDelivered, SteerUncertain, durables
  <1>3. fed \in [Msgs -> 0 .. 2]
    BY DEF IInv, TypeOK
  <1>4. fed' = [fed EXCEPT ![n] = 1]
    BY <1>1, <1>2, <1>3 DEF Feed
  <1>. QED
    BY <1>1, <1>2, <1>4 DEF ClosedOrigins, Known

\* Every step gives one origin to Hermes, replaces the file, or is a stutter.
LEMMA RecordStep ==
    ASSUME ReliableAdmission, IInv, [Next]_vars
    PROVE  [Record!Next]_(Record!vars)
  <1>1. CASE UNCHANGED vars
    BY <1>1 DEF vars, durables, history, Record!vars, ClosedOrigins, Known
  <1>2. CASE Next /\ \E n \in Msgs : fed'[n] # fed[n]
    <2>1. PICK n \in Msgs : fed'[n] # fed[n]
      BY <1>2
    <2>2. /\ n \in ClosedOrigins
          /\ fed[n] = 0
          /\ fed' = [fed EXCEPT ![n] = 1]
          /\ UNCHANGED disk
      BY <1>2, <2>1, FeedingKeepsFile
    <2>3. UNCHANGED ClosedOrigins
      BY <2>2 DEF ClosedOrigins, Known
    <2>. QED
      BY <2>2, <2>3 DEF Record!Next, Record!Give
  <1>3. CASE Next /\ \A n \in Msgs : fed'[n] = fed[n]
    <2>1. TypeOK /\ TypeOK'
      BY <1>3, TypeStep DEF IInv
    <2>2. UNCHANGED fed
      BY <1>3, <2>1 DEF TypeOK
    <2>3. FedIsKnown'
      BY <1>3, KnownStep
    <2>4. {n \in Msgs : fed[n] > 0} \subseteq ClosedOrigins'
      BY <2>2, <2>3 DEF FedIsKnown, ClosedOrigins, Known
    <2>. QED
      BY <2>2, <2>4 DEF Record!Next, Record!Commit, ClosedOrigins
  <1>. QED
    BY <1>1, <1>2, <1>3

\* The bridge implements the write-ahead record of executions (WritesAhead): for
\* all origins, limits, crashes and failures of the other saves, if neither rollback
\* is run, what Hermes gets is excluded from execution in the file before and
\* stays so.
THEOREM Refinement ==
    ASSUME ReliableAdmission
    PROVE  Spec => WritesAhead
  <1>1. Init => IInv /\ Record!Init
    BY InitInv, RecordInit
  <1>2. IInv /\ [Next]_vars => IInv'
    BY StepInv
  <1>3. IInv /\ [Next]_vars => [Record!Next]_(Record!vars)
    BY RecordStep
  <1>. QED
    BY <1>1, <1>2, <1>3, PTL DEF Spec, WritesAhead, Record!Spec
=============================================================================
