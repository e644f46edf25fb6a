-------------------------- MODULE Durability_proofs --------------------------
(***************************************************************************)
(* Three invariants on top of IInv: what the state file says of the turns  *)
(* under way (DInv), what was posted of an answer (RInv), and what the     *)
(* file never forgets (KInv).                                              *)
(***************************************************************************)
EXTENDS Bridge_proofs

(***************************************************************************)
(* What the state file says of the turns under way.  The invariant DInv    *)
(* adds to IInv what happens to an origin between its admission and the    *)
(* end of its turn: its entry stays in the file, with the mark as soon as  *)
(* Hermes runs, or it is seen there; and what was answered is excluded.    *)
(***************************************************************************)
(***************************************************************************)
(* The invariant.                                                          *)
(***************************************************************************)
\* Uncertain steering has no worker, in memory or after the next restart, and
\* is not admitted again.
UncertainIsIdle ==
    /\ \A n \in Msgs : n \in state.uncertain => phase[n] = "idle"
    /\ pc # "down" => disk.st.uncertain \subseteq state.uncertain
    /\ pc \in BatchPcs => \A n \in batch : n \notin state.uncertain

\* From the save of its admission on, the batch is in the file.
BatchIsSaved == pc \in BatchPcs \ {"admitSave"} => \A n \in batch : disk.st.flight[n] # "none"

StartedIsFed == \A n \in Msgs : started[n] => fed[n] > 0

\* An origin with a worker has its entry in memory, except between the save of
\* its reply and the end of its turn, when it is seen.
HeldAt(n) == phase[n] # "idle" => state.flight[n] # "none" \/ (result[n] = "retire" /\ n \in seen)

PendingIsHeld == \A n \in Msgs : HeldAt(n)

DInv ==
    /\ IInv
    /\ UncertainIsIdle
    /\ BatchIsSaved
    /\ StartedIsFed
    /\ PendingIsHeld
    /\ PendingIsDurable

-----------------------------------------------------------------------------
(***************************************************************************)
(* What a step does to an origin while the process is up.                  *)
(***************************************************************************)
\* The bridge may take the origin for new again: it was not used yet, or its turn
\* failed before Hermes, or before anything was posted.
Forgettable(n) ==
    \/ phase[n] = "done" /\ result[n] \in {"retry", "rejected"}
    \/ pc \in BatchPcs /\ pc # "inlinePublish" /\ n \in batch

\* An origin becomes uncertain only as it leaves the batch, and stays so; one that
\* is known is forgotten only where it may be; a worker keeps its entry.
MovesAt(n) ==
    /\ n \in state.uncertain => n \in state'.uncertain
    /\ n \in state'.uncertain => n \in state.uncertain \/ (phase'[n] = "idle" /\ n \notin batch')
    /\ Known(state, seen, n) => Known(state', seen', n) \/ Forgettable(n)
    /\ HeldAt(n)'

\* What the invariant says of the origin before the step.
LEMMA OriginBefore ==
    ASSUME DInv, pc # "down", NEW n \in Msgs
    PROVE  /\ HeldAt(n)
           /\ n \in state.uncertain => phase[n] = "idle"
           /\ phase[n] \notin {"idle", "done"} => state.flight[n] # "none"
           /\ phase[n] # "done" => result[n] = "none"
           /\ state.flight[n] \in {"none", "admitted", "hermes_may_start"}
           /\ steerOf[n] # NoMsg => phase[n] = "idle"
           /\ phase[n] \in Phases /\ result[n] \in Results
  <1>1. IInv
    BY DEF DInv
  <1>. QED
    BY <1>1, EntryBefore DEF DInv, UncertainIsIdle, PendingIsHeld, EntryOK

\* An origin whose entry, phase and uncertainty stay moves nowhere.
LEMMA MovesNowhere ==
    ASSUME DInv, pc # "down", NEW n \in Msgs,
           state'.flight[n] = state.flight[n],
           n \in state'.uncertain <=> n \in state.uncertain,
           n \in seen => n \in seen' \cup state.uncertain,
           UNCHANGED <<phase, result>>
    PROVE  MovesAt(n)
  BY OriginBefore DEF MovesAt, HeldAt, Known

\* The steps of the main thread that only save.
LEMMA MovesSave ==
    ASSUME DInv, pc # "down", NEW n \in Msgs, UNCHANGED <<phase, result>>,
           PersistOk \/ \E site \in Sites : PersistFails(site)
    PROVE  MovesAt(n)
  <1>1. TypeOK
    BY DEF DInv, IInv
  <1>2. UNCHANGED state /\ seen \subseteq seen' \cup state.uncertain
    BY <1>1, PersistEffect
  <1>. QED
    BY <1>2, MovesNowhere

\* Those that touch neither the state nor the workers.
LEMMA MovesStill ==
    ASSUME DInv, pc # "down", NEW n \in Msgs, UNCHANGED <<state, seen, phase, result>>
    PROVE  MovesAt(n)
  BY MovesNowhere

\* finish_pending.
LEMMA FinishMoves ==
    ASSUME DInv, FinishNext, NEW n \in Msgs
    PROVE  MovesAt(n)
  <1>1. IInv /\ TypeOK /\ pc # "down"
    BY DEF DInv, IInv, FinishNext, FinishOk, FinishRetry, FinishFail, FinishRejected,
       PostCommitProof, PostCommitRetire, FinishFatal, RejectedSave,
       FinishRejectedProof, FinishSave, FinishDone, Finishing
  <1>2. /\ HeldAt(n)
        /\ n \in state.uncertain => phase[n] = "idle"
        /\ state.flight[n] \in {"none", "admitted", "hermes_may_start"}
    BY <1>1, OriginBefore
  <1>3. ASSUME NEW m \in Msgs, TerminateTurn(m), Retire(m) \/ Retiring(m) PROVE MovesAt(n)
    <2>1. /\ \A k \in Msgs \ ({m} \cup SteeringOf(m)) : Kept(k)
          /\ m \in seen'
          /\ \A k \in SteeringOf(m) : state.flight[k] = "hermes_may_start" => k \in seen'
          /\ UNCHANGED state.uncertain
          /\ seen \subseteq seen'
      BY <1>1, <1>3, TerminateEffect
    <2>2. CASE n \in {m} \cup SteeringOf(m)
      <3>1. phase'[n] = "idle" \/ (n = m /\ result'[n] = "retire")
        BY <1>1, <1>3, <2>2, RetireEffect, SteeringIsIdle DEF Retiring, TypeOK
      <3>. QED
        BY <1>2, <2>1, <2>2, <3>1 DEF MovesAt, HeldAt, Known
    <2>3. CASE n \notin {m} \cup SteeringOf(m)
      <3>1. phase'[n] = phase[n] /\ result'[n] = result[n]
        BY <1>1, <1>3, <2>3, RetireEffect DEF Retiring, TypeOK
      <3>. QED
        BY <1>1, <1>2, <2>1, <2>3, <3>1 DEF MovesAt, HeldAt, Kept, Known
    <2>. QED
      BY <2>2, <2>3
  <1>4. ASSUME NEW m \in Msgs, FinishOk(m) PROVE MovesAt(n)
    <2>1. /\ state' = RemoveInFlight(state, {m} \cup SteeringOf(m))
          /\ seen' = seen \cup {m} \cup SteeringOf(m)
          /\ Retire(m)
      BY <1>4 DEF FinishOk
    <2>2. /\ \A k \in Msgs \ ({m} \cup SteeringOf(m)) : Kept(k)
          /\ UNCHANGED state.uncertain
      BY <1>1, <2>1, FinishOkEffect
    <2>3. CASE n \in {m} \cup SteeringOf(m)
      <3>1. phase'[n] = "idle"
        BY <1>1, <2>1, <2>3, RetireEffect, SteeringIsIdle
      <3>. QED
        BY <2>1, <2>2, <2>3, <3>1 DEF MovesAt, HeldAt, Known
    <2>4. CASE n \notin {m} \cup SteeringOf(m)
      BY <1>1, <1>2, <2>1, <2>2, <2>4, RetireEffect DEF MovesAt, HeldAt, Kept, Known
    <2>. QED
      BY <2>3, <2>4
  <1>5. ASSUME NEW m \in Msgs, FinishRetry(m) PROVE MovesAt(n)
    <2>1. CASE DeadLetterRoom(state, Exhausted(state, {m}))
      <3>1. /\ state' = ReturnAdmittedToRetry(UpsertRetry(state, {m}), SteeringOf(m))
            /\ seen' = (seen \ {m}) \cup Exhausted(state, {m})
            /\ Retire(m)
            /\ phase[m] = "done" /\ result[m] = "retry"
        BY <1>5, <2>1 DEF FinishRetry, Finishing
      <3>2. /\ \A k \in Msgs \ ({m} \cup SteeringOf(m)) : Kept(k)
            /\ \A k \in SteeringOf(m) : state.flight[k] = "hermes_may_start" => k = m \/ Kept(k)
            /\ UNCHANGED state.uncertain
        BY <1>1, <3>1, FinishRetryEffect
      <3>3. n # m /\ n \in seen => n \in seen'
        BY <3>1
      <3>4. CASE n \in {m} \cup SteeringOf(m)
        <4>1. phase'[n] = "idle"
          BY <1>1, <3>1, <3>4, RetireEffect, SteeringIsIdle
        <4>. QED
          BY <3>1, <3>2, <3>3, <3>4, <4>1 DEF MovesAt, HeldAt, Known, Kept, Forgettable
      <3>5. CASE n \notin {m} \cup SteeringOf(m)
        BY <1>1, <1>2, <3>1, <3>2, <3>3, <3>5, RetireEffect DEF MovesAt, HeldAt, Kept, Known
      <3>. QED
        BY <3>4, <3>5
    <2>2. CASE ~ DeadLetterRoom(state, Exhausted(state, {m}))
      BY <1>1, <1>5, <2>2, MovesStill DEF FinishRetry, workers
    <2>. QED
      BY <2>1, <2>2
  <1>6. ASSUME NEW m \in Msgs, FinishRejected(m) PROVE MovesAt(n)
    <2>1. phase[m] = "done" /\ result[m] = "rejected" /\ UNCHANGED <<phase, result>>
      BY <1>6 DEF FinishRejected, Finishing, workers
    <2>2. Kept(n) /\ UNCHANGED state.uncertain
      BY <1>1, <1>6 DEF FinishRejected, Kept, TypeOK, DurableStates
    <2>3. n # m /\ n \in seen => n \in seen'
      BY <1>6 DEF FinishRejected
    <2>4. CASE n = m
      BY <1>2, <2>1, <2>2, <2>4 DEF MovesAt, HeldAt, Kept, Known, Forgettable
    <2>5. CASE n # m
      BY <1>1, <2>1, <2>2, <2>3, <2>5, MovesNowhere DEF Kept
    <2>. QED
      BY <2>4, <2>5
  <1>7. ASSUME NEW m \in Msgs, PostCommitProof(m) PROVE MovesAt(n)
    <2>1. CASE PersistFails("loop") /\ UNCHANGED result
      BY <1>1, <1>7, <2>1, MovesSave DEF PostCommitProof, Sites
    <2>2. CASE /\ state' = RemoveInFlight(state, {m} \cup SteeringOf(m))
               /\ seen' = PersistedSeen(state, seen) \cup {m} \cup SteeringOf(m)
               /\ result' = [result EXCEPT ![m] = "retire"]
      <3>1. UNCHANGED phase
        BY <1>7 DEF PostCommitProof
      <3>2. seen \subseteq seen' \cup state.uncertain
        BY <1>1, <2>2, PersistedSeenFacts DEF TypeOK
      <3>3. /\ \A k \in Msgs \ ({m} \cup SteeringOf(m)) : Kept(k)
            /\ UNCHANGED state.uncertain
        BY <1>1, <2>2, FinishOkEffect
      <3>4. CASE n = m
        BY <1>1, <2>2, <3>1, <3>3, <3>4 DEF MovesAt, HeldAt, Known, TypeOK
      <3>5. CASE n # m /\ n \in SteeringOf(m)
        BY <1>1, <2>2, <3>1, <3>3, <3>5, SteeringIsIdle DEF MovesAt, HeldAt, Known
      <3>6. CASE n \notin {m} \cup SteeringOf(m)
        <4>1. result'[n] = result[n] /\ Kept(n)
          BY <1>1, <2>2, <3>3, <3>6 DEF TypeOK
        <4>. QED
          BY <1>2, <3>1, <3>2, <3>3, <4>1 DEF MovesAt, HeldAt, Kept, Known
      <3>. QED
        BY <3>4, <3>5, <3>6
    <2>. QED
      BY <1>7, <2>1, <2>2 DEF PostCommitProof
  <1>8. ASSUME NEW m \in Msgs, PostCommitRetire(m) PROVE MovesAt(n)
    <2>1. UNCHANGED state /\ seen \subseteq seen' \cup state.uncertain
      BY <1>1, <1>8, PersistEffect DEF PostCommitRetire
    <2>2. CASE Retire(m)
      <3>1. \/ phase'[n] = "idle"
            \/ phase'[n] = phase[n] /\ result'[n] = result[n]
        BY <1>1, <2>2, RetireEffect
      <3>. QED
        BY <1>2, <2>1, <3>1 DEF MovesAt, HeldAt, Known
    <2>. QED
      BY <1>1, <1>8, <2>1, <2>2, MovesNowhere DEF PostCommitRetire, workers
  <1>9. CASE RejectedSave \/ FinishSave
    BY <1>1, <1>9, MovesSave DEF RejectedSave, FinishSave, workers, Sites
  <1>10. ASSUME NEW m \in Msgs, FinishFail(m) PROVE MovesAt(n)
    BY <1>1, <1>3, <1>10, MovesStill DEF FinishFail, NoRoomForTurn, workers
  <1>11. CASE FinishRejectedProof
    <2>1. pc = "rejected" => phase[target] = "done"
      BY <1>1 DEF IInv, BatchIsFresh
    <2>. QED
      BY <1>1, <1>3, <1>11, <2>1, RejectedEffect, MovesStill DEF workers
  <1>12. CASE FinishDone \/ \E m \in Msgs : FinishFatal(m)
    BY <1>1, <1>12, MovesStill DEF FinishDone, FinishFatal, durables, workers
  <1>. QED
    BY <1>4, <1>5, <1>6, <1>7, <1>8, <1>9, <1>10, <1>11, <1>12 DEF FinishNext

\* The body of the loop.
LEMMA LoopMoves ==
    ASSUME DInv, ReliableAdmission, LoopNext, NEW n \in Msgs
    PROVE  MovesAt(n)
  <1>1. IInv /\ TypeOK /\ QueuesDisjoint /\ pc # "down" /\ pc # "undo"
    BY DEF DInv, IInv, LoopNext, ReconcileDone, ReconcileTerminal, ReconcileSave, ReconcileEnd,
       LoopSave, Fetch, FetchSave, Undo, NothingToAdmit, Admit, AdmitSave
  <1>2. CASE \E m \in Msgs : ReconcileDone(m) \/ ReconcileTerminal(m)
    <2>1. Kept(n) /\ UNCHANGED state.uncertain
      BY <1>1, <1>2 DEF ReconcileDone, ReconcileTerminal, Kept, TypeOK, DurableStates
    <2>. QED
      BY <1>1, <1>2, <2>1, MovesNowhere DEF ReconcileDone, ReconcileTerminal, Kept, workers
  <1>3. CASE ReconcileSave \/ LoopSave \/ FetchSave \/ AdmitSave
    BY <1>1, <1>3, MovesSave DEF ReconcileSave, LoopSave, FetchSave, AdmitSave, workers, Sites
  <1>4. CASE ReconcileEnd \/ NothingToAdmit
    BY <1>1, <1>4, MovesStill DEF ReconcileEnd, NothingToAdmit, durables, workers
  <1>5. CASE Fetch
    <2>1. /\ \A k \in Msgs : state'.flight[k] = state.flight[k]
          /\ UNCHANGED state.uncertain
          /\ seen \subseteq seen'
          /\ UNCHANGED <<phase, result>>
      BY <1>1, <1>5, FetchEffect DEF workers
    <2>. QED
      BY <1>1, <2>1, MovesNowhere
  <1>6. CASE Admit
    <2>1. UNCHANGED <<phase, result>> /\ seen \subseteq seen' /\ UNCHANGED state.uncertain
      BY <1>1, <1>6, AdmitEffect DEF workers
    <2>2. CASE Kept(n)
      BY <1>1, <2>1, <2>2, MovesNowhere DEF Kept
    <2>3. CASE n \notin seen /\ n \notin Pending /\ n \notin InFlight(state) /\ n \notin state.uncertain
      BY <2>1, <2>3 DEF MovesAt, HeldAt, Known, Pending, InFlight
    <2>. QED
      BY <1>1, <1>6, <2>2, <2>3, AdmitEffect
  <1>. QED
    BY <1>1, <1>2, <1>3, <1>4, <1>5, <1>6 DEF LoopNext, Undo

\* An origin of the batch may be forgotten, or leave the table.
LEMMA MovesTarget ==
    ASSUME DInv, pc \in BatchPcs, pc # "inlinePublish", NEW m \in batch, NEW n \in Msgs,
           n # m => Kept(n) /\ (n \in seen => n \in seen' \cup state.uncertain),
           state'.uncertain = state.uncertain,
           UNCHANGED <<phase, result>>
    PROVE  MovesAt(n)
  <1>1. IInv /\ pc # "down"
    BY DEF DInv, BatchPcs
  <1>2. CASE n = m
    <2>1. phase[n] = "idle" /\ n \in batch
      BY <1>1, <1>2, BatchBefore
    <2>. QED
      BY <2>1 DEF MovesAt, HeldAt, Forgettable
  <1>3. CASE n # m
    BY <1>1, <1>3, MovesNowhere DEF Kept
  <1>. QED
    BY <1>2, <1>3

\* So it is with a failed attempt, and with a deferral.
LEMMA MovesLater ==
    ASSUME DInv, pc \in BatchPcs, pc # "inlinePublish", NEW m \in batch, NEW n \in Msgs,
           RetryLater(m) \/ Defer(m), UNCHANGED workers
    PROVE  MovesAt(n)
  <1>1. IInv /\ TypeOK /\ pc # "down" /\ m \in Msgs
    BY DEF DInv, IInv, BatchPcs, TypeOK
  <1>2. CASE UNCHANGED <<state, seen>>
    BY <1>1, <1>2, MovesStill DEF workers
  <1>3. CASE /\ \A k \in Msgs \ {m} : Kept(k)
             /\ UNCHANGED state.uncertain
             /\ seen \subseteq seen'
    BY <1>1, <1>3, MovesTarget DEF workers
  <1>. QED
    BY <1>1, <1>2, <1>3, RetryLaterEffect, DeferEffect

\* Setting the stage of an origin of the batch.
LEMMA MovesStage ==
    ASSUME DInv, pc \in BatchPcs, pc # "inlinePublish", NEW m \in batch, NEW n \in Msgs,
           NEW stage \in {"admitted", "hermes_may_start"},
           state' = WithStage(state, {m}, stage), UNCHANGED <<seen, workers>>
    PROVE  MovesAt(n)
  <1>1. state \in DurableStates /\ {m} \in SUBSET Msgs /\ stage \in Stages
    BY DEF DInv, IInv, TypeOK, Stages
  <1>2. /\ \A k \in Msgs : state'.flight[k] = IF k \in {m} THEN stage ELSE state.flight[k]
        /\ state'.retries = state.retries
        /\ state'.uncertain = state.uncertain
    BY <1>1, WithStageFacts
  <1>. QED
    BY <1>2, MovesTarget DEF Kept, workers

\* The submission of a batch.
LEMMA SubmitMoves ==
    ASSUME DInv, SubmitNext, NEW n \in Msgs
    PROVE  MovesAt(n)
  <1>1. IInv /\ TypeOK /\ pc \in BatchPcs /\ pc # "inlinePublish" /\ pc # "down"
    BY DEF DInv, IInv, SubmitNext, SubmitWorker, SubmitFails, SteerDeferred, SteerMark,
       SubmitBroken, SubmitSave, SubmitEnd, Submitting, BatchPcs
  <1>2. ASSUME NEW m \in Msgs, SubmitWorker(m) PROVE MovesAt(n)
    <2>1. /\ m \in batch
          /\ phase' = [phase EXCEPT ![m] = "queued"]
          /\ UNCHANGED <<state, seen, result>>
      BY <1>2 DEF SubmitWorker, Submitting, durables
    <2>2. state.flight[m] # "none"
      BY <1>1, <2>1, BatchBefore
    <2>3. HeldAt(n)
      BY <1>1, OriginBefore
    <2>. QED
      BY <1>1, <2>1, <2>2, <2>3 DEF MovesAt, HeldAt, Known, TypeOK
  <1>3. ASSUME NEW m \in Msgs, SubmitFails(m) \/ SteerDeferred(m) PROVE MovesAt(n)
    <2>1. m \in batch /\ (RetryLater(m) \/ Defer(m)) /\ UNCHANGED workers
      BY <1>3 DEF SubmitFails, SteerDeferred, Submitting
    <2>. QED
      BY <1>1, <2>1, MovesLater
  <1>4. ASSUME NEW m \in Msgs, SteerMark(m) PROVE MovesAt(n)
    <2>1. /\ m \in batch
          /\ state' = WithStage(state, {m}, "hermes_may_start") \/ UNCHANGED state
          /\ UNCHANGED <<seen, workers>>
      BY <1>4 DEF SteerMark, Submitting, MarkMayStart
    <2>. QED
      BY <1>1, <2>1, MovesStage, MovesStill DEF workers
  <1>5. CASE SubmitSave
    BY <1>1, <1>5, MovesSave DEF SubmitSave, workers, Sites
  <1>6. CASE SubmitBroken \/ SubmitEnd
    BY <1>1, <1>6, MovesStill DEF SubmitBroken, SubmitEnd, durables, workers
  <1>. QED
    BY <1>2, <1>3, <1>4, <1>5, <1>6 DEF SubmitNext

\* The steering path.
LEMMA SteerMoves ==
    ASSUME DInv, SteerNext, NEW n \in Msgs
    PROVE  MovesAt(n)
  <1>1. IInv /\ TypeOK /\ pc # "down" /\ pc # "inlinePublish"
    BY DEF DInv, IInv, SteerNext, SteerSave, AbandonSave, SteerUnmark, SteerUndoSave,
       SteerRefused, SteerAppendFails, SteerDelivered, SteerUncertain, RetireSave, RetireRetry
  <1>2. pc \in BatchTargetPcs =>
            /\ pc \in BatchPcs /\ target \in batch /\ target \in Msgs
            /\ phase[target] = "idle"
    <2>1. pc \in BatchTargetPcs => pc \in BatchPcs /\ target \in batch
      BY <1>1 DEF IInv, BatchIsFresh, BatchPcs, BatchTargetPcs
    <2>. QED
      BY <1>1, <2>1, BatchBefore
  <1>3. CASE AbandonSave \/ RetireSave \/ RetireRetry
    BY <1>1, <1>3, MovesSave DEF AbandonSave, RetireSave, RetireRetry, workers, Sites
  <1>4. CASE SteerRefused
    <2>1. pc \in BatchTargetPcs /\ (RetryLater(target) \/ Defer(target)) /\ UNCHANGED workers
      BY <1>4 DEF SteerRefused, BatchTargetPcs
    <2>. QED
      BY <1>1, <1>2, <2>1, MovesLater
  <1>5. CASE SteerUnmark
    <2>1. /\ pc \in BatchTargetPcs
          /\ state' = WithStage(state, {target}, "admitted")
          /\ UNCHANGED <<seen, workers>>
      BY <1>5 DEF SteerUnmark, BatchTargetPcs
    <2>. QED
      BY <1>1, <1>2, <2>1, MovesStage
  <1>6. CASE SteerSave
    <2>1. pc \in BatchTargetPcs /\ UNCHANGED <<phase, result>>
      BY <1>6 DEF SteerSave, BatchTargetPcs, workers
    <2>2. CASE PersistOk
      BY <1>1, <2>1, <2>2, MovesSave
    <2>3. CASE /\ state' = ReturnAdmittedToRetry(WithStage(state, {target}, "admitted"), {target})
               /\ seen' = PersistedSeen(state, seen)
      <3>. DEFINE w == WithStage(state, {target}, "admitted")
                  r == ReturnAdmittedToRetry(w, {target})
      <3>1. state \in DurableStates /\ {target} \in SUBSET Msgs /\ "admitted" \in Stages
        BY <1>1, <1>2, <2>1 DEF TypeOK, Stages
      <3>2. /\ w \in DurableStates
            /\ \A k \in Msgs : w.flight[k] = IF k \in {target} THEN "admitted" ELSE state.flight[k]
            /\ w.retries = state.retries
            /\ w.uncertain = state.uncertain
        BY <3>1, WithStageFacts
      <3>. HIDE DEF w
      <3>3. /\ \A k \in Msgs : r.flight[k] = IF k \in {target} /\ w.flight[k] = "admitted"
                                             THEN "none" ELSE w.flight[k]
            /\ r.retries = w.retries \cup {k \in {target} : w.flight[k] = "admitted"}
            /\ r.uncertain = w.uncertain
        BY <3>1, <3>2, ReturnAdmittedFacts
      <3>4. state' = r
        BY <2>3 DEF w
      <3>. HIDE DEF r
      <3>5. seen \subseteq seen' \cup state.uncertain
        BY <1>1, <2>3, PersistedSeenFacts DEF TypeOK
      <3>6. (\A k \in Msgs \ {target} : Kept(k)) /\ UNCHANGED state.uncertain
        BY <1>2, <2>1, <3>2, <3>3, <3>4 DEF Kept
      <3>. QED
        BY <1>1, <1>2, <2>1, <3>5, <3>6, MovesTarget
    <2>. QED
      BY <1>6, <2>2, <2>3 DEF SteerSave
  <1>7. CASE SteerUndoSave
    <2>1. pc \in BatchTargetPcs /\ UNCHANGED <<phase, result>>
      BY <1>7 DEF SteerUndoSave, BatchTargetPcs, workers
    <2>2. CASE PersistOk
      BY <1>1, <2>1, <2>2, MovesSave
    <2>3. CASE /\ state' = ReturnAdmittedToRetry(state, {target})
               /\ seen' = PersistedSeen(state, seen)
      <3>. DEFINE r == ReturnAdmittedToRetry(state, {target})
      <3>1. state \in DurableStates /\ {target} \in SUBSET Msgs
        BY <1>1, <1>2, <2>1 DEF TypeOK
      <3>2. /\ \A k \in Msgs : r.flight[k] = IF k \in {target} /\ state.flight[k] = "admitted"
                                             THEN "none" ELSE state.flight[k]
            /\ r.retries = state.retries \cup {k \in {target} : state.flight[k] = "admitted"}
            /\ r.uncertain = state.uncertain
        BY <3>1, ReturnAdmittedFacts
      <3>3. state' = r
        BY <2>3
      <3>. HIDE DEF r
      <3>4. seen \subseteq seen' \cup state.uncertain
        BY <1>1, <2>3, PersistedSeenFacts DEF TypeOK
      <3>5. (\A k \in Msgs \ {target} : Kept(k)) /\ UNCHANGED state.uncertain
        BY <1>2, <2>1, <3>2, <3>3 DEF Kept
      <3>. QED
        BY <1>1, <1>2, <2>1, <3>4, <3>5, MovesTarget
    <2>. QED
      BY <1>7, <2>2, <2>3 DEF SteerUndoSave
  <1>8. CASE SteerAppendFails \/ SteerDelivered
    <2>1. pc \in BatchTargetPcs /\ UNCHANGED <<phase, result>>
      BY <1>8 DEF SteerAppendFails, SteerDelivered, BatchTargetPcs, workers
    <2>2. CASE UNCHANGED <<state, seen>>
      BY <1>1, <2>1, <2>2, MovesStill
    <2>3. CASE state' = Terminalize(state, {target}) /\ seen' = seen \cup {target}
      <3>1. (\A k \in Msgs \ {target} : Kept(k)) /\ UNCHANGED state.uncertain
        BY <1>1, <1>2, <2>1, <2>3, TargetTerminal DEF Kept
      <3>. QED
        BY <1>1, <1>2, <2>1, <2>3, <3>1, MovesTarget
    <2>. QED
      BY <1>8, <2>2, <2>3 DEF SteerAppendFails, SteerDelivered, durables
  <1>9. CASE SteerUncertain
    <2>1. /\ pc \in BatchTargetPcs /\ UNCHANGED <<phase, result>>
          /\ state' = [Terminalize(state, {target}) EXCEPT !.uncertain = @ \cup {target}]
          /\ seen' = seen \ {target}
          /\ batch' = batch \ {target}
      BY <1>9 DEF SteerUncertain, BatchTargetPcs, workers
    <2>. DEFINE t == Terminalize(state, {target})
    <2>2. /\ t \in DurableStates
          /\ t.uncertain = state.uncertain
          /\ \A k \in Msgs \ {target} : t.flight[k] = state.flight[k]
      BY <1>1, <1>2, <2>1, TargetTerminal
    <2>3. state' = [t EXCEPT !.uncertain = @ \cup {target}]
      BY <2>1
    <2>. HIDE DEF t
    <2>4. state'.flight = t.flight /\ state'.uncertain = state.uncertain \cup {target}
      BY <2>2, <2>3 DEF DurableStates
    <2>5. CASE n = target
      BY <1>2, <2>1, <2>4, <2>5 DEF MovesAt, HeldAt, Known
    <2>6. CASE n # target
      BY <1>1, <2>1, <2>2, <2>4, <2>6, MovesNowhere
    <2>. QED
      BY <2>5, <2>6
  <1>. QED
    BY <1>3, <1>4, <1>5, <1>6, <1>7, <1>8, <1>9 DEF SteerNext

\* The inline answers.
LEMMA InlineMoves ==
    ASSUME DInv, InlineNext, NEW n \in Msgs
    PROVE  MovesAt(n)
  <1>1. IInv /\ TypeOK /\ pc # "down"
    BY DEF DInv, IInv, InlineNext, InlineMark, InlineSave, InlineAnswered, InlinePublish,
       InlineFails, InlineFull, Submitting
  <1>2. pc \in BatchTargetPcs =>
            /\ pc \in BatchPcs /\ target \in batch /\ target \in Msgs
            /\ phase[target] = "idle"
    <2>1. pc \in BatchTargetPcs => pc \in BatchPcs /\ target \in batch
      BY <1>1 DEF IInv, BatchIsFresh, BatchPcs, BatchTargetPcs
    <2>. QED
      BY <1>1, <2>1, BatchBefore
  <1>3. ASSUME NEW m \in Msgs, InlineMark(m) PROVE MovesAt(n)
    <2>1. /\ pc \in BatchPcs /\ pc # "inlinePublish" /\ m \in batch
          /\ state' = WithStage(state, {m}, "hermes_may_start")
          /\ UNCHANGED <<seen, workers>>
      BY <1>3 DEF InlineMark, Submitting, MarkMayStart, BatchPcs
    <2>. QED
      BY <2>1, MovesStage
  <1>4. CASE InlineSave
    BY <1>1, <1>4, MovesSave DEF InlineSave, workers, Sites
  <1>5. CASE InlineAnswered
    <2>1. Kept(n) /\ UNCHANGED state.uncertain
      BY <1>1, <1>5 DEF InlineAnswered, Kept, TypeOK, DurableStates
    <2>. QED
      BY <1>1, <1>5, <2>1, MovesNowhere DEF InlineAnswered, Kept, workers
  <1>6. CASE InlinePublish
    <2>1. /\ pc \in BatchTargetPcs
          /\ state' = RemoveInFlight(state, {target})
          /\ seen' = PersistedSeen(state, seen) \cup {target}
          /\ UNCHANGED <<result, phase>>
      BY <1>6 DEF InlinePublish, BatchTargetPcs, workers
    <2>2. seen \subseteq seen' \cup state.uncertain
      BY <1>1, <2>1, PersistedSeenFacts DEF TypeOK
    <2>3. (\A k \in Msgs \ {target} : Kept(k)) /\ UNCHANGED state.uncertain
      <3>1. state \in DurableStates /\ {target} \in SUBSET Msgs
        BY <1>1, <1>2, <2>1 DEF TypeOK
      <3>. QED
        BY <1>2, <2>1, <3>1, RemoveInFlightFacts DEF Kept
    <2>4. CASE n = target
      BY <1>2, <2>1, <2>3, <2>4 DEF MovesAt, HeldAt, Known
    <2>5. CASE n # target
      BY <1>1, <2>1, <2>2, <2>3, <2>5, MovesNowhere DEF Kept
    <2>. QED
      BY <2>4, <2>5
  <1>7. CASE InlineFails
    <2>1. pc \in BatchTargetPcs /\ pc # "inlinePublish" /\ UNCHANGED workers
      BY <1>7 DEF InlineFails, BatchTargetPcs
    <2>2. CASE RetryLater(target)
      BY <1>2, <2>1, <2>2, MovesLater
    <2>3. CASE state' = Terminalize(state, {target}) /\ seen' = seen \cup {target}
      <3>1. (\A k \in Msgs \ {target} : Kept(k)) /\ UNCHANGED state.uncertain
        BY <1>1, <1>2, <2>1, <2>3, TargetTerminal DEF Kept
      <3>. QED
        BY <1>1, <1>2, <2>1, <2>3, <3>1, MovesTarget DEF workers
    <2>. QED
      BY <1>7, <2>2, <2>3 DEF InlineFails
  <1>8. CASE InlineFull
    BY <1>1, <1>8, MovesStill DEF InlineFull, durables, workers
  <1>. QED
    BY <1>3, <1>4, <1>5, <1>6, <1>7, <1>8 DEF InlineNext

\* The workers.
LEMMA WorkerMoves ==
    ASSUME DInv, NEW m \in Msgs, WorkerNext(m), NEW n \in Msgs
    PROVE  MovesAt(n)
  <1>1. IInv /\ TypeOK /\ pc # "down"
    BY WorkerPcs DEF DInv, IInv
  <1>2. /\ phase[m] \notin {"idle", "done"}
        /\ \E where \in Phases : phase' = [phase EXCEPT ![m] = where]
        /\ UNCHANGED result \/ \E o \in Results : result' = [result EXCEPT ![m] = o]
        /\ \/ UNCHANGED <<state, seen>>
           \/ state' = WithStage(state, {m}, "hermes_may_start") /\ UNCHANGED seen
           \/ state' = [state EXCEPT !.jobs = @ \cup {m}] /\ UNCHANGED seen
           \/ UNCHANGED state /\ seen' = PersistedSeen(state, seen)
    BY DEF WorkerNext, Begin, PreFails, LocalAnswer, Mark, MarkSave, Register, StartFails,
       StartHermes, HermesEnds, AnswerBlocked, PostAnswer, Publish, PublishSave, ErrorNotice,
       ErrorSave, Working, Advance, End, Phases, Results, MarkMayStart, durables,
       PersistOk, PersistFails
  <1>3. /\ state \in DurableStates /\ {m} \in SUBSET Msgs /\ "hermes_may_start" \in Stages
        /\ phase \in [Msgs -> Phases] /\ result \in [Msgs -> Results]
    BY <1>1 DEF TypeOK, Stages
  <1>4. /\ state'.flight[n] \in {"hermes_may_start", state.flight[n]}
        /\ state'.uncertain = state.uncertain
        /\ seen \subseteq seen' \cup state.uncertain
    <2>1. CASE state' = WithStage(state, {m}, "hermes_may_start") /\ UNCHANGED seen
      BY <1>3, <2>1, WithStageFacts
    <2>2. CASE state' = [state EXCEPT !.jobs = @ \cup {m}] /\ UNCHANGED seen
      BY <1>3, <2>2 DEF DurableStates
    <2>3. CASE UNCHANGED state /\ seen' = PersistedSeen(state, seen)
      BY <1>1, <2>3, PersistedSeenFacts DEF TypeOK
    <2>. QED
      BY <1>2, <2>1, <2>2, <2>3
  <1>5. Known(state, seen, n) => Known(state', seen', n)
    BY <1>4 DEF Known
  <1>6. HeldAt(n)'
    <2>1. /\ HeldAt(n)
          /\ n \in state.uncertain => phase[n] = "idle"
          /\ phase[n] \notin {"idle", "done"} => state.flight[n] # "none"
      BY <1>1, OriginBefore
    <2>2. CASE n = m
      BY <1>2, <1>4, <2>1, <2>2 DEF HeldAt
    <2>3. CASE n # m
      <3>1. phase'[n] = phase[n] /\ result'[n] = result[n]
        BY <1>2, <1>3, <2>3
      <3>. QED
        BY <1>4, <2>1, <3>1 DEF HeldAt
    <2>. QED
      BY <2>2, <2>3
  <1>. QED
    BY <1>4, <1>5, <1>6 DEF MovesAt

\* Every step between a start of the process and its end.
LEMMA Moves ==
    ASSUME DInv, ReliableAdmission, Next, pc # "down", pc' # "down", NEW n \in Msgs
    PROVE  MovesAt(n)
  <1>1. CASE ProcessNext
    <2>1. CASE BootSave
      <3>1. PersistOk /\ UNCHANGED <<phase, result>>
        BY <2>1 DEF BootSave, workers
      <3>. QED
        BY <3>1, MovesSave
    <2>2. CASE RequestShutdown
      BY <2>2, MovesStill DEF RequestShutdown, durables, workers
    <2>. QED
      BY <1>1, <2>1, <2>2 DEF ProcessNext, Restart, BootSaveFails, Crash, Halt, LoseMemory
  <1>. QED
    BY <1>1, FinishMoves, LoopMoves, SubmitMoves, SteerMoves, InlineMoves, WorkerMoves
    DEF Next, MainNext

\* A worker begins only with an origin of the batch.
LEMMA PhaseOpens ==
    ASSUME IInv, Next, NEW n \in Msgs, phase[n] = "idle", phase'[n] # "idle"
    PROVE  pc = "submit" /\ n \in batch
  <1>1. phase \in [Msgs -> Phases]
    BY DEF IInv, TypeOK
  <1>2. CASE ProcessNext
    BY <1>1, <1>2 DEF ProcessNext, Restart, BootSave, BootSaveFails, Crash, RequestShutdown,
       Halt, LoseMemory, workers
  <1>3. CASE FinishNext
    BY <1>1, <1>3 DEF FinishNext, FinishOk, FinishRetry, FinishFail, FinishRejected,
       PostCommitProof, PostCommitRetire, FinishFatal, RejectedSave, FinishRejectedProof,
       FinishSave, FinishDone, TerminateTurn, NoRoomForTurn, Retire, workers
  <1>4. CASE LoopNext
    BY <1>4 DEF LoopNext, ReconcileDone, ReconcileTerminal, ReconcileSave, ReconcileEnd,
       LoopSave, Fetch, FetchSave, Undo, NothingToAdmit, Admit, AdmitSave, workers
  <1>5. CASE SubmitNext
    BY <1>1, <1>5 DEF SubmitNext, SubmitWorker, SubmitFails, SteerDeferred, SteerMark,
       SubmitBroken, SubmitSave, SubmitEnd, Submitting, workers
  <1>6. CASE SteerNext \/ InlineNext
    BY <1>6 DEF SteerNext, SteerSave, AbandonSave, SteerUnmark, SteerUndoSave, SteerRefused,
       SteerAppendFails, SteerDelivered, SteerUncertain, RetireSave, RetireRetry, InlineNext,
       InlineMark, InlineSave, InlineAnswered, InlinePublish, InlineFails, InlineFull, workers
  <1>7. ASSUME NEW m \in Msgs, WorkerNext(m) PROVE phase'[n] = phase[n]
    BY <1>7, BatchWorker DEF IInv
  <1>. QED
    BY <1>2, <1>3, <1>4, <1>5, <1>6, <1>7 DEF Next, MainNext

\* A turn reaches Hermes by StartHermes.
LEMMA StartedMoves ==
    ASSUME IInv, Next, NEW n \in Msgs, started'[n]
    PROVE  started[n] \/ StartHermes(n)
  <1>1. started \in [Msgs -> BOOLEAN]
    BY DEF IInv, TypeOK
  <1>2. CASE ProcessNext
    BY <1>1, <1>2 DEF ProcessNext, Restart, BootSave, BootSaveFails, Crash, RequestShutdown,
       Halt, LoseMemory, workers
  <1>3. CASE FinishNext
    BY <1>1, <1>3 DEF FinishNext, FinishOk, FinishRetry, FinishFail, FinishRejected,
       PostCommitProof, PostCommitRetire, FinishFatal, RejectedSave, FinishRejectedProof,
       FinishSave, FinishDone, TerminateTurn, NoRoomForTurn, Retire, workers
  <1>4. CASE LoopNext
    BY <1>4 DEF LoopNext, ReconcileDone, ReconcileTerminal, ReconcileSave, ReconcileEnd,
       LoopSave, Fetch, FetchSave, Undo, NothingToAdmit, Admit, AdmitSave, workers
  <1>5. CASE SubmitNext
    BY <1>5 DEF SubmitNext, SubmitWorker, SubmitFails, SteerDeferred, SteerMark,
       SubmitBroken, SubmitSave, SubmitEnd, workers
  <1>6. CASE SteerNext \/ InlineNext
    BY <1>6 DEF SteerNext, SteerSave, AbandonSave, SteerUnmark, SteerUndoSave, SteerRefused,
       SteerAppendFails, SteerDelivered, SteerUncertain, RetireSave, RetireRetry, InlineNext,
       InlineMark, InlineSave, InlineAnswered, InlinePublish, InlineFails, InlineFull, workers
  <1>7. ASSUME NEW m \in Msgs, WorkerNext(m) PROVE started[n] \/ StartHermes(n)
    BY <1>1, <1>7 DEF WorkerNext, Begin, PreFails, LocalAnswer, Mark, MarkSave, Register,
       StartFails, StartHermes, HermesEnds, AnswerBlocked, PostAnswer, Publish, PublishSave,
       ErrorNotice, ErrorSave
  <1>. QED
    BY <1>2, <1>3, <1>4, <1>5, <1>6, <1>7 DEF Next, MainNext

-----------------------------------------------------------------------------
(***************************************************************************)
(* The parts of the invariant.                                             *)
(***************************************************************************)
\* No step but Restart leaves "down", and it starts from the file.
LEMMA UpStep ==
    ASSUME DInv, ReliableAdmission, Next, pc = "down"
    PROVE  (Restart \/ pc' = "down") /\ UNCHANGED disk
  <1>1. CASE ProcessNext
    BY <1>1 DEF ProcessNext, Restart, BootSave, BootSaveFails, Crash, RequestShutdown, Halt,
       LoopPcs
  <1>2. ASSUME NEW m \in Msgs, WorkerNext(m) PROVE FALSE
    BY <1>2, WorkerPcs
  <1>3. ~ MainNext
    <2>1. pc \notin BatchPcs
      BY DEF BatchPcs
    <2>. QED
      BY DEF MainNext, FinishNext, FinishOk, FinishRetry, FinishFail, FinishRejected,
         PostCommitProof, PostCommitRetire, FinishFatal, RejectedSave, FinishRejectedProof,
         FinishSave, FinishDone, Finishing, LoopNext, ReconcileDone, ReconcileTerminal,
         ReconcileSave, ReconcileEnd, LoopSave, Fetch, FetchSave, Undo, NothingToAdmit, Admit,
         AdmitSave, SubmitNext, SubmitWorker, SubmitFails, SteerDeferred, SteerMark,
         SubmitBroken, SubmitSave, SubmitEnd, Submitting, SteerNext, SteerSave, AbandonSave,
         SteerUnmark, SteerUndoSave, SteerRefused, SteerAppendFails, SteerDelivered,
         SteerUncertain, RetireSave, RetireRetry, InlineNext, InlineMark, InlineSave,
         InlineAnswered, InlinePublish, InlineFails, InlineFull
  <1>. QED
    BY <1>1, <1>2, <1>3 DEF Next

\* The batch shrinks, and is in memory when it is saved first.
LEMMA BatchMoves ==
    ASSUME DInv, ReliableAdmission, Next, pc' \in BatchPcs
    PROVE  \/ Admit
           \/ /\ pc \in BatchPcs /\ batch' \subseteq batch
              /\ pc' # "admitSave" => pc # "admitSave" \/ disk' = Image(state, seen)
  <1>1. IInv /\ TypeOK
    BY DEF DInv, IInv
  <1>2. CASE ProcessNext
    BY <1>2 DEF ProcessNext, Restart, BootSave, BootSaveFails, Crash, RequestShutdown, Halt,
       LoseMemory, Goto, BatchPcs
  <1>3. CASE FinishNext \/ LoopNext
    BY <1>1, <1>3, BatchElsewhere, PersistFaults DEF AdmitSave, PersistOk, BatchPcs
  <1>4. CASE SubmitNext
    BY <1>4 DEF SubmitNext, SubmitWorker, SubmitFails, SteerDeferred, SteerMark,
       SubmitBroken, SubmitSave, SubmitEnd, Submitting, RetryLater, Defer, ThenSave,
       EndOfBatch, Goto, Fatal, NextIteration, BatchPcs
  <1>5. CASE SteerNext
    BY <1>5 DEF SteerNext, SteerSave, AbandonSave, SteerUnmark, SteerUndoSave, SteerRefused,
       SteerAppendFails, SteerDelivered, SteerUncertain, RetireSave, RetireRetry, RetryLater,
       Defer, ThenSave, Goto, Fatal, NextIteration, mains, BatchPcs
  <1>6. CASE InlineNext
    BY <1>6 DEF InlineNext, InlineMark, InlineSave, InlineAnswered, InlinePublish,
       InlineFails, InlineFull, Submitting, RetryLater, ThenSave, Goto, Fatal, NextIteration,
       BatchPcs
  <1>7. ASSUME NEW m \in Msgs, WorkerNext(m)
        PROVE  pc \in BatchPcs /\ batch' \subseteq batch /\ pc' = pc
    BY <1>7, WorkerPcs DEF mains
  <1>. QED
    BY <1>2, <1>3, <1>4, <1>5, <1>6, <1>7 DEF Next, MainNext

\* Uncertain steering stays idle.
LEMMA UncertainStep ==
    ASSUME DInv, ReliableAdmission, Next
    PROVE  UncertainIsIdle'
  <1>1. IInv /\ TypeOK
    BY DEF DInv, IInv
  <1>2. CASE pc' = "down"
    <2>1. EmptyState.uncertain = {}
      BY DEF EmptyState
    <2>. QED
      BY <1>1, <1>2, <2>1, DownStep DEF UncertainIsIdle, BatchPcs
  <1>3. CASE pc' # "down" /\ pc = "down"
    <2>1. Restart /\ pc' = "boot" /\ UNCHANGED disk
      BY <1>3, UpStep DEF Restart
    <2>2. \A n \in Msgs : phase'[n] = "idle" /\ state'.uncertain = disk.st.uncertain
      BY <1>1, <2>1, RestartEffect
    <2>3. disk.st.uncertain \subseteq Msgs
      BY <1>1 DEF TypeOK, DurableStates
    <2>. QED
      BY <2>1, <2>2, <2>3 DEF UncertainIsIdle, BatchPcs
  <1>4. CASE pc' # "down" /\ pc # "down"
    <2>1. \A n \in Msgs : MovesAt(n)
      BY <1>4, Moves
    <2>2. ASSUME NEW n \in Msgs, n \in state'.uncertain PROVE phase'[n] = "idle"
      <3>1. CASE n \in state.uncertain /\ phase'[n] # "idle"
        <4>1. phase[n] = "idle" /\ (pc \in BatchPcs => n \notin batch)
          BY <3>1 DEF DInv, UncertainIsIdle
        <4>. QED
          BY <1>1, <1>4, <3>1, <4>1, PhaseOpens DEF BatchPcs
      <3>. QED
        BY <2>1, <2>2, <3>1 DEF MovesAt
    <2>3. disk'.st.uncertain \subseteq state'.uncertain
      <3>1. disk.st.uncertain \subseteq state.uncertain
        BY <1>4 DEF DInv, UncertainIsIdle
      <3>2. disk'.st.uncertain \subseteq state.uncertain /\ state.uncertain \subseteq Msgs
        BY <1>1, <3>1, DiskStep DEF Image, TypeOK, DurableStates
      <3>. QED
        BY <2>1, <3>2 DEF MovesAt
    <2>4. ASSUME pc' \in BatchPcs, NEW n \in batch' PROVE n \notin state'.uncertain
      <3>1. n \in Msgs
        BY <1>1, <2>4, BatchStep
      <3>2. n \notin state.uncertain
        <4>1. CASE Admit
          BY <1>1, <2>4, <4>1, AdmitEffect DEF BatchPcs
        <4>2. CASE pc \in BatchPcs /\ n \in batch
          BY <4>2 DEF DInv, UncertainIsIdle
        <4>. QED
          BY <2>4, <4>1, <4>2, BatchMoves
      <3>. QED
        BY <2>1, <2>4, <3>1, <3>2 DEF MovesAt
    <2>. QED
      BY <2>2, <2>3, <2>4 DEF UncertainIsIdle
  <1>. QED
    BY <1>2, <1>3, <1>4

\* The batch stays in the file.
LEMMA SavedStep ==
    ASSUME DInv, ReliableAdmission, Next
    PROVE  BatchIsSaved'
  <1>. SUFFICES ASSUME pc' \in BatchPcs \ {"admitSave"}, NEW n \in batch'
                PROVE  disk'.st.flight[n] # "none"
    BY DEF BatchIsSaved
  <1>1. IInv /\ TypeOK
    BY DEF DInv, IInv
  <1>2. ~ Admit
    BY <1>1, AdmitEffect DEF BatchPcs
  <1>3. /\ pc \in BatchPcs /\ n \in batch
        /\ pc # "admitSave" \/ disk' = Image(state, seen)
    BY <1>2, BatchMoves
  <1>4. state.flight[n] # "none" /\ (pc # "admitSave" => disk.st.flight[n] # "none")
    BY <1>1, <1>3, BatchBefore DEF DInv, BatchIsSaved
  <1>5. UNCHANGED disk \/ disk' = Image(state, seen)
    BY <1>1, DiskStep
  <1>. QED
    BY <1>3, <1>4, <1>5 DEF Image

\* Hermes is started and given the origin in one step.
LEMMA StartedStep ==
    ASSUME DInv, ReliableAdmission, Next
    PROVE  StartedIsFed'
  <1>. SUFFICES ASSUME NEW n \in Msgs, started'[n] PROVE fed'[n] > 0
    BY DEF StartedIsFed
  <1>1. IInv /\ fed \in [Msgs -> 0 .. 2] /\ started \in [Msgs -> BOOLEAN]
    BY DEF DInv, IInv, TypeOK
  <1>2. started[n] \/ StartHermes(n)
    BY <1>1, StartedMoves
  <1>3. CASE started[n]
    BY <1>1, <1>3, FedStep DEF DInv, StartedIsFed
  <1>4. CASE StartHermes(n)
    BY <1>1, <1>4 DEF StartHermes, Feed
  <1>. QED
    BY <1>2, <1>3, <1>4

\* The entry of a turn stays in memory, and in the file.
LEMMA HeldStep ==
    ASSUME DInv, ReliableAdmission, Next
    PROVE  PendingIsHeld' /\ PendingIsDurable'
  <1>1. IInv /\ TypeOK
    BY DEF DInv, IInv
  <1>. SUFFICES ASSUME NEW n \in Msgs, phase'[n] # "idle"
                PROVE  HeldAt(n)' /\ (disk'.st.flight[n] # "none" \/ n \in disk'.seen)
    BY DEF PendingIsHeld, PendingIsDurable, Pending, InFlight, HeldAt
  <1>2. pc' # "down" /\ pc # "down"
    <2>1. pc' # "down"
      BY <1>1, DownStep
    <2>2. CASE pc = "down"
      BY <1>1, <2>1, <2>2, UpStep, RestartEffect
    <2>. QED
      BY <2>1, <2>2
  <1>3. MovesAt(n)
    BY <1>2, Moves
  <1>4. \/ phase[n] # "idle"
        \/ phase[n] = "idle" /\ n \in batch /\ pc = "submit"
    BY <1>1, <1>2, PhaseOpens
  <1>5. UNCHANGED disk \/ disk' = Image(state, seen)
    BY <1>1, DiskStep
  <1>6. state.flight[n] # "none" \/ (n \in seen /\ n \notin state.uncertain)
    <2>1. CASE phase[n] # "idle"
      BY <1>2, <2>1, OriginBefore DEF HeldAt
    <2>2. CASE n \in batch /\ pc = "submit"
      BY <1>1, <2>2, BatchBefore DEF BatchPcs
    <2>. QED
      BY <1>4, <2>1, <2>2
  <1>7. disk.st.flight[n] # "none" \/ n \in disk.seen
    <2>1. CASE phase[n] # "idle"
      BY <2>1 DEF DInv, PendingIsDurable, Pending, InFlight
    <2>2. CASE n \in batch /\ pc = "submit"
      BY <2>2 DEF DInv, BatchIsSaved, BatchPcs
    <2>. QED
      BY <1>4, <2>1, <2>2
  <1>8. disk' = Image(state, seen) => disk'.st = state /\ (n \in seen => n \in disk'.seen \cup state.uncertain)
    BY <1>1, PersistedSeenFacts DEF TypeOK
  <1>. QED
    BY <1>3, <1>5, <1>6, <1>7, <1>8 DEF MovesAt

\* The invariant holds at the start, and every step keeps it.
LEMMA InitDurable == Init => DInv
  <1>. SUFFICES ASSUME Init PROVE DInv
    OBVIOUS
  <1>1. EmptyState.uncertain = {}
    BY DEF EmptyState
  <1>. QED
    BY <1>1, InitInv DEF Init, DInv, UncertainIsIdle, BatchIsSaved, BatchPcs, StartedIsFed,
       PendingIsHeld, HeldAt, PendingIsDurable, Pending

LEMMA StepDurable == ReliableAdmission /\ DInv /\ [Next]_vars => DInv'
  <1>. SUFFICES ASSUME ReliableAdmission, DInv, [Next]_vars PROVE DInv'
    OBVIOUS
  <1>1. IInv'
    BY StepInv DEF DInv
  <1>2. CASE Next
    BY <1>1, <1>2, UncertainStep, SavedStep, StartedStep, HeldStep DEF DInv
  <1>3. CASE UNCHANGED vars
    BY <1>1, <1>3 DEF vars, durables, mains, workers, history, DInv, UncertainIsIdle,
       BatchIsSaved, StartedIsFed, PendingIsHeld, HeldAt, PendingIsDurable, Pending, InFlight
  <1>. QED
    BY <1>2, <1>3

\* While Hermes runs for an origin, and until its turn is over, the file has the
\* mark or the origin is seen there (RunIsRecorded): whatever saves fail without
\* a rollback, and wherever the process dies, the next one does not run it again.
THEOREM RunsAreRecorded ==
    ASSUME ReliableAdmission
    PROVE  Spec => []RunIsRecorded
  <1>1. DInv => RunIsRecorded
    <2>. SUFFICES ASSUME DInv, NEW n \in Msgs, started[n]
                  PROVE  disk.st.flight[n] = "hermes_may_start" \/ n \in disk.seen
      BY DEF RunIsRecorded
    <2>1. Known(disk.st, disk.seen, n)
      BY DEF DInv, IInv, FedIsKnown, StartedIsFed
    <2>2. phase[n] # "idle" /\ pc # "down"
      BY DEF DInv, IInv, WorkersAreStaged, NothingRunsYet
    <2>3. n \notin disk.st.uncertain
      BY <2>2 DEF DInv, UncertainIsIdle
    <2>. QED
      BY <2>1, <2>3 DEF Known
  <1>. QED
    BY <1>1, InitDurable, StepDurable, PTL DEF Spec

-----------------------------------------------------------------------------
(***************************************************************************)
(* A reply is posted once.  The invariant RInv adds to DInv what is left   *)
(* of an origin once something was posted for it: the file and the memory  *)
(* exclude it, and its turn has only to be recorded and retired.           *)
(***************************************************************************)

\* Hermes answers every origin: the bridge answers none by itself.
HermesAnswers == LocalSlash = {}

AnswerIsStarted == \A n \in Msgs : phase[n] \in {"run", "answer"} => started[n]

\* A goal query that the main thread answers is marked, in the file before the POST.
InlineIsMarked ==
    /\ pc \in {"inlineSave", "inline"} => state.flight[target] = "hermes_may_start"
    /\ pc = "inline" => disk.st.flight[target] = "hermes_may_start"

\* The phases of a worker that has nothing to post any more.
PostedPhases == {"idle", "publish", "publishSave", "errorSave", "done"}

PostedAt(n) ==
    posted[n] > 0 =>
        /\ posted[n] = 1
        /\ Known(disk.st, disk.seen, n)
        /\ pc # "down" => Known(state, seen, n)
        /\ phase[n] \in PostedPhases
        /\ result[n] \notin {"retry", "rejected"}
        /\ pc \in BatchPcs /\ n \in batch => pc = "inlinePublish" /\ n = target

PostedIsKnown == \A n \in Msgs : PostedAt(n)

RInv ==
    /\ DInv
    /\ AnswerIsStarted
    /\ InlineIsMarked
    /\ PostedIsKnown

-----------------------------------------------------------------------------
(***************************************************************************)
(* What a step does to a worker, and to what was posted.                   *)
(***************************************************************************)
\* A worker that has posted only goes on to its end.
LEMMA WorkerEnds ==
    ASSUME IInv, Next, NEW n \in Msgs, phase[n] \in PostedPhases,
           result[n] \notin {"retry", "rejected"}
    PROVE  /\ phase'[n] \in PostedPhases \/ (pc = "submit" /\ n \in batch)
           /\ result'[n] \notin {"retry", "rejected"}
  <1>1. phase \in [Msgs -> Phases] /\ result \in [Msgs -> Results]
    BY DEF IInv, TypeOK
  <1>2. CASE ProcessNext
    BY <1>1, <1>2 DEF ProcessNext, Restart, BootSave, BootSaveFails, Crash, RequestShutdown,
       Halt, LoseMemory, workers, PostedPhases
  <1>3. CASE FinishNext
    BY <1>1, <1>3 DEF FinishNext, FinishOk, FinishRetry, FinishFail, FinishRejected,
       PostCommitProof, PostCommitRetire, FinishFatal, RejectedSave, FinishRejectedProof,
       FinishSave, FinishDone, TerminateTurn, NoRoomForTurn, Retire, workers, PostedPhases
  <1>4. CASE LoopNext
    BY <1>4 DEF LoopNext, ReconcileDone, ReconcileTerminal, ReconcileSave, ReconcileEnd,
       LoopSave, Fetch, FetchSave, Undo, NothingToAdmit, Admit, AdmitSave, workers
  <1>5. CASE SubmitNext
    BY <1>1, <1>5 DEF SubmitNext, SubmitWorker, SubmitFails, SteerDeferred, SteerMark,
       SubmitBroken, SubmitSave, SubmitEnd, Submitting, workers
  <1>6. CASE SteerNext \/ InlineNext
    BY <1>6 DEF SteerNext, SteerSave, AbandonSave, SteerUnmark, SteerUndoSave, SteerRefused,
       SteerAppendFails, SteerDelivered, SteerUncertain, RetireSave, RetireRetry, InlineNext,
       InlineMark, InlineSave, InlineAnswered, InlinePublish, InlineFails, InlineFull, workers
  <1>7. ASSUME NEW m \in Msgs, WorkerNext(m)
        PROVE  phase'[n] \in PostedPhases /\ result'[n] \notin {"retry", "rejected"}
    BY <1>1, <1>7 DEF WorkerNext, Begin, PreFails, LocalAnswer, Mark, MarkSave, Register,
       StartFails, StartHermes, HermesEnds, AnswerBlocked, PostAnswer, Publish, PublishSave,
       ErrorNotice, ErrorSave, Working, Advance, End, PostedPhases
  <1>. QED
    BY <1>2, <1>3, <1>4, <1>5, <1>6, <1>7 DEF Next, MainNext

\* Something is posted by a worker at its POST, or by the main thread.
LEMMA PostStep ==
    ASSUME IInv, Next, NEW n \in Msgs, posted'[n] # posted[n]
    PROVE  /\ posted'[n] = IF posted[n] < 2 THEN posted[n] + 1 ELSE posted[n]
           /\ \/ PostAnswer(n)
              \/ ErrorNotice(n) /\ started[n]
              \/ n = target /\ (InlineAnswered \/ InlineFails)
  <1>1. posted \in [Msgs -> 0 .. 2]
    BY DEF IInv, TypeOK
  <1>2. CASE ProcessNext
    BY <1>2 DEF ProcessNext, Restart, BootSave, BootSaveFails, Crash, RequestShutdown,
       Halt, LoseMemory, history
  <1>3. CASE FinishNext
    BY <1>3 DEF FinishNext, FinishOk, FinishRetry, FinishFail, FinishRejected,
       PostCommitProof, PostCommitRetire, FinishFatal, RejectedSave, FinishRejectedProof,
       FinishSave, FinishDone, history
  <1>4. CASE LoopNext
    BY <1>4 DEF LoopNext, ReconcileDone, ReconcileTerminal, ReconcileSave, ReconcileEnd,
       LoopSave, Fetch, FetchSave, Undo, NothingToAdmit, Admit, AdmitSave, history
  <1>5. CASE SubmitNext
    BY <1>5 DEF SubmitNext, SubmitWorker, SubmitFails, SteerDeferred, SteerMark,
       SubmitBroken, SubmitSave, SubmitEnd, history
  <1>6. CASE SteerNext
    BY <1>6 DEF SteerNext, SteerSave, AbandonSave, SteerUnmark, SteerUndoSave, SteerRefused,
       SteerAppendFails, SteerDelivered, SteerUncertain, RetireSave, RetireRetry, history
  <1>7. CASE InlineNext
    BY <1>1, <1>7 DEF InlineNext, InlineMark, InlineSave, InlineAnswered, InlinePublish,
       InlineFails, InlineFull, Post, history
  <1>8. ASSUME NEW m \in Msgs, WorkerNext(m)
        PROVE  /\ posted'[n] = IF posted[n] < 2 THEN posted[n] + 1 ELSE posted[n]
               /\ PostAnswer(n) \/ (ErrorNotice(n) /\ started[n])
    <2>1. PostAnswer(m) \/ ErrorNotice(m)
      BY <1>8 DEF WorkerNext, Begin, PreFails, LocalAnswer, Mark, MarkSave, Register,
         StartFails, StartHermes, HermesEnds, AnswerBlocked, Publish, PublishSave,
         ErrorSave, history
    <2>2. Post(m) /\ (ErrorNotice(m) => started[m])
      BY <2>1 DEF PostAnswer, ErrorNotice, Notice
    <2>. QED
      BY <1>1, <2>1, <2>2 DEF Post
  <1>. QED
    BY <1>2, <1>3, <1>4, <1>5, <1>6, <1>7, <1>8 DEF Next, MainNext

-----------------------------------------------------------------------------
(***************************************************************************)
(* The parts of the invariant.                                             *)
(***************************************************************************)
\* A turn that ran was started, as Hermes answers every origin.
LEMMA AnswerStep ==
    ASSUME RInv, ReliableAdmission, HermesAnswers, Next
    PROVE  AnswerIsStarted'
  <1>1. phase \in [Msgs -> Phases] /\ started \in [Msgs -> BOOLEAN] /\ IInv
    BY DEF RInv, DInv, IInv, TypeOK
  <1>. SUFFICES ASSUME NEW n \in Msgs, phase'[n] \in {"run", "answer"} PROVE started'[n]
    BY DEF AnswerIsStarted
  <1>2. phase[n] \in {"run", "answer"} => started[n]
    BY DEF RInv, AnswerIsStarted
  <1>3. CASE ProcessNext
    BY <1>1, <1>2, <1>3 DEF ProcessNext, Restart, BootSave, BootSaveFails, Crash,
       RequestShutdown, Halt, LoseMemory, workers
  <1>4. CASE FinishNext
    BY <1>1, <1>2, <1>4 DEF FinishNext, FinishOk, FinishRetry, FinishFail, FinishRejected,
       PostCommitProof, PostCommitRetire, FinishFatal, RejectedSave, FinishRejectedProof,
       FinishSave, FinishDone, TerminateTurn, NoRoomForTurn, Retire, workers
  <1>5. CASE LoopNext
    BY <1>2, <1>5 DEF LoopNext, ReconcileDone, ReconcileTerminal, ReconcileSave, ReconcileEnd,
       LoopSave, Fetch, FetchSave, Undo, NothingToAdmit, Admit, AdmitSave, workers
  <1>6. CASE SubmitNext
    BY <1>1, <1>2, <1>6 DEF SubmitNext, SubmitWorker, SubmitFails, SteerDeferred, SteerMark,
       SubmitBroken, SubmitSave, SubmitEnd, workers
  <1>7. CASE SteerNext \/ InlineNext
    BY <1>2, <1>7 DEF SteerNext, SteerSave, AbandonSave, SteerUnmark, SteerUndoSave,
       SteerRefused, SteerAppendFails, SteerDelivered, SteerUncertain, RetireSave, RetireRetry,
       InlineNext, InlineMark, InlineSave, InlineAnswered, InlinePublish, InlineFails,
       InlineFull, workers
  <1>8. ASSUME NEW m \in Msgs, WorkerNext(m) PROVE started'[n]
    BY <1>1, <1>2, <1>8 DEF WorkerNext, Begin, PreFails, LocalAnswer, Mark, MarkSave, Register,
       StartFails, StartHermes, HermesEnds, AnswerBlocked, PostAnswer, Publish, PublishSave,
       ErrorNotice, ErrorSave, Working, Advance, End, HermesAnswers
  <1>. QED
    BY <1>3, <1>4, <1>5, <1>6, <1>7, <1>8 DEF Next, MainNext

\* Only the main thread moves on the way of a goal query, and a worker leaves its
\* entry alone.
LEMMA InlineReached ==
    ASSUME IInv, ReliableAdmission, Next, pc' \in {"inlineSave", "inline", "inlinePublish"}
    PROVE  \/ InlineNext
           \/ \E m \in Msgs : WorkerNext(m) /\ UNCHANGED mains
  <1>1. CASE ProcessNext
    BY <1>1 DEF ProcessNext, Restart, BootSave, BootSaveFails, Crash, RequestShutdown, Halt,
       LoseMemory, Goto
  <1>2. CASE FinishNext \/ LoopNext
    <2>1. Admit \/ AdmitSave
      BY <1>2, BatchElsewhere DEF BatchPcs
    <2>. QED
      BY <2>1, AdmitEffect DEF IInv, AdmitSave, Goto
  <1>3. CASE SubmitNext
    BY <1>3 DEF SubmitNext, SubmitWorker, SubmitFails, SteerDeferred, SteerMark,
       SubmitBroken, SubmitSave, SubmitEnd, Submitting, RetryLater, Defer, ThenSave,
       EndOfBatch, Goto, Fatal, NextIteration
  <1>4. CASE SteerNext
    BY <1>4 DEF SteerNext, SteerSave, AbandonSave, SteerUnmark, SteerUndoSave, SteerRefused,
       SteerAppendFails, SteerDelivered, SteerUncertain, RetireSave, RetireRetry, RetryLater,
       Defer, ThenSave, Goto, Fatal, NextIteration, mains
  <1>5. ASSUME NEW m \in Msgs, WorkerNext(m) PROVE UNCHANGED mains
    BY <1>5, WorkerPcs
  <1>. QED
    BY <1>1, <1>2, <1>3, <1>4, <1>5 DEF Next, MainNext

\* The mark of a goal query is set, and saved before its answer.
LEMMA InlineStep ==
    ASSUME IInv, InlineIsMarked, ReliableAdmission, Next
    PROVE  InlineIsMarked'
  <1>1. IInv /\ TypeOK
    BY DEF IInv
  <1>. SUFFICES ASSUME pc' \in {"inlineSave", "inline"}
                PROVE  /\ state'.flight[target'] = "hermes_may_start"
                       /\ pc' = "inline" => disk'.st.flight[target'] = "hermes_may_start"
    BY DEF InlineIsMarked
  <1>2. CASE InlineNext
    <2>1. CASE \E m \in Msgs : InlineMark(m)
      BY <1>1, <2>1 DEF InlineMark, MarkMayStart, WithStage, TypeOK, DurableStates
    <2>2. CASE InlineSave
      BY <2>2 DEF InlineIsMarked, InlineSave, PersistOk, Goto, Image, NextIteration
    <2>3. CASE InlineAnswered \/ InlinePublish \/ InlineFails \/ InlineFull
      BY <2>3 DEF InlineAnswered, InlinePublish, InlineFails, InlineFull, RetryLater, ThenSave,
         Goto, Fatal
    <2>. QED
      BY <1>2, <2>1, <2>2, <2>3 DEF InlineNext
  <1>3. ASSUME NEW m \in Msgs, WorkerNext(m), UNCHANGED mains
        PROVE  /\ state'.flight[target'] = "hermes_may_start"
               /\ pc' = "inline" => disk'.st.flight[target'] = "hermes_may_start"
    <2>1. pc' = pc /\ target' = target
      BY <1>3 DEF mains
    <2>2. target \in batch
      BY <1>1, <2>1 DEF IInv, BatchIsFresh, BatchTargetPcs
    <2>3. target \in Msgs /\ phase[target] = "idle"
      BY <1>1, <2>1, <2>2, BatchBefore DEF BatchPcs
    <2>4. state'.flight[target] = state.flight[target]
      BY <1>1, <1>3, <2>3, BatchWorker
    <2>. QED
      BY <1>1, <2>1, <2>4, DiskStep DEF InlineIsMarked, Image
  <1>. QED
    BY <1>1, <1>2, <1>3, InlineReached

\* What is posted is posted for the first time.
LEMMA PostedFirst ==
    ASSUME RInv, ReliableAdmission, Next, NEW n \in Msgs, posted'[n] # posted[n]
    PROVE  PostedAt(n)'
  <1>1. IInv /\ TypeOK /\ DInv
    BY DEF RInv, DInv, IInv
  <1>2. posted \in [Msgs -> 0 .. 2] /\ phase \in [Msgs -> Phases] /\ result \in [Msgs -> Results]
    BY <1>1 DEF TypeOK
  <1>3. PostedAt(n)
    BY DEF RInv, PostedIsKnown
  <1>4. CASE PostAnswer(n) \/ (ErrorNotice(n) /\ started[n])
    <2>1. phase[n] \in {"answer", "error"} /\ pc \notin {"down", "boot"} /\ started[n]
      BY <1>4 DEF PostAnswer, ErrorNotice, Working, Up, RInv, AnswerIsStarted
    <2>2. posted[n] = 0
      BY <1>2, <1>3, <2>1 DEF PostedAt, PostedPhases
    <2>3. Known(disk.st, disk.seen, n) /\ Known(state, seen, n)
      BY <1>1, <2>1 DEF DInv, StartedIsFed, IInv, FedIsKnown
    <2>4. UNCHANGED <<disk, seen, pc, batch>> /\ state'.flight = state.flight
          /\ state'.uncertain = state.uncertain
      BY <1>1, <1>4 DEF PostAnswer, ErrorNotice, durables, mains, TypeOK, DurableStates
    <2>5. /\ phase'[n] \in {"publish", "errorSave", "done"}
          /\ result'[n] \notin {"retry", "rejected"}
      <3>1. result[n] = "none"
        BY <1>1, <2>1, EntryBefore
      <3>2. posted'[n] # posted[n]
        OBVIOUS
      <3>3. CASE PostAnswer(n)
        BY <1>2, <3>1, <3>2, <3>3 DEF PostAnswer, Advance, End
      <3>4. CASE ErrorNotice(n)
        BY <1>2, <3>1, <3>2, <3>4 DEF ErrorNotice, Advance, End
      <3>. QED
        BY <1>4, <3>3, <3>4
    <2>6. pc \in BatchPcs => n \notin batch
      BY <1>1, <2>1, BatchBefore
    <2>7. posted'[n] = 1
      BY <1>1, <2>2, PostStep
    <2>. QED
      BY <2>3, <2>4, <2>5, <2>6, <2>7 DEF PostedAt, PostedPhases, Known
  <1>5. CASE n = target /\ (InlineAnswered \/ InlineFails)
    <2>1. pc = "inline"
      BY <1>5 DEF InlineAnswered, InlineFails
    <2>2. n \in batch /\ phase[n] = "idle" /\ result[n] = "none"
      <3>1. n \in batch
        BY <1>1, <1>5, <2>1 DEF IInv, BatchIsFresh, BatchTargetPcs
      <3>2. phase[n] = "idle"
        BY <1>1, <2>1, <3>1, BatchBefore DEF BatchPcs
      <3>. QED
        BY <1>1, <2>1, <3>1, <3>2, EntryBefore
    <2>3. posted[n] = 0
      BY <1>2, <1>3, <2>1, <2>2 DEF PostedAt, BatchPcs
    <2>4. /\ state.flight[n] = "hermes_may_start"
          /\ disk.st.flight[n] = "hermes_may_start"
      BY <1>5, <2>1 DEF RInv, InlineIsMarked
    <2>5. posted'[n] = 1
      BY <1>1, <2>3, PostStep
    <2>6. UNCHANGED <<disk, phase, result>>
      BY <1>5 DEF InlineAnswered, InlineFails, workers
    <2>7. CASE InlineAnswered
      BY <1>1, <1>5, <2>2, <2>4, <2>5, <2>6, <2>7
         DEF InlineAnswered, Goto, PostedAt, PostedPhases, Known, TypeOK, DurableStates
    <2>8. CASE InlineFails
      <3>1. n \in seen' /\ batch' = batch \ {n} /\ posted'[n] # posted[n]
        BY <1>5, <2>8 DEF InlineFails, ThenSave
      <3>. QED
        BY <2>2, <2>4, <2>5, <2>6, <3>1 DEF PostedAt, PostedPhases, Known
    <2>. QED
      BY <1>5, <2>7, <2>8
  <1>. QED
    BY <1>1, <1>4, <1>5, PostStep

\* The publication of an inline answer is left by InlinePublish.
LEMMA PublishMoves ==
    ASSUME IInv, Next, pc = "inlinePublish", pc' \in BatchPcs
    PROVE  InlinePublish \/ UNCHANGED mains
  <1>1. CASE ProcessNext
    BY <1>1 DEF ProcessNext, Restart, BootSave, BootSaveFails, Crash, RequestShutdown, Halt,
       LoseMemory, BatchPcs
  <1>2. CASE FinishNext
    BY <1>2 DEF FinishNext, FinishOk, FinishRetry, FinishFail, FinishRejected, PostCommitProof,
       PostCommitRetire, FinishFatal, RejectedSave, FinishRejectedProof, FinishSave, FinishDone,
       Finishing
  <1>3. CASE LoopNext
    BY <1>3 DEF LoopNext, ReconcileDone, ReconcileTerminal, ReconcileSave, ReconcileEnd,
       LoopSave, Fetch, FetchSave, Undo, NothingToAdmit, Admit, AdmitSave, mains
  <1>4. CASE SubmitNext
    BY <1>4 DEF SubmitNext, SubmitWorker, SubmitFails, SteerDeferred, SteerMark,
       SubmitBroken, SubmitSave, SubmitEnd, Submitting
  <1>5. CASE SteerNext
    BY <1>5 DEF SteerNext, SteerSave, AbandonSave, SteerUnmark, SteerUndoSave, SteerRefused,
       SteerAppendFails, SteerDelivered, SteerUncertain, RetireSave, RetireRetry
  <1>6. CASE InlineNext
    BY <1>6 DEF InlineNext, InlineMark, InlineSave, InlineAnswered, InlineFails, InlineFull,
       Submitting
  <1>7. ASSUME NEW m \in Msgs, WorkerNext(m) PROVE UNCHANGED mains
    BY <1>7, WorkerPcs
  <1>. QED
    BY <1>1, <1>2, <1>3, <1>4, <1>5, <1>6, <1>7 DEF Next, MainNext

\* An origin that was posted stays known.
LEMMA PostedStays ==
    ASSUME RInv, ReliableAdmission, Next, NEW n \in Msgs, posted'[n] = posted[n]
    PROVE  PostedAt(n)'
  <1>1. IInv /\ TypeOK /\ DInv
    BY DEF RInv, DInv, IInv
  <1>. SUFFICES ASSUME posted[n] > 0
                PROVE  /\ posted'[n] = 1
                       /\ Known(disk'.st, disk'.seen, n)
                       /\ pc' # "down" => Known(state', seen', n)
                       /\ phase'[n] \in PostedPhases
                       /\ result'[n] \notin {"retry", "rejected"}
                       /\ pc' \in BatchPcs /\ n \in batch' => pc' = "inlinePublish" /\ n = target'
    BY DEF PostedAt, Known
  <1>2. /\ posted[n] = 1
        /\ Known(disk.st, disk.seen, n)
        /\ pc # "down" => Known(state, seen, n)
        /\ phase[n] \in PostedPhases
        /\ result[n] \notin {"retry", "rejected"}
        /\ pc \in BatchPcs /\ n \in batch => pc = "inlinePublish" /\ n = target
    BY DEF RInv, PostedIsKnown, PostedAt
  <1>3. Known(disk'.st, disk'.seen, n)
    BY <1>1, <1>2, DiskKnows
  <1>4. ASSUME pc' # "down" PROVE Known(state', seen', n)
    <2>1. CASE pc = "down"
      BY <1>1, <1>2, <1>4, <2>1, UpStep, RestartEffect
    <2>2. CASE pc # "down"
      <3>1. ~ Forgettable(n)
        BY <1>2 DEF Forgettable
      <3>. QED
        BY <1>1, <1>2, <1>4, <2>2, <3>1, Moves DEF MovesAt
    <2>. QED
      BY <2>1, <2>2
  <1>5. phase'[n] \in PostedPhases /\ result'[n] \notin {"retry", "rejected"}
    BY <1>1, <1>2, WorkerEnds DEF BatchPcs
  <1>6. ASSUME pc' \in BatchPcs, n \in batch'
        PROVE  pc' = "inlinePublish" /\ n = target'
    <2>1. ~ Admit
      <3>1. SUFFICES ASSUME Admit PROVE FALSE
        OBVIOUS
      <3>2. pc = "admit" /\ pc' = "admitSave"
        BY <1>1, <1>6, <3>1, AdmitEffect DEF BatchPcs
      <3>3. n \notin seen /\ n \notin InFlight(state) /\ n \notin state.uncertain
        BY <1>1, <1>6, <3>1, <3>2, AdmitEffect
      <3>. QED
        BY <1>2, <3>2, <3>3 DEF Known, InFlight
    <2>2. pc = "inlinePublish" /\ n = target
      BY <1>1, <1>2, <1>6, <2>1, BatchMoves
    <2>3. InlinePublish \/ UNCHANGED mains
      BY <1>1, <1>6, <2>2, PublishMoves
    <2>. QED
      BY <1>6, <2>2, <2>3 DEF InlinePublish, ThenSave, mains
  <1>. QED
    BY <1>2, <1>3, <1>4, <1>5, <1>6

LEMMA InitReply == Init => RInv
  <1>. SUFFICES ASSUME Init PROVE RInv
    OBVIOUS
  <1>1. DInv
    BY InitDurable
  <1>. QED
    BY <1>1 DEF Init, RInv, AnswerIsStarted, InlineIsMarked, PostedIsKnown, PostedAt

LEMMA StepReply == ReliableAdmission /\ HermesAnswers /\ RInv /\ [Next]_vars => RInv'
  <1>. SUFFICES ASSUME ReliableAdmission, HermesAnswers, RInv, [Next]_vars PROVE RInv'
    OBVIOUS
  <1>1. DInv'
    BY StepDurable DEF RInv
  <1>2. CASE Next
    <2>1. \A n \in Msgs : PostedAt(n)'
      BY <1>2, PostedFirst, PostedStays
    <2>2. IInv
      BY DEF RInv, DInv
    <2>3. InlineIsMarked'
      BY <1>2, <2>2, InlineStep DEF RInv
    <2>. QED
      BY <1>1, <1>2, <2>1, <2>3, AnswerStep DEF RInv, PostedIsKnown
  <1>3. CASE UNCHANGED vars
    BY <1>1, <1>3 DEF vars, durables, mains, workers, history, RInv, AnswerIsStarted,
       InlineIsMarked, PostedIsKnown, PostedAt, Known
  <1>. QED
    BY <1>2, <1>3

\* Of an origin at most one execution posts a reply (ReplyAtMostOnce), for all
\* origins, limits, crashes and failed saves but those that lead to a rollback
\* (ReliableAdmission), when the bridge answers no slash command by itself.
THEOREM ReplyOnce ==
    ASSUME ReliableAdmission, HermesAnswers
    PROVE  Spec => []ReplyAtMostOnce
  <1>1. RInv => ReplyAtMostOnce
    <2>. SUFFICES ASSUME RInv, NEW n \in Msgs PROVE posted[n] <= 1
      BY DEF ReplyAtMostOnce
    <2>1. posted[n] \in 0 .. 2
      BY DEF RInv, DInv, IInv, TypeOK
    <2>. QED
      BY <2>1 DEF RInv, PostedIsKnown, PostedAt
  <1>. QED
    BY <1>1, InitReply, StepReply, PTL DEF Spec

-----------------------------------------------------------------------------
(***************************************************************************)
(* Nothing that the file holds is lost.  The invariant KInv adds to DInv   *)
(* what the queues, the seen identifiers, the dead letters and the jobs of *)
(* one origin have to do with each other, in memory and between the memory *)
(* and the file.                                                           *)
(***************************************************************************)

(***************************************************************************)
(* The invariant.                                                          *)
(***************************************************************************)
\* The answer of n was posted by the main thread and is being published.
Inlining(n) == pc = "inlinePublish" /\ n = target

\* Nothing was recorded of n yet: its turn has not come to its answer, or is
\* retried, or it still waits in the batch.
Unspent(n) ==
    \/ phase[n] \notin PostedPhases
    \/ result[n] = "retry"
    \/ pc \in BatchPcs /\ n \in batch /\ ~ Inlining(n)

\* So it is with an answer that Zulip refused, but for its recovery.
Unanswered(n) == Unspent(n) \/ result[n] = "rejected"

\* A trace of n in a durable state and the seen identifiers.
Held(st, sn, n) == n \in st.retries \/ st.flight[n] # "none" \/ n \in sn \/ n \in st.dead

\* The traces of one origin in memory agree.
RecordOK(n) ==
    /\ Unanswered(n) => n \notin seen /\ n \notin state.jobs
    /\ Unspent(n) => n \notin state.dead
    /\ n \in state.jobs =>
        /\ n \notin state.uncertain
        /\ n \in seen \/ phase[n] # "idle" \/ state.flight[n] = "hermes_may_start"
    /\ n \in state.uncertain => n \in state.dead
    /\ pc # "boot" /\ n \in state.dead /\ n \notin state.uncertain
          => n \in seen \/ result[n] = "rejected"
    /\ result[n] = "retire" => n \in seen

\* The first save of an execution finds the in-flight table empty.
BootIsEmpty == pc = "boot" => \A n \in Msgs : state.flight[n] = "none"

RetireIsReached == pc = "retireTurn" => result[target] = "retire"

\* The traces of one origin in the file agree, and the memory has them all.
FileOK(n) ==
    /\ n \in disk.st.jobs => n \notin disk.st.uncertain /\ n \in disk.seen
    /\ n \in disk.st.uncertain => n \in disk.st.dead /\ n \notin disk.seen

MemoryOK(n) ==
    /\ n \in disk.seen => n \in seen \/ n \in state.uncertain
    /\ n \in disk.st.dead => n \in state.dead
    /\ n \in disk.st.lost => n \in state.lost
    /\ Held(disk.st, disk.seen, n) => Held(state, seen, n)

KInv ==
    /\ DInv
    /\ InlineIsMarked
    /\ BootIsEmpty
    /\ RetireIsReached
    /\ \A n \in Msgs : FileOK(n)
    /\ pc # "down" => \A n \in Msgs : RecordOK(n) /\ MemoryOK(n)

-----------------------------------------------------------------------------
(***************************************************************************)
(* What a step does to the traces of an origin in memory.                  *)
(***************************************************************************)
\* Nothing is taken away but what uncertain steering was seen as, and what is
\* added is added to an origin that is answered before the step or after it.
Answered(n) == ~ Unanswered(n) \/ ~ Unanswered(n)'
Spent(n) == ~ Unspent(n) \/ ~ Unspent(n)'

RecordMoves(n) ==
    /\ n \in seen => n \in seen' \/ n \in state'.uncertain
    /\ n \in seen' => n \in seen \/ Answered(n)
    /\ n \in state.dead => n \in state'.dead
    /\ n \in state'.dead =>
        \/ n \in state.dead
        \/ Spent(n) /\ (n \in seen' \/ n \in state'.uncertain \/ result'[n] = "rejected")
    /\ n \in state.lost => n \in state'.lost
    /\ n \in state'.jobs =>
        \/ n \in state.jobs
        \/ /\ Answered(n) /\ n \notin state'.uncertain
           /\ phase'[n] # "idle" \/ state'.flight[n] = "hermes_may_start"
    /\ n \in state'.uncertain => n \in state.uncertain \/ (Unspent(n) /\ n \in state'.dead)
    /\ Held(state, seen, n) => Held(state', seen', n)
    /\ phase[n] # "idle" /\ phase'[n] = "idle" => n \in seen' \/ result[n] = "retry"

\* The dead letters and jobs of n are as before.
LettersKept(n) ==
    /\ n \in state'.dead <=> n \in state.dead
    /\ n \in state'.lost <=> n \in state.lost
    /\ n \in state'.jobs => n \in state.jobs
    /\ n \in state'.uncertain <=> n \in state.uncertain

\* What the invariant says of the origin before the step.
LEMMA RecordBefore ==
    ASSUME KInv, pc # "down", NEW n \in Msgs
    PROVE  /\ RecordOK(n)
           /\ HeldAt(n)
           /\ n \in state.uncertain => phase[n] = "idle"
           /\ pc \in BatchPcs /\ n \in batch => phase[n] = "idle" /\ n \notin state.uncertain
           /\ phase[n] # "done" => result[n] = "none"
           /\ state.flight[n] \in {"none", "admitted", "hermes_may_start"}
           /\ n \in state.retries => state.flight[n] = "none"
           /\ steerOf[n] # NoMsg => phase[n] = "idle" /\ (pc \in BatchPcs => n \notin batch)
           /\ phase[n] \in Phases /\ result[n] \in Results
  <1>1. DInv /\ IInv
    BY DEF KInv, DInv
  <1>2. /\ RecordOK(n)
        /\ HeldAt(n)
        /\ n \in state.uncertain => phase[n] = "idle"
    BY <1>1, OriginBefore DEF KInv
  <1>3. /\ phase[n] # "done" => result[n] = "none"
        /\ state.flight[n] \in {"none", "admitted", "hermes_may_start"}
        /\ n \in state.retries => state.flight[n] = "none"
        /\ steerOf[n] # NoMsg => phase[n] = "idle"
        /\ phase[n] \in Phases /\ result[n] \in Results
    BY <1>1, EntryBefore DEF EntryOK
  <1>4. pc \in BatchPcs /\ n \in batch =>
          phase[n] = "idle" /\ n \notin state.uncertain /\ steerOf[n] = NoMsg
    BY <1>1, BatchBefore DEF DInv, UncertainIsIdle
  <1>. QED
    BY <1>2, <1>3, <1>4

\* Where nothing about an origin changes, its traces stay.
LEMMA RecordStays ==
    ASSUME KInv, pc # "down", NEW n \in Msgs, Kept(n), LettersKept(n),
           n \in seen' <=> n \in seen,
           phase[n] # "idle" => phase'[n] # "idle"
    PROVE  RecordMoves(n)
  BY DEF RecordMoves, Kept, LettersKept, Held

LEMMA RecordStill ==
    ASSUME KInv, pc # "down", NEW n \in Msgs, UNCHANGED <<state, seen>>,
           phase[n] # "idle" => phase'[n] # "idle"
    PROVE  RecordMoves(n)
  BY RecordStays DEF Kept, LettersKept

\* A save adds to the seen identifiers what is answered or dead.
LEMMA RecordSave ==
    ASSUME KInv, pc # "down", NEW n \in Msgs,
           state' = state, seen' = PersistedSeen(state, seen),
           phase[n] # "idle" => phase'[n] # "idle" \/ n \in seen
    PROVE  RecordMoves(n)
  <1>1. /\ RecordOK(n) /\ HeldAt(n) /\ (n \in state.uncertain => phase[n] = "idle")
        /\ phase[n] # "done" => result[n] = "none"
    BY RecordBefore
  <1>2. n \in seen' <=> \/ n \in seen /\ n \notin state.uncertain
                        \/ n \in state.jobs
                        \/ n \in state.dead /\ n \notin state.uncertain /\ state.flight[n] = "none"
    BY DEF PersistedSeen
  <1>3. n \in seen' => n \in seen \/ ~ Unanswered(n)
    <2>. SUFFICES ASSUME n \in seen', n \notin seen, Unanswered(n) PROVE FALSE
      OBVIOUS
    <2>1. n \notin state.jobs /\ ~ Unspent(n)
      BY <1>1, <1>2 DEF RecordOK
    <2>2. result[n] = "rejected" /\ state.flight[n] = "none"
      BY <1>2, <2>1 DEF Unanswered
    <2>. QED
      BY <1>1, <2>2 DEF HeldAt
  <1>. QED
    BY <1>1, <1>2, <1>3 DEF RecordMoves, Answered, Held, RecordOK

\* Once it is over an origin is not Unspent.
LEMMA Closed ==
    ASSUME NEW n \in Msgs, phase'[n] \in PostedPhases, result'[n] \notin {"retry", "rejected"},
           pc' \in BatchPcs => n \notin batch' \/ (pc' = "inlinePublish" /\ n = target')
    PROVE  Answered(n) /\ Spent(n)
  BY DEF Answered, Spent, Unanswered, Unspent, Inlining

-----------------------------------------------------------------------------
(***************************************************************************)
(* finish_pending.                                                         *)
(***************************************************************************)
\* An origin leaves with a turn: it is seen, or goes back to the retry queue.
LEMMA TurnEnds ==
    ASSUME KInv, pc # "down", NEW m \in Msgs, Retire(m), pc' \notin BatchPcs,
           NEW n \in {m} \cup SteeringOf(m),
           UNCHANGED <<state.uncertain, state.lost, state.jobs>>,
           n \in seen => n \in seen',
           n \in state.dead => n \in state'.dead,
           n \in state'.dead => n \in state.dead \/ n \in seen',
           Held(state, seen, n) => Held(state', seen', n),
           n = m => n \in seen' \/ result[n] = "retry"
    PROVE  RecordMoves(n)
  <1>1. TypeOK /\ IInv /\ n \in Msgs
    BY OriginSets DEF KInv, DInv, IInv, TypeOK
  <1>2. phase'[n] = "idle" /\ result'[n] = "none" /\ (n # m => phase[n] = "idle")
    <2>1. CASE n = m
      BY <1>1, <2>1 DEF Retire, TypeOK
    <2>2. CASE n # m
      <3>1. phase[n] = "idle" /\ result[n] = "none"
        BY <1>1, <2>2, SteeringIsIdle, RecordBefore
      <3>. QED
        BY <1>1, <2>2, <3>1, RetireEffect
    <2>. QED
      BY <2>1, <2>2
  <1>3. Answered(n) /\ Spent(n)
    BY <1>1, <1>2, Closed DEF PostedPhases
  <1>. QED
    BY <1>2, <1>3 DEF RecordMoves

\* The other origins keep their traces.
LEMMA TurnSpares ==
    ASSUME KInv, pc # "down", NEW m \in Msgs, Retire(m), NEW n \in Msgs \ {m},
           Kept(n), LettersKept(n), n \in seen' <=> n \in seen
    PROVE  RecordMoves(n)
  <1>1. phase'[n] = phase[n]
    BY RetireEffect DEF KInv, DInv, IInv
  <1>. QED
    BY <1>1, RecordStays

\* A terminal turn: what Hermes may have read becomes a dead letter and is seen.
LEMMA TerminateRecord ==
    ASSUME KInv, pc # "down", NEW m \in Msgs, TerminateTurn(m), Retire(m) \/ Retiring(m),
           pc' \notin BatchPcs, NEW n \in Msgs
    PROVE  RecordMoves(n)
  <1>. DEFINE read == {m} \cup (SteeringOf(m) \cap MayStart(state))
              t == Terminalize(state, read)
  <1>1. TypeOK /\ state \in DurableStates /\ read \in SUBSET Msgs /\ SteeringOf(m) \in SUBSET Msgs
    BY OriginSets DEF KInv, DInv, IInv, TypeOK
  <1>2. /\ t \in DurableStates
        /\ \A k \in Msgs : t.flight[k] = IF k \in read THEN "none" ELSE state.flight[k]
        /\ t.retries = state.retries \ read
        /\ t.uncertain = state.uncertain
        /\ t.dead = state.dead \cup read
        /\ t.lost = state.lost
        /\ t.jobs = state.jobs
    BY <1>1, TerminalizeFacts
  <1>3. /\ state' = ReturnAdmittedToRetry(t, SteeringOf(m))
        /\ seen' = seen \cup read
    BY DEF TerminateTurn
  <1>. HIDE DEF t
  <1>4. /\ \A k \in Msgs : state'.flight[k] = IF k \in SteeringOf(m) /\ t.flight[k] = "admitted"
                                              THEN "none" ELSE t.flight[k]
        /\ state'.retries = t.retries \cup {k \in SteeringOf(m) : t.flight[k] = "admitted"}
        /\ state'.uncertain = t.uncertain
        /\ state'.dead = t.dead
        /\ state'.lost = t.lost
        /\ state'.jobs = t.jobs
    BY <1>1, <1>2, <1>3, ReturnAdmittedFacts
  <1>. HIDE DEF read
  <1>5. read \subseteq {m} \cup SteeringOf(m) /\ m \in read
    BY DEF read
  <1>6. CASE n \in {m} \cup SteeringOf(m)
    <2>1. Held(state, seen, n) => Held(state', seen', n)
      BY <1>2, <1>3, <1>4, <1>6 DEF Held
    <2>2. CASE Retire(m)
      BY <1>2, <1>3, <1>4, <1>5, <1>6, <2>1, <2>2, TurnEnds
    <2>3. CASE Retiring(m)
      <3>1. phase' = phase /\ phase[m] = "done" /\ (n # m => phase[n] = "idle" /\ result[n] = "none")
        BY <1>6, <2>3, SteeringIsIdle, RecordBefore DEF Retiring, KInv, DInv
      <3>2. phase'[n] \in PostedPhases /\ result'[n] \notin {"retry", "rejected"}
        BY <1>1, <2>3, <3>1 DEF Retiring, TypeOK, PostedPhases
      <3>3. Answered(n) /\ Spent(n)
        BY <3>2, Closed
      <3>. QED
        BY <1>2, <1>3, <1>4, <1>5, <1>6, <2>1, <3>1, <3>3 DEF RecordMoves
    <2>. QED
      BY <2>2, <2>3
  <1>7. CASE n \notin {m} \cup SteeringOf(m)
    <2>1. Kept(n) /\ LettersKept(n) /\ (n \in seen' <=> n \in seen)
      BY <1>2, <1>3, <1>4, <1>5, <1>7 DEF Kept, LettersKept
    <2>2. Retiring(m) => phase' = phase
      BY DEF Retiring
    <2>. QED
      BY <1>3, <1>7, <2>1, <2>2, TurnSpares, RecordStays
  <1>. QED
    BY <1>6, <1>7

\* A turn that succeeds is seen, with its steering.
LEMMA OkRecord ==
    ASSUME KInv, NEW m \in Msgs, FinishOk(m), NEW n \in Msgs
    PROVE  RecordMoves(n)
  <1>. DEFINE ended == {m} \cup SteeringOf(m)
  <1>1. TypeOK /\ state \in DurableStates /\ ended \in SUBSET Msgs
    BY OriginSets DEF KInv, DInv, IInv, TypeOK
  <1>2. /\ state' = RemoveInFlight(state, ended)
        /\ seen' = seen \cup ended
        /\ Retire(m)
        /\ pc # "down" /\ pc' \notin BatchPcs
    BY DEF FinishOk, Finishing, Goto, BatchPcs
  <1>3. /\ \A k \in Msgs : state'.flight[k] = IF k \in ended THEN "none" ELSE state.flight[k]
        /\ state'.retries = state.retries
        /\ state'.uncertain = state.uncertain
        /\ state'.dead = state.dead
        /\ state'.lost = state.lost
        /\ state'.jobs = state.jobs
    BY <1>1, <1>2, RemoveInFlightFacts
  <1>4. CASE n \in ended
    BY <1>2, <1>3, <1>4, TurnEnds DEF Held
  <1>5. CASE n \notin ended
    <2>1. Kept(n) /\ LettersKept(n) /\ (n \in seen' <=> n \in seen)
      BY <1>2, <1>3, <1>5 DEF Kept, LettersKept
    <2>. QED
      BY <1>2, <1>5, <2>1, TurnSpares
  <1>. QED
    BY <1>4, <1>5

\* A turn that is retried: nothing was recorded of it, and it is queued again or a
\* dead letter.
LEMMA RetryRecord ==
    ASSUME KInv, NEW m \in Msgs, FinishRetry(m), NEW n \in Msgs
    PROVE  RecordMoves(n)
  <1>. DEFINE E == Exhausted(state, {m})
              S == SteeringOf(m)
              t == UpsertRetry(state, {m})
  <1>1. TypeOK /\ state \in DurableStates /\ {m} \in SUBSET Msgs /\ S \in SUBSET Msgs
    BY OriginSets DEF KInv, DInv, IInv, TypeOK
  <1>2. pc # "down" /\ result[m] = "retry"
    BY DEF FinishRetry, Finishing
  <1>3. CASE UNCHANGED <<state, seen, workers>>
    BY <1>2, <1>3, RecordStill DEF workers
  <1>4. CASE /\ state' = ReturnAdmittedToRetry(t, S)
             /\ seen' = (seen \ {m}) \cup E
             /\ Retire(m)
             /\ pc' = "finishSave"
    <2>1. /\ t \in DurableStates
          /\ \A k \in Msgs : t.flight[k] = IF k \in {m} THEN "none" ELSE state.flight[k]
          /\ t.retries = (state.retries \cup {m}) \ E
          /\ t.uncertain = state.uncertain
          /\ t.dead = state.dead \cup E
          /\ t.lost = state.lost
          /\ t.jobs = state.jobs
      BY <1>1, UpsertRetryFacts
    <2>2. E \subseteq {m}
      BY DEF Exhausted
    <2>. HIDE DEF t, E
    <2>3. /\ \A k \in Msgs : state'.flight[k] = IF k \in S /\ t.flight[k] = "admitted"
                                                THEN "none" ELSE t.flight[k]
          /\ state'.retries = t.retries \cup {k \in S : t.flight[k] = "admitted"}
          /\ state'.uncertain = t.uncertain
          /\ state'.dead = t.dead
          /\ state'.lost = t.lost
          /\ state'.jobs = t.jobs
      BY <1>1, <1>4, <2>1, ReturnAdmittedFacts
    <2>4. m \notin seen
      BY <1>2, RecordBefore DEF RecordOK, Unanswered, Unspent
    <2>5. pc' \notin BatchPcs
      BY <1>4 DEF BatchPcs
    <2>6. CASE n \in {m} \cup S
      <3>1. Held(state, seen, n) => Held(state', seen', n)
        BY <1>4, <2>1, <2>2, <2>3, <2>6 DEF Held
      <3>. QED
        BY <1>2, <1>4, <2>1, <2>2, <2>3, <2>4, <2>5, <2>6, <3>1, TurnEnds
    <2>7. CASE n \notin {m} \cup S
      <3>1. Kept(n) /\ LettersKept(n) /\ (n \in seen' <=> n \in seen)
        BY <1>4, <2>1, <2>2, <2>3, <2>7 DEF Kept, LettersKept
      <3>. QED
        BY <1>2, <1>4, <2>7, <3>1, TurnSpares
    <2>. QED
      BY <2>6, <2>7
  <1>. QED
    BY <1>3, <1>4 DEF FinishRetry, Goto, Fatal

\* A refused answer: its recovery is recorded, and the origin is seen when the turn
\* is over.
LEMMA RejectedRecord ==
    ASSUME KInv, NEW m \in Msgs, FinishRejected(m), NEW n \in Msgs
    PROVE  RecordMoves(n)
  <1>1. /\ pc # "down" /\ pc' \notin BatchPcs
        /\ UNCHANGED <<phase, result>>
        /\ phase[m] = "done" /\ result[m] = "rejected"
    BY DEF FinishRejected, Finishing, workers, Fatal, Goto, BatchPcs
  <1>2. m \notin seen
    BY <1>1, RecordBefore DEF RecordOK, Unanswered
  <1>3. CASE UNCHANGED <<state, seen>>
    BY <1>1, <1>3, RecordStill
  <1>4. CASE state' = [state EXCEPT !.dead = @ \cup {m}] /\ seen' = seen \ {m}
    <2>1. /\ state'.dead = state.dead \cup {m}
          /\ state'.flight = state.flight /\ state'.retries = state.retries
          /\ state'.lost = state.lost /\ state'.jobs = state.jobs
          /\ state'.uncertain = state.uncertain
      BY <1>4 DEF KInv, DInv, IInv, TypeOK, DurableStates
    <2>2. seen' = seen
      BY <1>2, <1>4
    <2>3. CASE n = m
      <3>1. Spent(n)
        BY <1>1, <2>3 DEF Spent, Unspent, PostedPhases
      <3>. QED
        BY <1>1, <2>1, <2>2, <2>3, <3>1 DEF RecordMoves, Held
    <2>4. CASE n # m
      BY <1>1, <2>1, <2>2, <2>4, RecordStays DEF Kept, LettersKept
    <2>. QED
      BY <2>3, <2>4
  <1>. QED
    BY <1>3, <1>4 DEF FinishRejected

\* A confirmed answer: the job is in the file, and the turn is seen.
LEMMA ProofRecord ==
    ASSUME KInv, NEW m \in Msgs, PostCommitProof(m), NEW n \in Msgs
    PROVE  RecordMoves(n)
  <1>. DEFINE ended == {m} \cup SteeringOf(m)
  <1>1. TypeOK /\ state \in DurableStates /\ ended \in SUBSET Msgs
    BY OriginSets DEF KInv, DInv, IInv, TypeOK
  <1>2. pc # "down" /\ phase' = phase /\ phase[m] = "done" /\ result[m] = "postCommit"
    BY DEF PostCommitProof, Finishing
  <1>3. CASE PersistFails("loop")
    BY <1>2, <1>3, RecordSave DEF PersistFails
  <1>4. CASE /\ seen' = PersistedSeen(state, seen) \cup ended
             /\ state' = RemoveInFlight(state, ended)
             /\ result' = [result EXCEPT ![m] = "retire"]
             /\ pc' = "retireTurn"
    <2>1. /\ \A k \in Msgs : state'.flight[k] = IF k \in ended THEN "none" ELSE state.flight[k]
          /\ state'.retries = state.retries
          /\ state'.uncertain = state.uncertain
          /\ state'.dead = state.dead
          /\ state'.lost = state.lost
          /\ state'.jobs = state.jobs
      BY <1>1, <1>4, RemoveInFlightFacts
    <2>2. CASE n \in ended
      <3>1. phase'[n] \in PostedPhases /\ result'[n] \notin {"retry", "rejected"}
        <4>1. CASE n = m
          BY <1>1, <1>2, <1>4, <4>1 DEF PostedPhases, TypeOK
        <4>2. CASE n # m
          <5>1. phase[n] = "idle" /\ result[n] = "none"
            BY <1>1, <1>2, <2>2, <4>2, RecordBefore, MsgsAssumption DEF SteeringOf
          <5>. QED
            BY <1>1, <1>2, <1>4, <4>2, <5>1 DEF PostedPhases, TypeOK
        <4>. QED
          BY <4>1, <4>2
      <3>2. Answered(n)
        BY <1>1, <1>4, <2>2, <3>1, Closed DEF BatchPcs
      <3>. QED
        BY <1>2, <1>4, <2>1, <2>2, <3>2 DEF RecordMoves, Held
    <2>3. CASE n \notin ended
      <3>1. Kept(n) /\ LettersKept(n)
        BY <2>1, <2>3 DEF Kept, LettersKept
      <3>2. /\ RecordOK(n) /\ HeldAt(n) /\ (n \in state.uncertain => phase[n] = "idle")
            /\ phase[n] # "done" => result[n] = "none"
        BY <1>2, RecordBefore
      <3>3. n \in seen' <=> \/ n \in seen /\ n \notin state.uncertain
                            \/ n \in state.jobs
                            \/ n \in state.dead /\ n \notin state.uncertain /\ state.flight[n] = "none"
        BY <1>4, <2>3 DEF PersistedSeen
      <3>4. n \in seen' => n \in seen \/ ~ Unanswered(n)
        BY <3>2, <3>3 DEF RecordOK, Unanswered, HeldAt
      <3>. QED
        BY <1>2, <3>1, <3>2, <3>3, <3>4 DEF RecordMoves, Answered, Held, RecordOK, Kept, LettersKept
    <2>. QED
      BY <2>2, <2>3
  <1>. QED
    BY <1>3, <1>4 DEF PostCommitProof

\* Every step of finish_pending.
LEMMA FinishRecord ==
    ASSUME KInv, FinishNext, NEW n \in Msgs
    PROVE  RecordMoves(n)
  <1>1. ASSUME NEW m \in Msgs, FinishFail(m) PROVE RecordMoves(n)
    <2>1. pc # "down" /\ pc' \notin BatchPcs
      BY <1>1 DEF FinishFail, Finishing, NoRoomForTurn, BatchPcs
    <2>. QED
      BY <1>1, <2>1, TerminateRecord, RecordStill DEF FinishFail, NoRoomForTurn, workers
  <1>2. CASE FinishRejectedProof
    <2>1. pc # "down" /\ pc' \notin BatchPcs
      BY <1>2 DEF FinishRejectedProof, NoRoomForTurn, BatchPcs
    <2>2. TypeOK /\ (pc = "rejected" => phase[target] = "done")
      BY DEF KInv, DInv, IInv, BatchIsFresh
    <2>. QED
      BY <1>2, <2>1, <2>2, RejectedEffect, TerminateRecord, RecordStill DEF workers
  <1>3. ASSUME NEW m \in Msgs, PostCommitRetire(m) PROVE RecordMoves(n)
    <2>1. /\ pc # "down" /\ state' = state /\ seen' = PersistedSeen(state, seen)
          /\ result[m] = "retire"
      BY <1>3 DEF PostCommitRetire, PersistOk, PersistFails, Finishing, KInv, RetireIsReached
    <2>2. m \in seen
      BY <2>1, RecordBefore DEF RecordOK
    <2>3. phase[n] # "idle" => phase'[n] # "idle" \/ n = m
      <3>1. TypeOK
        BY DEF KInv, DInv, IInv
      <3>. QED
        BY <1>3, <3>1, RetireEffect DEF PostCommitRetire, workers
    <2>. QED
      BY <2>1, <2>2, <2>3, RecordSave
  <1>4. CASE RejectedSave \/ FinishSave
    BY <1>4, RecordSave DEF RejectedSave, FinishSave, PersistOk, PersistFails, workers
  <1>5. CASE FinishDone \/ \E m \in Msgs : FinishFatal(m)
    BY <1>5, RecordStill DEF FinishDone, FinishFatal, Finishing, durables, workers
  <1>. QED
    BY <1>1, <1>2, <1>3, <1>4, <1>5, OkRecord, RetryRecord, RejectedRecord, ProofRecord DEF FinishNext

-----------------------------------------------------------------------------
(***************************************************************************)
(* The body of the loop.                                                   *)
(***************************************************************************)
\* Due retries that are gone, or were tried for the last time, become dead letters
\* and are seen; no worker has them.
LEMMA FetchRecord ==
    ASSUME KInv, Fetch, NEW n \in Msgs
    PROVE  RecordMoves(n)
  <1>1. PICK due \in SUBSET state.retries :
            \E outcome \in [due -> {"fetched", "gone", "retry"}] : FetchDue(due, outcome)
    BY DEF Fetch
  <1>2. PICK outcome \in [due -> {"fetched", "gone", "retry"}] : FetchDue(due, outcome)
    BY <1>1
  <1>. DEFINE gone == {m \in due : outcome[m] = "gone"}
              again == {m \in due : outcome[m] = "retry"}
              E == Exhausted(state, again)
              t == Terminalize(state, gone)
  <1>3. /\ state \in DurableStates /\ gone \in SUBSET Msgs /\ again \in SUBSET Msgs
        /\ gone \cap again = {} /\ E \subseteq again /\ gone \cup again \subseteq state.retries
    BY DEF KInv, DInv, IInv, TypeOK, DurableStates, Exhausted
  <1>4. /\ t \in DurableStates
        /\ \A k \in Msgs : t.flight[k] = IF k \in gone THEN "none" ELSE state.flight[k]
        /\ t.retries = state.retries \ gone
        /\ t.uncertain = state.uncertain
        /\ t.dead = state.dead \cup gone
        /\ t.lost = state.lost
        /\ t.jobs = state.jobs
        /\ Exhausted(t, again) = E
    BY <1>3, TerminalizeFacts, ExhaustedFacts
  <1>5. /\ pc = "fetch" /\ UNCHANGED <<phase, result>>
        /\ \/ state' = state /\ seen' = seen
           \/ /\ state' = UpsertRetry(t, again)
              /\ seen' = seen \cup (gone \cup E)
              /\ pc' \in {"admit", "fetchSave"}
    BY <1>2 DEF Fetch, FetchDue, Fatal, Goto, workers
  <1>. HIDE DEF t
  <1>6. /\ \A k \in Msgs : UpsertRetry(t, again).flight[k]
                              = IF k \in again THEN "none" ELSE t.flight[k]
        /\ UpsertRetry(t, again).retries = (t.retries \cup again) \ Exhausted(t, again)
        /\ UpsertRetry(t, again).uncertain = t.uncertain
        /\ UpsertRetry(t, again).dead = t.dead \cup Exhausted(t, again)
        /\ UpsertRetry(t, again).lost = t.lost
        /\ UpsertRetry(t, again).jobs = t.jobs
    BY <1>3, <1>4, UpsertRetryFacts
  <1>. HIDE DEF gone, again, E
  <1>7. CASE state' = state /\ seen' = seen
    BY <1>5, <1>7, RecordStill
  <1>8. CASE /\ state' = UpsertRetry(t, again)
             /\ seen' = seen \cup (gone \cup E)
             /\ pc' \in {"admit", "fetchSave"}
    <2>1. /\ HeldAt(n)
          /\ n \in state.retries => state.flight[n] = "none"
          /\ phase[n] # "done" => result[n] = "none"
      BY <1>5, RecordBefore
    <2>2. n \in gone \cup again => Answered(n) /\ Spent(n)
      <3>. SUFFICES ASSUME n \in gone \cup again PROVE Answered(n) /\ Spent(n)
        OBVIOUS
      <3>1. phase[n] = "idle" \/ result[n] = "retire"
        BY <1>3, <2>1 DEF HeldAt
      <3>2. phase'[n] \in PostedPhases /\ result'[n] \notin {"retry", "rejected"}
        BY <1>5, <2>1, <3>1 DEF PostedPhases
      <3>. QED
        BY <1>8, <3>2, Closed DEF BatchPcs
    <2>3. Held(state, seen, n) => Held(state', seen', n)
      BY <1>3, <1>4, <1>6, <1>8 DEF Held
    <2>. QED
      BY <1>3, <1>4, <1>5, <1>6, <1>8, <2>2, <2>3 DEF RecordMoves
  <1>. QED
    BY <1>5, <1>7, <1>8

\* Of the candidates those that are ignored, gone or tried for the last time are
\* seen; the others are queued or admitted.
LEMMA AdmitRecord ==
    ASSUME KInv, Admit, NEW n \in Msgs
    PROVE  /\ RecordMoves(n)
           /\ pc' = "admitSave" /\ n \in batch' =>
                /\ n \in seen' => n \in seen
                /\ n \in state'.dead => n \in state.dead
                /\ n \in state'.jobs => n \in state.jobs
  <1>1. PICK page \in Pages :
            \E outcome \in [Candidates(page) -> {"ignored", "gone", "retry", "prepared"}] :
                AdmitCandidates(Candidates(page), outcome)
    BY DEF Admit
  <1>2. PICK outcome \in [Candidates(page) -> {"ignored", "gone", "retry", "prepared"}] :
            AdmitCandidates(Candidates(page), outcome)
    BY <1>1
  <1>. DEFINE found == Candidates(page)
              Of(o) == {m \in found : outcome[m] = o}
              E == Exhausted(state, Of("retry"))
              s1 == RemoveRetry(state, Of("ignored"))
              s2 == Terminalize(s1, Of("gone"))
              s3 == UpsertRetry(s2, Of("retry"))
              s4 == AdmitOrigins(s3, Of("prepared"))
  <1>3. /\ state \in DurableStates /\ found \in SUBSET Msgs
        /\ \A m \in found : /\ m \notin seen /\ m \notin Pending
                            /\ m \notin InFlight(state) /\ m \notin state.uncertain
    BY DEF Pages, Candidates, KInv, DInv, IInv, TypeOK
  <1>4. /\ \A o : Of(o) \in SUBSET Msgs /\ Of(o) \subseteq found
        /\ Of("ignored") \cap Of("retry") = {} /\ Of("gone") \cap Of("retry") = {}
        /\ Of("prepared") \cap Of("retry") = {} /\ Of("prepared") \cap Of("gone") = {}
        /\ Of("prepared") \cap Of("ignored") = {}
        /\ E \subseteq Of("retry")
    BY <1>3 DEF Exhausted
  <1>5. /\ s1 \in DurableStates
        /\ s1.flight = state.flight
        /\ s1.retries = state.retries \ Of("ignored")
        /\ s1.uncertain = state.uncertain
        /\ s1.dead = state.dead
        /\ s1.lost = state.lost
        /\ s1.jobs = state.jobs
        /\ Exhausted(s1, Of("retry")) = E
    BY <1>3, <1>4, RemoveRetryFacts, ExhaustedFacts
  <1>. HIDE DEF s1
  <1>6. /\ s2 \in DurableStates
        /\ \A m \in Msgs : s2.flight[m] = IF m \in Of("gone") THEN "none" ELSE s1.flight[m]
        /\ s2.retries = s1.retries \ Of("gone")
        /\ s2.uncertain = s1.uncertain
        /\ s2.dead = s1.dead \cup Of("gone")
        /\ s2.lost = s1.lost
        /\ s2.jobs = s1.jobs
        /\ Exhausted(s2, Of("retry")) = E
    BY <1>4, <1>5, TerminalizeFacts, ExhaustedFacts
  <1>. HIDE DEF s2
  <1>7. /\ s3 \in DurableStates
        /\ \A m \in Msgs : s3.flight[m] = IF m \in Of("retry") THEN "none" ELSE s2.flight[m]
        /\ s3.retries = (s2.retries \cup Of("retry")) \ Exhausted(s2, Of("retry"))
        /\ s3.uncertain = s2.uncertain
        /\ s3.dead = s2.dead \cup Exhausted(s2, Of("retry"))
        /\ s3.lost = s2.lost
        /\ s3.jobs = s2.jobs
    BY <1>4, <1>6, UpsertRetryFacts
  <1>. HIDE DEF s3
  <1>8. /\ \A m \in Msgs : s4.flight[m] = IF m \in Of("prepared") THEN "admitted" ELSE s3.flight[m]
        /\ s4.retries = s3.retries \ Of("prepared")
        /\ s4.uncertain = s3.uncertain
        /\ s4.dead = s3.dead
        /\ s4.lost = s3.lost
        /\ s4.jobs = s3.jobs
    BY <1>4, <1>7, AdmitOriginsFacts
  <1>. HIDE DEF s4
  <1>9. /\ pc = "admit" /\ UNCHANGED <<phase, result>>
        /\ \/ /\ state' = s4
              /\ batch' = Of("prepared")
              /\ pc' = "admitSave"
              /\ seen' = seen \cup Of("ignored") \cup (Of("gone") \cup E)
           \/ state' = state /\ seen' = seen
    BY <1>2 DEF Admit, AdmitCandidates, Fatal, Goto, workers, s1, s2, s3, s4
  <1>10. phase[n] # "done" => result[n] = "none"
    BY <1>9, RecordBefore
  <1>. HIDE DEF found, Of, E
  <1>11. CASE state' = state /\ seen' = seen
    BY <1>9, <1>11, RecordStill
  <1>12. CASE /\ state' = s4
              /\ batch' = Of("prepared")
              /\ pc' = "admitSave"
              /\ seen' = seen \cup Of("ignored") \cup (Of("gone") \cup E)
    <2>1. n \in Of("ignored") \cup Of("gone") \cup E => Answered(n) /\ Spent(n)
      <3>. SUFFICES ASSUME n \in Of("ignored") \cup Of("gone") \cup E PROVE Answered(n) /\ Spent(n)
        OBVIOUS
      <3>1. phase[n] = "idle"
        BY <1>3, <1>4 DEF Pending
      <3>2. n \notin batch'
        BY <1>4, <1>12
      <3>. QED
        BY <1>9, <1>10, <3>1, <3>2, Closed DEF PostedPhases
    <2>2. Held(state, seen, n) => Held(state', seen', n)
      BY <1>3, <1>4, <1>5, <1>6, <1>7, <1>8, <1>12 DEF Held
    <2>3. RecordMoves(n)
      BY <1>5, <1>6, <1>7, <1>8, <1>9, <1>12, <2>1, <2>2 DEF RecordMoves
    <2>4. n \in batch' => n \notin Of("ignored") \cup Of("gone") \cup E
      BY <1>4, <1>12
    <2>. QED
      BY <1>5, <1>6, <1>7, <1>8, <1>12, <2>3, <2>4
  <1>. QED
    BY <1>9, <1>11, <1>12

\* Every step of the loop body.
LEMMA LoopRecord ==
    ASSUME KInv, LoopNext, NEW n \in Msgs
    PROVE  RecordMoves(n)
  <1>1. pc # "down" /\ pc # "undo"
    BY DEF KInv, DInv, IInv, LoopNext, ReconcileDone, ReconcileTerminal, ReconcileSave,
       ReconcileEnd, LoopSave, Fetch, FetchSave, Undo, NothingToAdmit, Admit, AdmitSave
  <1>2. ASSUME NEW m \in Msgs, ReconcileDone(m) \/ ReconcileTerminal(m) PROVE RecordMoves(n)
    <2>1. /\ UNCHANGED <<seen, phase>>
          /\ \/ state' = state
             \/ state' = [state EXCEPT !.jobs = @ \ {m}]
             \/ state' = [state EXCEPT !.jobs = @ \ {m}, !.lost = @ \cup {m}]
      BY <1>2 DEF ReconcileDone, ReconcileTerminal, workers
    <2>2. /\ state'.flight = state.flight /\ state'.retries = state.retries
          /\ state'.dead = state.dead /\ state'.uncertain = state.uncertain
          /\ state.lost \subseteq state'.lost /\ state'.jobs \subseteq state.jobs
      <3>1. state \in DurableStates
        BY DEF KInv, DInv, IInv, TypeOK
      <3>2. CASE state' = [state EXCEPT !.jobs = @ \ {m}]
        BY <3>1, <3>2 DEF DurableStates
      <3>3. CASE state' = [state EXCEPT !.jobs = @ \ {m}, !.lost = @ \cup {m}]
        BY <3>1, <3>3 DEF DurableStates
      <3>. QED
        BY <2>1, <3>2, <3>3
    <2>. QED
      BY <2>1, <2>2 DEF RecordMoves, Held
  <1>3. CASE ReconcileSave \/ LoopSave \/ FetchSave \/ AdmitSave
    BY <1>1, <1>3, RecordSave DEF ReconcileSave, LoopSave, FetchSave, AdmitSave, PersistOk,
       PersistFails, workers
  <1>4. CASE ReconcileEnd \/ NothingToAdmit
    BY <1>1, <1>4, RecordStill DEF ReconcileEnd, NothingToAdmit, durables, workers
  <1>. QED
    BY <1>1, <1>2, <1>3, <1>4, FetchRecord, AdmitRecord DEF LoopNext, Undo

-----------------------------------------------------------------------------
(***************************************************************************)
(* The submission of a batch.                                              *)
(***************************************************************************)
\* An origin that leaves the batch without a worker is answered for.
LEMMA BatchLeaves ==
    ASSUME KInv, pc \in BatchPcs, NEW m \in batch, UNCHANGED <<phase, result>>,
           m \notin batch' \/ pc' \notin BatchPcs
    PROVE  Answered(m) /\ Spent(m)
  <1>1. pc # "down" /\ m \in Msgs
    BY DEF BatchPcs, KInv, DInv, IInv, TypeOK
  <1>2. phase[m] = "idle" /\ result[m] = "none"
    BY <1>1, RecordBefore
  <1>. QED
    BY <1>1, <1>2, Closed DEF PostedPhases

\* A failed attempt, and a deferral.
LEMMA LaterRecord ==
    ASSUME KInv, pc \in BatchPcs, pc # "inlinePublish", NEW m \in batch, RetryLater(m) \/ Defer(m),
           UNCHANGED <<phase, result>>, NEW n \in Msgs
    PROVE  RecordMoves(n)
  <1>. DEFINE E == Exhausted(state, {m})
              t == UpsertRetry(state, {m})
              r == ReturnAdmittedToRetry(state, {m})
  <1>1. /\ pc # "down" /\ state \in DurableStates /\ {m} \in SUBSET Msgs
        /\ E \subseteq {m}
    BY DEF BatchPcs, KInv, DInv, IInv, TypeOK, Exhausted
  <1>2. CASE UNCHANGED <<state, seen>>
    BY <1>1, <1>2, RecordStill
  <1>3. CASE state' = t /\ seen' = seen \cup E /\ ThenSave(m)
    <2>1. /\ \A k \in Msgs : t.flight[k] = IF k \in {m} THEN "none" ELSE state.flight[k]
          /\ t.retries = (state.retries \cup {m}) \ E
          /\ t.uncertain = state.uncertain
          /\ t.dead = state.dead \cup E
          /\ t.lost = state.lost
          /\ t.jobs = state.jobs
      BY <1>1, UpsertRetryFacts
    <2>2. Answered(m) /\ Spent(m)
      BY <1>3, BatchLeaves DEF ThenSave
    <2>. HIDE DEF t, E
    <2>3. Held(state, seen, n) => Held(state', seen', n)
      BY <1>1, <1>3, <2>1 DEF Held
    <2>. QED
      BY <1>1, <1>3, <2>1, <2>2, <2>3 DEF RecordMoves
  <1>4. CASE state' = r /\ seen' = seen
    <2>1. /\ \A k \in Msgs : r.flight[k] = IF k \in {m} /\ state.flight[k] = "admitted"
                                           THEN "none" ELSE state.flight[k]
          /\ r.retries = state.retries \cup {k \in {m} : state.flight[k] = "admitted"}
          /\ r.uncertain = state.uncertain
          /\ r.dead = state.dead
          /\ r.lost = state.lost
          /\ r.jobs = state.jobs
      BY <1>1, ReturnAdmittedFacts
    <2>. HIDE DEF r
    <2>2. Held(state, seen, n) => Held(state', seen', n)
      BY <1>1, <1>4, <2>1 DEF Held
    <2>. QED
      BY <1>1, <1>4, <2>1, <2>2 DEF RecordMoves
  <1>. QED
    BY <1>2, <1>3, <1>4 DEF RetryLater, Defer

\* Setting the stage of one origin.
LEMMA StageRecord ==
    ASSUME KInv, pc # "down", NEW m \in Msgs, NEW stage \in {"admitted", "hermes_may_start"},
           state' = WithStage(state, {m}, stage), seen' = seen,
           NEW n \in Msgs, phase[n] # "idle" => phase'[n] # "idle"
    PROVE  RecordMoves(n)
  <1>1. state \in DurableStates /\ {m} \in SUBSET Msgs /\ stage \in Stages /\ stage # "none"
    BY DEF KInv, DInv, IInv, TypeOK, Stages
  <1>2. /\ \A k \in Msgs : state'.flight[k] = IF k \in {m} THEN stage ELSE state.flight[k]
        /\ state'.retries = state.retries
        /\ state'.uncertain = state.uncertain
        /\ state'.dead = state.dead
        /\ state'.lost = state.lost
        /\ state'.jobs = state.jobs
    BY <1>1, WithStageFacts
  <1>. QED
    BY <1>1, <1>2 DEF RecordMoves, Held

\* Every step of the submission.
LEMMA SubmitRecord ==
    ASSUME KInv, SubmitNext, NEW n \in Msgs
    PROVE  RecordMoves(n)
  <1>1. pc \in BatchPcs /\ pc # "inlinePublish" /\ pc # "down" /\ phase \in [Msgs -> Phases]
    BY DEF KInv, DInv, IInv, TypeOK, SubmitNext, SubmitWorker, SubmitFails, SteerDeferred,
       SteerMark, SubmitBroken, SubmitSave, SubmitEnd, Submitting, BatchPcs
  <1>2. ASSUME NEW m \in Msgs, SubmitWorker(m) PROVE RecordMoves(n)
    BY <1>1, <1>2, RecordStill DEF SubmitWorker, durables
  <1>3. ASSUME NEW m \in Msgs, SubmitFails(m) \/ SteerDeferred(m) PROVE RecordMoves(n)
    BY <1>1, <1>3, LaterRecord DEF SubmitFails, SteerDeferred, Submitting, workers
  <1>4. ASSUME NEW m \in Msgs, SteerMark(m) PROVE RecordMoves(n)
    BY <1>1, <1>4, StageRecord, RecordStill DEF SteerMark, MarkMayStart, workers
  <1>5. CASE SubmitSave
    BY <1>1, <1>5, RecordSave DEF SubmitSave, PersistOk, PersistFails, workers
  <1>6. CASE SubmitBroken \/ SubmitEnd
    BY <1>1, <1>6, RecordStill DEF SubmitBroken, SubmitEnd, durables, workers
  <1>. QED
    BY <1>2, <1>3, <1>4, <1>5, <1>6 DEF SubmitNext

-----------------------------------------------------------------------------
(***************************************************************************)
(* Steering.                                                               *)
(***************************************************************************)
\* The mark is taken back after a failed save: the origin is queued again.
LEMMA AbandonRecord ==
    ASSUME KInv, pc \in BatchPcs, pc # "inlinePublish", NEW m \in batch,
           NEW st \in {WithStage(state, {m}, "admitted"), state},
           state' = ReturnAdmittedToRetry(st, {m}),
           seen' = PersistedSeen(state, seen), UNCHANGED <<phase, result>>,
           NEW n \in Msgs
    PROVE  RecordMoves(n)
  <1>1. /\ pc # "down" /\ state \in DurableStates /\ {m} \in SUBSET Msgs
        /\ "admitted" \in Stages
    BY DEF BatchPcs, KInv, DInv, IInv, TypeOK, Stages
  <1>. DEFINE w == WithStage(state, {m}, "admitted")
  <1>2. /\ w \in DurableStates
        /\ \A k \in Msgs : w.flight[k] = IF k \in {m} THEN "admitted" ELSE state.flight[k]
        /\ w.retries = state.retries /\ w.uncertain = state.uncertain
        /\ w.dead = state.dead /\ w.lost = state.lost /\ w.jobs = state.jobs
    BY <1>1 DEF WithStage, DurableStates, Stages
  <1>. HIDE DEF w
  <1>3. /\ st \in DurableStates
        /\ \A k \in Msgs : k # m => st.flight[k] = state.flight[k]
        /\ st.flight[m] = "none" => state.flight[m] = "none"
        /\ st.retries = state.retries /\ st.uncertain = state.uncertain
        /\ st.dead = state.dead /\ st.lost = state.lost /\ st.jobs = state.jobs
    BY <1>1, <1>2 DEF w
  <1>4. /\ \A k \in Msgs : state'.flight[k] = IF k \in {m} /\ st.flight[k] = "admitted"
                                              THEN "none" ELSE st.flight[k]
        /\ state'.retries = st.retries \cup {k \in {m} : st.flight[k] = "admitted"}
        /\ state'.uncertain = st.uncertain
        /\ state'.dead = st.dead
        /\ state'.lost = st.lost
        /\ state'.jobs = st.jobs
    BY <1>1, <1>3, ReturnAdmittedFacts
  <1>5. /\ RecordOK(n) /\ HeldAt(n) /\ (n \in state.uncertain => phase[n] = "idle")
        /\ phase[n] # "done" => result[n] = "none"
    BY <1>1, RecordBefore
  <1>6. n \in seen' <=> \/ n \in seen /\ n \notin state.uncertain
                        \/ n \in state.jobs
                        \/ n \in state.dead /\ n \notin state.uncertain /\ state.flight[n] = "none"
    BY DEF PersistedSeen
  <1>7. n \in seen' => n \in seen \/ ~ Unanswered(n)
    BY <1>5, <1>6 DEF RecordOK, Unanswered, HeldAt
  <1>8. Held(state, seen, n) => Held(state', seen', n)
    BY <1>1, <1>3, <1>4, <1>5, <1>6 DEF Held, RecordOK
  <1>. QED
    BY <1>3, <1>4, <1>5, <1>6, <1>7, <1>8 DEF RecordMoves, Answered, RecordOK

\* An origin of the batch becomes a dead letter, seen or uncertain.
LEMMA TargetRecord ==
    ASSUME KInv, pc \in BatchPcs, pc # "inlinePublish", NEW m \in batch, m \notin batch',
           UNCHANGED <<phase, result>>, NEW n \in Msgs,
           \/ state' = Terminalize(state, {m}) /\ seen' = seen \cup {m}
           \/ /\ state' = [Terminalize(state, {m}) EXCEPT !.uncertain = @ \cup {m}]
              /\ seen' = seen \ {m}
    PROVE  RecordMoves(n)
  <1>. DEFINE t == Terminalize(state, {m})
  <1>1. pc # "down" /\ state \in DurableStates /\ {m} \in SUBSET Msgs
    BY DEF BatchPcs, KInv, DInv, IInv, TypeOK
  <1>2. /\ t \in DurableStates
        /\ \A k \in Msgs : t.flight[k] = IF k \in {m} THEN "none" ELSE state.flight[k]
        /\ t.retries = state.retries \ {m}
        /\ t.uncertain = state.uncertain
        /\ t.dead = state.dead \cup {m}
        /\ t.lost = state.lost
        /\ t.jobs = state.jobs
    BY <1>1, TerminalizeFacts
  <1>3. Answered(m) /\ Spent(m)
    BY BatchLeaves
  <1>4. Unspent(m) /\ m \notin seen
    BY <1>1, RecordBefore DEF RecordOK, Unanswered, Unspent, Inlining
  <1>. HIDE DEF t
  <1>5. CASE state' = t /\ seen' = seen \cup {m}
    BY <1>2, <1>3, <1>5 DEF RecordMoves, Held
  <1>6. CASE state' = [t EXCEPT !.uncertain = @ \cup {m}] /\ seen' = seen \ {m}
    <2>1. /\ state'.flight = t.flight /\ state'.retries = t.retries
          /\ state'.uncertain = t.uncertain \cup {m}
          /\ state'.dead = t.dead /\ state'.lost = t.lost /\ state'.jobs = t.jobs
      BY <1>2, <1>6 DEF DurableStates
    <2>2. n \in state.jobs => n # m
      BY <1>1, <1>4, RecordBefore DEF RecordOK, Unanswered
    <2>. QED
      BY <1>2, <1>3, <1>4, <1>6, <2>1 DEF RecordMoves, Held
  <1>. QED
    BY <1>5, <1>6 DEF t

\* Every step of the steering path.
LEMMA SteerRecord ==
    ASSUME KInv, SteerNext, NEW n \in Msgs
    PROVE  RecordMoves(n)
  <1>1. pc # "down" /\ UNCHANGED <<phase, result>>
    BY DEF SteerNext, SteerSave, AbandonSave, SteerUnmark, SteerUndoSave, SteerRefused,
       SteerAppendFails, SteerDelivered, SteerUncertain, RetireSave, RetireRetry, workers
  <1>2. pc \in BatchTargetPcs => target \in batch /\ target \in Msgs
    BY DEF KInv, DInv, IInv, TypeOK, BatchIsFresh
  <1>3. CASE SteerSave \/ SteerUndoSave
    <2>1. /\ pc \in BatchPcs /\ pc # "inlinePublish" /\ target \in batch
          /\ seen' = PersistedSeen(state, seen)
          /\ \/ state' = state
             \/ state' = ReturnAdmittedToRetry(state, {target})
             \/ state' = ReturnAdmittedToRetry(WithStage(state, {target}, "admitted"), {target})
      BY <1>2, <1>3 DEF SteerSave, SteerUndoSave, PersistOk, BatchPcs, BatchTargetPcs
    <2>. QED
      BY <1>1, <2>1, RecordSave, AbandonRecord
  <1>4. CASE AbandonSave \/ RetireSave \/ RetireRetry
    BY <1>1, <1>4, RecordSave DEF AbandonSave, RetireSave, RetireRetry, PersistOk, PersistFails
  <1>5. CASE SteerUnmark
    <2>1. target \in Msgs /\ state' = WithStage(state, {target}, "admitted") /\ seen' = seen
      BY <1>2, <1>5 DEF SteerUnmark, BatchTargetPcs
    <2>. QED
      BY <1>1, <2>1, StageRecord
  <1>6. CASE SteerRefused
    BY <1>1, <1>2, <1>6, LaterRecord DEF SteerRefused, BatchPcs, BatchTargetPcs
  <1>7. CASE SteerDelivered
    BY <1>1, <1>7, RecordStill DEF SteerDelivered, durables
  <1>8. CASE SteerAppendFails \/ SteerUncertain
    <2>1. /\ pc \in BatchPcs /\ pc # "inlinePublish" /\ target \in batch
          /\ \/ UNCHANGED <<state, seen>>
             \/ /\ target \notin batch'
                /\ \/ state' = Terminalize(state, {target}) /\ seen' = seen \cup {target}
                   \/ /\ state' = [Terminalize(state, {target}) EXCEPT !.uncertain = @ \cup {target}]
                      /\ seen' = seen \ {target}
      BY <1>2, <1>8 DEF SteerAppendFails, SteerUncertain, ThenSave, BatchPcs, BatchTargetPcs
    <2>. QED
      BY <1>1, <2>1, RecordStill, TargetRecord
  <1>. QED
    BY <1>3, <1>4, <1>5, <1>6, <1>7, <1>8 DEF SteerNext

-----------------------------------------------------------------------------
(***************************************************************************)
(* Inline answers and workers.                                             *)
(***************************************************************************)
\* A confirmed answer leaves a job.
LEMMA JobRecord ==
    ASSUME KInv, pc # "down", NEW m \in Msgs, state' = [state EXCEPT !.jobs = @ \cup {m}],
           seen' = seen, Answered(m), m \notin state.uncertain,
           phase'[m] # "idle" \/ state.flight[m] = "hermes_may_start",
           NEW n \in Msgs, phase[n] # "idle" => phase'[n] # "idle"
    PROVE  RecordMoves(n)
  <1>1. /\ state'.jobs = state.jobs \cup {m}
        /\ state'.flight = state.flight /\ state'.retries = state.retries
        /\ state'.dead = state.dead /\ state'.lost = state.lost
        /\ state'.uncertain = state.uncertain
    BY DEF KInv, DInv, IInv, TypeOK, DurableStates
  <1>. QED
    BY <1>1 DEF RecordMoves, Held

\* The published answer of the main thread: the origin is seen.
LEMMA PublishRecord ==
    ASSUME KInv, InlinePublish, NEW n \in Msgs
    PROVE  RecordMoves(n)
  <1>1. /\ pc # "down" /\ state \in DurableStates /\ {target} \in SUBSET Msgs
        /\ target \in batch /\ pc \in BatchPcs
        /\ UNCHANGED <<phase, result>>
    BY DEF KInv, DInv, IInv, TypeOK, BatchIsFresh, BatchPcs, BatchTargetPcs, TargetPcs,
       InlinePublish, workers
  <1>2. /\ seen' = PersistedSeen(state, seen) \cup {target}
        /\ state' = RemoveInFlight(state, {target})
        /\ target \notin batch'
    BY DEF InlinePublish, ThenSave
  <1>3. /\ \A k \in Msgs : state'.flight[k] = IF k \in {target} THEN "none" ELSE state.flight[k]
        /\ state'.retries = state.retries
        /\ state'.uncertain = state.uncertain
        /\ state'.dead = state.dead
        /\ state'.lost = state.lost
        /\ state'.jobs = state.jobs
    BY <1>1, <1>2, RemoveInFlightFacts
  <1>4. Answered(target)
    BY <1>1, <1>2, BatchLeaves
  <1>5. /\ RecordOK(n) /\ HeldAt(n) /\ (n \in state.uncertain => phase[n] = "idle")
        /\ phase[n] # "done" => result[n] = "none"
    BY <1>1, RecordBefore
  <1>6. n # target =>
         (n \in seen' <=> \/ n \in seen /\ n \notin state.uncertain
                          \/ n \in state.jobs
                          \/ n \in state.dead /\ n \notin state.uncertain /\ state.flight[n] = "none")
    BY <1>2 DEF PersistedSeen
  <1>7. n # target /\ n \in seen' => n \in seen \/ ~ Unanswered(n)
    BY <1>5, <1>6 DEF RecordOK, Unanswered, HeldAt
  <1>8. CASE n = target
    BY <1>1, <1>2, <1>3, <1>4, <1>8 DEF RecordMoves, Held
  <1>9. CASE n # target
    BY <1>1, <1>3, <1>5, <1>6, <1>7, <1>9 DEF RecordMoves, Answered, Held, RecordOK
  <1>. QED
    BY <1>8, <1>9

\* Every step of an inline answer.
LEMMA InlineRecord ==
    ASSUME KInv, InlineNext, NEW n \in Msgs
    PROVE  RecordMoves(n)
  <1>1. pc # "down" /\ UNCHANGED <<phase, result>>
    BY DEF InlineNext, InlineMark, InlineSave, InlineAnswered, InlinePublish, InlineFails,
       InlineFull, Submitting, workers
  <1>2. pc \in BatchTargetPcs => target \in batch /\ target \in Msgs
    BY DEF KInv, DInv, IInv, TypeOK, BatchIsFresh
  <1>3. ASSUME NEW m \in Msgs, InlineMark(m) PROVE RecordMoves(n)
    BY <1>1, <1>3, StageRecord DEF InlineMark, MarkMayStart
  <1>4. CASE InlineSave
    BY <1>1, <1>4, RecordSave DEF InlineSave, PersistOk, PersistFails
  <1>5. CASE InlineAnswered
    <2>1. /\ pc = "inline" /\ pc' = "inlinePublish" /\ target' = target
          /\ state' = [state EXCEPT !.jobs = @ \cup {target}] /\ seen' = seen
      BY <1>5 DEF InlineAnswered, Goto
    <2>2. target \in batch /\ target \in Msgs
      BY <1>2, <2>1 DEF BatchTargetPcs
    <2>3. /\ phase[target] = "idle" /\ result[target] = "none" /\ target \notin state.uncertain
          /\ state.flight[target] = "hermes_may_start"
      <3>1. phase[target] = "idle" /\ target \notin state.uncertain
        BY <1>1, <2>1, <2>2, RecordBefore DEF BatchPcs
      <3>. QED
        BY <1>1, <2>1, <2>2, <3>1, RecordBefore DEF KInv, InlineIsMarked
    <2>4. Answered(target)
      BY <1>1, <2>1, <2>2, <2>3, Closed DEF PostedPhases
    <2>. QED
      BY <1>1, <2>1, <2>2, <2>3, <2>4, JobRecord
  <1>6. CASE InlineFails
    <2>1. /\ pc \in BatchPcs /\ pc # "inlinePublish" /\ target \in batch
          /\ \/ RetryLater(target)
             \/ /\ target \notin batch'
                /\ state' = Terminalize(state, {target}) /\ seen' = seen \cup {target}
      BY <1>2, <1>6 DEF InlineFails, ThenSave, BatchPcs, BatchTargetPcs
    <2>. QED
      BY <1>1, <2>1, LaterRecord, TargetRecord
  <1>7. CASE InlineFull
    BY <1>1, <1>7, RecordStill DEF InlineFull, durables
  <1>. QED
    BY <1>3, <1>4, <1>5, <1>6, <1>7, PublishRecord DEF InlineNext

\* Every step of a worker.
LEMMA WorkerRecord ==
    ASSUME KInv, NEW m \in Msgs, WorkerNext(m), NEW n \in Msgs
    PROVE  RecordMoves(n)
  <1>1. pc # "down" /\ UNCHANGED mains /\ TypeOK
    BY WorkerPcs DEF KInv, DInv, IInv
  <1>2. /\ phase[n] # "idle" => phase'[n] # "idle"
        /\ phase[m] # "idle"
    BY <1>1 DEF TypeOK, WorkerNext, Begin, PreFails, LocalAnswer, Mark, MarkSave, Register,
       StartFails, StartHermes, HermesEnds, AnswerBlocked, PostAnswer, Publish, PublishSave,
       ErrorNotice, ErrorSave, Working, Advance, End
  <1>3. CASE \/ Begin(m) \/ PreFails(m) \/ LocalAnswer(m) \/ Register(m) \/ StartFails(m)
             \/ StartHermes(m) \/ HermesEnds(m) \/ AnswerBlocked(m) \/ PostAnswer(m)
    BY <1>1, <1>2, <1>3, RecordStill DEF Begin, PreFails, LocalAnswer, Register, StartFails,
       StartHermes, HermesEnds, AnswerBlocked, PostAnswer, durables
  <1>4. CASE Mark(m)
    <2>1. state' = WithStage(state, {m}, "hermes_may_start") /\ seen' = seen
      BY <1>4 DEF Mark, MarkMayStart
    <2>. QED
      BY <1>1, <1>2, <2>1, StageRecord
  <1>5. CASE MarkSave(m) \/ PublishSave(m) \/ ErrorSave(m)
    BY <1>1, <1>2, <1>5, RecordSave DEF MarkSave, PublishSave, ErrorSave, PersistOk, PersistFails
  <1>6. CASE Publish(m) \/ ErrorNotice(m)
    <2>1. CASE UNCHANGED <<state, seen>>
      BY <1>1, <1>2, <2>1, RecordStill
    <2>2. CASE /\ state' = [state EXCEPT !.jobs = @ \cup {m}] /\ seen' = seen
               /\ phase'[m] \in {"publishSave", "errorSave"} /\ result' = result
      <3>1. phase[m] # "done" /\ phase[m] # "idle"
        BY <1>6 DEF Publish, ErrorNotice, Working
      <3>2. result[m] = "none" /\ m \notin state.uncertain /\ (pc \in BatchPcs => m \notin batch)
        BY <1>1, <3>1, RecordBefore
      <3>3. Answered(m)
        BY <1>1, <2>2, <3>2, Closed DEF PostedPhases, mains
      <3>. QED
        BY <1>1, <1>2, <2>2, <3>2, <3>3, JobRecord
    <2>3. phase \in [Msgs -> Phases]
      BY <1>1 DEF TypeOK
    <2>. QED
      BY <1>6, <2>1, <2>2, <2>3 DEF Publish, ErrorNotice, Advance
  <1>. QED
    BY <1>3, <1>4, <1>5, <1>6 DEF WorkerNext

\* Every step between a start of the process and its end.
LEMMA Records ==
    ASSUME KInv, Next, pc # "down", pc' # "down", NEW n \in Msgs
    PROVE  RecordMoves(n)
  <1>1. CASE ProcessNext
    <2>1. CASE BootSave
      BY <2>1, RecordSave DEF BootSave, PersistOk, workers
    <2>2. CASE RequestShutdown
      BY <2>2, RecordStill DEF RequestShutdown, durables, workers
    <2>. QED
      BY <1>1, <2>1, <2>2 DEF ProcessNext, Restart, BootSaveFails, Crash, Halt, LoseMemory
  <1>. QED
    BY <1>1, FinishRecord, LoopRecord, SubmitRecord, SteerRecord, InlineRecord, WorkerRecord
    DEF Next, MainNext

-----------------------------------------------------------------------------
(***************************************************************************)
(* The parts of the invariant.                                             *)
(***************************************************************************)
\* A turn that ended is recorded, or forgotten.
LEMMA DoneMoves ==
    ASSUME IInv, Next, NEW n \in Msgs, phase[n] = "done"
    PROVE  \/ phase'[n] = "idle" /\ result'[n] = "none"
           \/ /\ phase'[n] = "done"
              /\ result'[n] = result[n] \/ result'[n] = "retire"
  <1>1. phase \in [Msgs -> Phases] /\ result \in [Msgs -> Results]
    BY DEF IInv, TypeOK
  <1>2. CASE ProcessNext
    BY <1>1, <1>2 DEF ProcessNext, Restart, BootSave, BootSaveFails, Crash, RequestShutdown,
       Halt, LoseMemory, workers
  <1>3. CASE FinishNext
    <2>1. CASE FinishRejectedProof
      <3>1. TypeOK /\ (pc = "rejected" => phase[target] = "done")
        BY DEF IInv, BatchIsFresh
      <3>. QED
        BY <1>1, <2>1, <3>1, RejectedEffect DEF Retiring, workers
    <2>. QED
      BY <1>1, <1>3, <2>1 DEF FinishNext, FinishOk, FinishRetry, FinishFail, FinishRejected,
         PostCommitProof, PostCommitRetire, FinishFatal, RejectedSave, FinishSave, FinishDone,
         Finishing, NoRoomForTurn, Retire, workers
  <1>4. CASE LoopNext
    BY <1>4 DEF LoopNext, ReconcileDone, ReconcileTerminal, ReconcileSave, ReconcileEnd,
       LoopSave, Fetch, FetchSave, Undo, NothingToAdmit, Admit, AdmitSave, workers
  <1>5. CASE SubmitNext
    <2>1. CASE \E m \in Msgs : SubmitWorker(m)
      BY <1>1, <2>1 DEF SubmitWorker, Submitting, IInv, BatchIsFresh, BatchPcs, Pending
    <2>. QED
      BY <1>5, <2>1 DEF SubmitNext, SubmitFails, SteerDeferred, SteerMark, SubmitBroken,
         SubmitSave, SubmitEnd, workers
  <1>6. CASE SteerNext \/ InlineNext
    BY <1>6 DEF SteerNext, SteerSave, AbandonSave, SteerUnmark, SteerUndoSave, SteerRefused,
       SteerAppendFails, SteerDelivered, SteerUncertain, RetireSave, RetireRetry, InlineNext,
       InlineMark, InlineSave, InlineAnswered, InlinePublish, InlineFails, InlineFull, workers
  <1>7. ASSUME NEW m \in Msgs, WorkerNext(m)
        PROVE  phase'[n] = "done" /\ result'[n] = result[n]
    <2>1. m # n
      BY <1>7 DEF WorkerNext, Begin, PreFails, LocalAnswer, Mark, MarkSave, Register,
         StartFails, StartHermes, HermesEnds, AnswerBlocked, PostAnswer, Publish, PublishSave,
         ErrorNotice, ErrorSave, Working
    <2>. QED
      BY <1>1, <1>7, <2>1 DEF WorkerNext, Begin, PreFails, LocalAnswer, Mark, MarkSave, Register,
         StartFails, StartHermes, HermesEnds, AnswerBlocked, PostAnswer, Publish, PublishSave,
         ErrorNotice, ErrorSave, Working, Advance, End
  <1>. QED
    BY <1>2, <1>3, <1>4, <1>5, <1>6, <1>7 DEF Next, MainNext

\* An origin becomes Unspent only by its admission, and is refused an answer only
\* when nothing was recorded of it.
LEMMA UnspentMoves ==
    ASSUME KInv, ReliableAdmission, Next, pc # "down", NEW n \in Msgs
    PROVE  /\ Unspent(n)' => Unspent(n) \/ (Admit /\ pc' = "admitSave" /\ n \in batch')
           /\ Unanswered(n)' => Unanswered(n) \/ (Admit /\ pc' = "admitSave" /\ n \in batch')
  <1>1. DInv /\ IInv /\ phase[n] \in Phases /\ (phase[n] # "done" => result[n] = "none")
    BY RecordBefore DEF KInv, DInv
  <1>2. ASSUME ~ Unspent(n), phase'[n] \notin PostedPhases \/ result'[n] \in {"retry", "rejected"}
        PROVE  result[n] = "rejected" /\ result'[n] = "rejected" /\ phase'[n] \in PostedPhases
    <2>1. phase[n] \in PostedPhases /\ result[n] # "retry"
      BY <1>2 DEF Unspent
    <2>2. ~ (pc = "submit" /\ n \in batch)
      BY <1>2 DEF Unspent, Inlining, BatchPcs
    <2>3. result[n] = "rejected" /\ phase[n] = "done"
      BY <1>1, <1>2, <2>1, <2>2, WorkerEnds
    <2>. QED
      BY <1>1, <1>2, <2>3, DoneMoves DEF PostedPhases
  <1>3. ASSUME ~ Unspent(n), pc' \in BatchPcs, n \in batch', ~ Inlining(n)'
        PROVE  Admit /\ pc' = "admitSave"
    <2>1. CASE Admit
      BY <1>1, <1>3, <2>1, AdmitEffect DEF IInv, BatchPcs
    <2>2. CASE ~ Admit
      <3>1. pc \in BatchPcs /\ n \in batch
        BY <1>1, <1>3, <2>2, BatchMoves
      <3>2. pc = "inlinePublish" /\ n = target
        BY <1>3, <3>1 DEF Unspent, Inlining
      <3>3. InlinePublish \/ UNCHANGED mains
        BY <1>1, <1>3, <3>2, PublishMoves
      <3>. QED
        BY <1>3, <3>2, <3>3 DEF InlinePublish, ThenSave, mains, Inlining
    <2>. QED
      BY <2>1, <2>2
  <1>. QED
    BY <1>2, <1>3 DEF Unanswered, Unspent

\* A turn is put to its retirement as it is seen.
LEMMA RetireMoves ==
    ASSUME IInv, Next, NEW n \in Msgs, result'[n] = "retire"
    PROVE  result[n] = "retire" \/ n \in seen'
  <1>1. phase \in [Msgs -> Phases] /\ result \in [Msgs -> Results]
    BY DEF IInv, TypeOK
  <1>2. CASE ProcessNext
    BY <1>1, <1>2 DEF ProcessNext, Restart, BootSave, BootSaveFails, Crash, RequestShutdown,
       Halt, LoseMemory, workers
  <1>3. CASE FinishNext
    BY <1>1, <1>3 DEF FinishNext, FinishOk, FinishRetry, FinishFail, FinishRejected,
       PostCommitProof, PostCommitRetire, FinishFatal, RejectedSave, FinishRejectedProof,
       FinishSave, FinishDone, TerminateTurn, NoRoomForTurn, Retire, workers
  <1>4. CASE LoopNext
    BY <1>4 DEF LoopNext, ReconcileDone, ReconcileTerminal, ReconcileSave, ReconcileEnd,
       LoopSave, Fetch, FetchSave, Undo, NothingToAdmit, Admit, AdmitSave, workers
  <1>5. CASE SubmitNext
    BY <1>5 DEF SubmitNext, SubmitWorker, SubmitFails, SteerDeferred, SteerMark, SubmitBroken,
       SubmitSave, SubmitEnd, workers
  <1>6. CASE SteerNext \/ InlineNext
    BY <1>6 DEF SteerNext, SteerSave, AbandonSave, SteerUnmark, SteerUndoSave, SteerRefused,
       SteerAppendFails, SteerDelivered, SteerUncertain, RetireSave, RetireRetry, InlineNext,
       InlineMark, InlineSave, InlineAnswered, InlinePublish, InlineFails, InlineFull, workers
  <1>7. ASSUME NEW m \in Msgs, WorkerNext(m) PROVE result[n] = "retire"
    BY <1>1, <1>7 DEF WorkerNext, Begin, PreFails, LocalAnswer, Mark, MarkSave, Register,
       StartFails, StartHermes, HermesEnds, AnswerBlocked, PostAnswer, Publish, PublishSave,
       ErrorNotice, ErrorSave, Advance, End
  <1>. QED
    BY <1>2, <1>3, <1>4, <1>5, <1>6, <1>7 DEF Next, MainNext

\* What is written as seen is seen in memory.
LEMMA DiskSeen ==
    ASSUME IInv, Next, pc' # "down"
    PROVE  UNCHANGED disk \/ PersistedSeen(state, seen) \subseteq seen'
  <1>1. CASE ProcessNext
    BY <1>1 DEF ProcessNext, Restart, BootSave, BootSaveFails, Crash, RequestShutdown, Halt,
       LoseMemory, PersistOk, durables
  <1>2. CASE FinishNext
    BY <1>2 DEF FinishNext, FinishOk, FinishRetry, FinishFail, FinishRejected,
       PostCommitProof, PostCommitRetire, FinishFatal, RejectedSave, FinishRejectedProof,
       FinishSave, FinishDone, PersistOk, PersistFails, durables
  <1>3. CASE LoopNext
    BY <1>3 DEF LoopNext, ReconcileDone, ReconcileTerminal, ReconcileSave, ReconcileEnd,
       LoopSave, Fetch, FetchSave, Undo, NothingToAdmit, Admit, AdmitSave, PersistOk,
       PersistFails, durables
  <1>4. CASE SubmitNext
    BY <1>4 DEF SubmitNext, SubmitWorker, SubmitFails, SteerDeferred, SteerMark, SubmitBroken,
       SubmitSave, SubmitEnd, PersistOk, PersistFails, durables
  <1>5. CASE SteerNext \/ InlineNext
    BY <1>5 DEF SteerNext, SteerSave, AbandonSave, SteerUnmark, SteerUndoSave, SteerRefused,
       SteerAppendFails, SteerDelivered, SteerUncertain, RetireSave, RetireRetry, InlineNext,
       InlineMark, InlineSave, InlineAnswered, InlinePublish, InlineFails, InlineFull, PersistOk,
       PersistFails, durables
  <1>6. ASSUME NEW m \in Msgs, WorkerNext(m)
        PROVE  UNCHANGED disk \/ PersistedSeen(state, seen) \subseteq seen'
    BY <1>6 DEF WorkerNext, Begin, PreFails, LocalAnswer, Mark, MarkSave, Register, StartFails,
       StartHermes, HermesEnds, AnswerBlocked, PostAnswer, Publish, PublishSave, ErrorNotice,
       ErrorSave, PersistOk, PersistFails, durables
  <1>. QED
    BY <1>1, <1>2, <1>3, <1>4, <1>5, <1>6 DEF Next, MainNext

\* The first save is the only step of a start.
LEMMA BootMoves ==
    ASSUME KInv, Next, pc = "boot", pc' # "down"
    PROVE  BootSave
  <1>1. ~ MainNext
    <2>1. pc \notin BatchPcs
      BY DEF BatchPcs
    <2>. QED
      BY DEF MainNext, FinishNext, FinishOk, FinishRetry, FinishFail, FinishRejected,
         PostCommitProof, PostCommitRetire, FinishFatal, RejectedSave, FinishRejectedProof,
         FinishSave, FinishDone, Finishing, LoopNext, ReconcileDone, ReconcileTerminal,
         ReconcileSave, ReconcileEnd, LoopSave, Fetch, FetchSave, Undo, NothingToAdmit, Admit,
         AdmitSave, SubmitNext, SubmitWorker, SubmitFails, SteerDeferred, SteerMark,
         SubmitBroken, SubmitSave, SubmitEnd, Submitting, SteerNext, SteerSave, AbandonSave,
         SteerUnmark, SteerUndoSave, SteerRefused, SteerAppendFails, SteerDelivered,
         SteerUncertain, RetireSave, RetireRetry, InlineNext, InlineMark, InlineSave,
         InlineAnswered, InlinePublish, InlineFails, InlineFull
  <1>2. ASSUME NEW m \in Msgs, WorkerNext(m) PROVE FALSE
    BY <1>2, WorkerPcs
  <1>. QED
    BY <1>1, <1>2 DEF Next, ProcessNext, Restart, BootSaveFails, Crash, RequestShutdown, Halt,
       LoseMemory, LoopPcs

\* The retirement is reached with its turn.
LEMMA RetireReachedStep ==
    ASSUME KInv, Next, pc' # "down"
    PROVE  RetireIsReached'
  <1>. SUFFICES ASSUME pc' = "retireTurn" PROVE result'[target'] = "retire"
    BY DEF RetireIsReached
  <1>1. IInv /\ result \in [Msgs -> Results] /\ round \in {"queue", "page", "shutdown"}
    BY DEF KInv, DInv, IInv, TypeOK
  <1>2. CASE ProcessNext
    BY <1>2 DEF ProcessNext, Restart, BootSave, BootSaveFails, Crash, RequestShutdown, Halt,
       LoseMemory, Goto
  <1>3. CASE FinishNext
    <2>1. pc = "rejected" => target \in Msgs
      BY <1>1 DEF IInv, TypeOK, TargetPcs
    <2>. QED
      BY <1>1, <1>3, <2>1 DEF FinishNext, FinishOk, FinishRetry, FinishFail, FinishRejected,
         PostCommitProof, PostCommitRetire, FinishFatal, RejectedSave, FinishRejectedProof,
         FinishSave, FinishDone, Finishing, NoRoomForTurn, NextIteration, Goto, Fatal
  <1>4. CASE LoopNext
    BY <1>4 DEF LoopNext, ReconcileDone, ReconcileTerminal, ReconcileSave, ReconcileEnd,
       LoopSave, Fetch, FetchDue, FetchSave, Undo, NothingToAdmit, Admit, AdmitCandidates,
       AdmitSave, EndOfBatch, NextIteration, Goto, Fatal, mains
  <1>5. CASE SubmitNext
    BY <1>5 DEF SubmitNext, SubmitWorker, SubmitFails, SteerDeferred, SteerMark, SubmitBroken,
       SubmitSave, SubmitEnd, Submitting, RetryLater, Defer, ThenSave, EndOfBatch,
       NextIteration, Goto, Fatal
  <1>6. CASE SteerNext
    BY <1>6 DEF SteerNext, SteerSave, AbandonSave, SteerUnmark, SteerUndoSave, SteerRefused,
       SteerAppendFails, SteerDelivered, SteerUncertain, RetireSave, RetireRetry, RetryLater,
       Defer, ThenSave, NextIteration, Goto, Fatal, mains
  <1>7. CASE InlineNext
    BY <1>7 DEF InlineNext, InlineMark, InlineSave, InlineAnswered, InlinePublish, InlineFails,
       InlineFull, RetryLater, ThenSave, NextIteration, Goto, Fatal
  <1>8. ASSUME NEW m \in Msgs, WorkerNext(m) PROVE result'[target'] = "retire"
    <2>1. UNCHANGED <<pc, target>>
      BY <1>8, WorkerPcs DEF mains
    <2>2. result[target] = "retire" /\ target \in Msgs /\ phase[target] = "done"
      BY <1>1, <2>1 DEF KInv, RetireIsReached, IInv, TypeOK, TargetPcs, BatchIsFresh
    <2>3. phase'[target] # "idle"
      BY <1>1, <1>8, <2>2 DEF IInv, TypeOK, WorkerNext, Begin, PreFails, LocalAnswer, Mark, MarkSave,
         Register, StartFails, StartHermes, HermesEnds, AnswerBlocked, PostAnswer, Publish,
         PublishSave, ErrorNotice, ErrorSave, Advance, End
    <2>. QED
      BY <1>1, <2>1, <2>2, <2>3, DoneMoves
  <1>. QED
    BY <1>2, <1>3, <1>4, <1>5, <1>6, <1>7, <1>8 DEF Next, MainNext

\* A start takes over what the file holds.
LEMMA RestartRecord ==
    ASSUME KInv, Restart, DInv', NEW n \in Msgs
    PROVE  RecordOK(n)' /\ MemoryOK(n)'
  <1>. DEFINE st == disk.st
              L == LoadedSeen
              old == st.retries \cap (L \cup st.uncertain)
              s0 == LoadedState
              ended == MayStart(s0) \ s0.jobs
              done == MayStart(s0) \cap s0.jobs
              s1 == Terminalize(s0, ended)
              s2 == RemoveInFlight(s1, done)
              s3 == ReturnAdmittedToRetry(s2, Msgs)
  <1>1. /\ st \in DurableStates /\ old \in SUBSET Msgs
        /\ pc = "down" /\ pc' = "boot" /\ disk' = disk /\ UNCHANGED <<phase, result, batch, target>>
        /\ phase[n] = "idle" /\ result[n] = "none"
    BY DEF KInv, DInv, IInv, TypeOK, DurableStates, Restart, workers, NothingRunsYet, WorkersAreStaged
  <1>2. /\ s0 \in DurableStates /\ s0.flight = st.flight /\ s0.retries = st.retries \ old
        /\ s0.uncertain = st.uncertain /\ s0.dead = st.dead /\ s0.lost = st.lost
        /\ s0.jobs = st.jobs
    BY <1>1, RemoveRetryFacts DEF LoadedState
  <1>3. PICK J \in SUBSET s0.jobs :
          /\ state' = [s3 EXCEPT !.jobs = @ \ J, !.lost = @ \cup J]
          /\ seen' = L \cup MayStart(s0)
    BY DEF Restart, RecoverInFlight
  <1>. HIDE DEF s0
  <1>4. /\ ended \in SUBSET Msgs /\ done \in SUBSET Msgs
        /\ MayStart(s0) = ended \cup done
        /\ MayStart(s0) = {k \in Msgs : st.flight[k] = "hermes_may_start"}
    BY <1>2 DEF MayStart
  <1>. HIDE DEF ended, done, old
  <1>5. /\ s1 \in DurableStates
        /\ \A k \in Msgs : s1.flight[k] = IF k \in ended THEN "none" ELSE s0.flight[k]
        /\ s1.retries = s0.retries \ ended
        /\ s1.uncertain = s0.uncertain /\ s1.dead = s0.dead \cup ended /\ s1.lost = s0.lost
        /\ s1.jobs = s0.jobs
    BY <1>2, <1>4, TerminalizeFacts
  <1>. HIDE DEF s1
  <1>6. /\ s2 \in DurableStates
        /\ \A k \in Msgs : s2.flight[k] = IF k \in done THEN "none" ELSE s1.flight[k]
        /\ s2.retries = s1.retries
        /\ s2.uncertain = s1.uncertain /\ s2.dead = s1.dead /\ s2.lost = s1.lost
        /\ s2.jobs = s1.jobs
    BY <1>4, <1>5, RemoveInFlightFacts
  <1>. HIDE DEF s2
  <1>7. /\ s3 \in DurableStates
        /\ s3.retries = s2.retries \cup {k \in Msgs : s2.flight[k] = "admitted"}
        /\ s3.uncertain = s2.uncertain /\ s3.dead = s2.dead /\ s3.lost = s2.lost
        /\ s3.jobs = s2.jobs
    BY <1>6, ReturnAdmittedFacts
  <1>. HIDE DEF s3
  <1>8. /\ state'.retries = s3.retries /\ state'.uncertain = s3.uncertain
        /\ state'.dead = s3.dead /\ state'.lost = s3.lost \cup J /\ state'.jobs = s3.jobs \ J
    BY <1>3, <1>7 DEF DurableStates
  <1>9. FileOK(n) /\ (n \in L <=> n \in disk.seen /\ n \notin st.uncertain)
    BY DEF KInv, LoadedSeen
  <1>10. st.flight[n] \in {"none", "admitted", "hermes_may_start"}
    BY <1>1 DEF DurableStates, Stages
  <1>11. n \in old => n \in L \cup st.uncertain
    BY DEF old
  <1>12. ~ Unanswered(n)'
    BY <1>1 DEF Unanswered, Unspent, PostedPhases, BatchPcs
  <1>13. n \in state'.dead <=> n \in st.dead \/ n \in ended
    BY <1>2, <1>5, <1>6, <1>7, <1>8
  <1>14. RecordOK(n)'
    BY <1>1, <1>2, <1>3, <1>5, <1>6, <1>7, <1>8, <1>9, <1>12, <1>13
       DEF RecordOK, FileOK, Unanswered
  <1>15. Held(st, disk.seen, n) => Held(state', seen', n)
    <2>1. CASE st.flight[n] = "hermes_may_start" \/ n \in disk.seen \/ n \in st.dead
      BY <1>3, <1>4, <1>9, <1>13, <2>1 DEF Held, FileOK
    <2>2. CASE n \notin ended \cup done /\ n \in st.retries
      BY <1>2, <1>3, <1>5, <1>6, <1>7, <1>8, <1>9, <1>11, <1>13, <2>2 DEF Held, FileOK
    <2>3. CASE st.flight[n] = "admitted"
      <3>1. n \notin ended \cup done
        BY <1>4, <2>3
      <3>. QED
        BY <1>2, <1>5, <1>6, <1>7, <1>8, <2>3, <3>1 DEF Held
    <2>. QED
      BY <1>4, <1>10, <2>1, <2>2, <2>3 DEF Held
  <1>16. MemoryOK(n)'
    BY <1>1, <1>2, <1>3, <1>5, <1>6, <1>7, <1>8, <1>9, <1>13, <1>15 DEF MemoryOK
  <1>. QED
    BY <1>14, <1>16

\* The traces of an origin agree after every step of the process.
LEMMA TracesStep ==
    ASSUME KInv, ReliableAdmission, Next, DInv', pc # "down", pc' # "down", NEW n \in Msgs
    PROVE  RecordOK(n)'
  <1>1. /\ RecordOK(n) /\ HeldAt(n)
        /\ n \in state.uncertain => phase[n] = "idle"
        /\ phase[n] # "done" => result[n] = "none"
    BY RecordBefore
  <1>2. RecordMoves(n) /\ MovesAt(n)
    BY Records, Moves DEF KInv
  <1>3. IInv /\ IInv' /\ TypeOK
    BY DEF KInv, DInv, IInv
  <1>4. /\ Unspent(n)' => Unspent(n) \/ (Admit /\ pc' = "admitSave" /\ n \in batch')
        /\ Unanswered(n)' => Unanswered(n) \/ (Admit /\ pc' = "admitSave" /\ n \in batch')
    BY UnspentMoves
  <1>5. ASSUME Admit, pc' = "admitSave", n \in batch'
        PROVE  n \notin seen' /\ n \notin state'.jobs /\ n \notin state'.dead
    <2>1. /\ n \notin seen /\ n \notin Pending /\ n \notin InFlight(state)
          /\ n \notin state.uncertain /\ pc = "admit"
      BY <1>3, <1>5, AdmitEffect
    <2>2. phase[n] = "idle" /\ state.flight[n] = "none" /\ result[n] = "none"
      BY <1>1, <2>1 DEF Pending, InFlight
    <2>3. n \notin state.jobs /\ n \notin state.dead
      BY <1>1, <2>1, <2>2 DEF RecordOK
    <2>. QED
      BY <1>5, <2>1, <2>3, AdmitRecord
  <1>6. Unanswered(n)' => n \notin seen' /\ n \notin state'.jobs
    BY <1>1, <1>2, <1>4, <1>5 DEF RecordOK, RecordMoves, Answered
  <1>7. Unspent(n)' => n \notin state'.dead
    BY <1>1, <1>2, <1>4, <1>5 DEF RecordOK, RecordMoves, Spent
  <1>8. n \in state'.uncertain => n \in state'.dead
    BY <1>1, <1>2 DEF RecordOK, RecordMoves
  <1>9. ASSUME n \in state'.jobs
        PROVE  /\ n \notin state'.uncertain
               /\ n \in seen' \/ phase'[n] # "idle" \/ state'.flight[n] = "hermes_may_start"
    <2>1. CASE n \in state.jobs
      <3>1. ~ Unanswered(n) /\ n \notin state.uncertain
        BY <1>1, <2>1 DEF RecordOK
      <3>2. n \notin state'.uncertain
        BY <1>2, <3>1 DEF RecordMoves, Unanswered
      <3>3. ~ Forgettable(n)
        BY <3>1 DEF Forgettable, Unanswered, Unspent, Inlining
      <3>4. CASE n \in seen \/ state.flight[n] = "hermes_may_start"
        BY <1>2, <3>2, <3>3, <3>4 DEF MovesAt, Known
      <3>5. CASE phase[n] # "idle"
        <4>1. result[n] # "retry"
          BY <3>1 DEF Unanswered, Unspent
        <4>. QED
          BY <1>2, <3>2, <3>5, <4>1 DEF RecordMoves
      <3>. QED
        BY <1>1, <2>1, <3>2, <3>4, <3>5 DEF RecordOK
    <2>2. CASE n \notin state.jobs
      BY <1>2, <1>9, <2>2 DEF RecordMoves
    <2>. QED
      BY <2>1, <2>2
  <1>10. ASSUME pc' # "boot", n \in state'.dead, n \notin state'.uncertain
         PROVE  n \in seen' \/ result'[n] = "rejected"
    <2>1. n \notin state.uncertain
      BY <1>2, <1>10 DEF MovesAt
    <2>2. CASE n \notin state.dead
      BY <1>2, <1>10, <2>2 DEF RecordMoves
    <2>3. CASE n \in state.dead /\ pc = "boot"
      <3>1. BootSave
        BY <2>3, BootMoves
      <3>2. state.flight[n] = "none" /\ seen' = PersistedSeen(state, seen)
        BY <2>3, <3>1 DEF KInv, BootIsEmpty, BootSave, PersistOk
      <3>. QED
        BY <2>1, <2>3, <3>2 DEF PersistedSeen
    <2>4. CASE n \in seen
      BY <1>2, <1>10, <2>4 DEF RecordMoves
    <2>5. CASE result[n] = "rejected"
      <3>1. \/ phase'[n] = "idle"
            \/ result'[n] = "rejected"
            \/ n \in seen'
        BY <1>1, <1>3, <2>5, DoneMoves, RetireMoves
      <3>. QED
        BY <1>1, <1>2, <2>5, <3>1 DEF RecordMoves
    <2>. QED
      BY <1>1, <2>1, <2>2, <2>3, <2>4, <2>5 DEF RecordOK
  <1>11. ASSUME result'[n] = "retire" PROVE n \in seen'
    <2>1. result[n] = "retire" \/ n \in seen'
      BY <1>3, <1>11, RetireMoves
    <2>2. CASE result[n] = "retire"
      <3>1. n \in seen' \/ n \in state'.uncertain
        BY <1>1, <1>2, <2>2 DEF RecordOK, RecordMoves
      <3>2. phase'[n] = "done"
        BY <1>3, <1>11 DEF IInv, WorkersAreStaged
      <3>3. n \notin state'.uncertain
        BY <3>2 DEF DInv, UncertainIsIdle
      <3>. QED
        BY <3>1, <3>3
    <2>. QED
      BY <2>1, <2>2
  <1>. QED
    BY <1>6, <1>7, <1>8, <1>9, <1>10, <1>11 DEF RecordOK

\* What the file holds afterwards, the memory holds too.
LEMMA FileStep ==
    ASSUME KInv, ReliableAdmission, Next, NEW n \in Msgs
    PROVE  FileOK(n)' /\ (pc # "down" /\ pc' # "down" => MemoryOK(n)')
  <1>1. IInv /\ FileOK(n)
    BY DEF KInv, DInv
  <1>2. UNCHANGED disk \/ (pc # "down" /\ disk' = Image(state, seen))
    BY <1>1, DiskStep
  <1>3. FileOK(n)'
    <2>1. CASE pc # "down" /\ disk' = Image(state, seen)
      <3>1. RecordOK(n)
        BY <2>1, RecordBefore
      <3>. QED
        BY <2>1, <3>1 DEF FileOK, RecordOK, Image, PersistedSeen
    <2>. QED
      BY <1>1, <1>2, <2>1 DEF FileOK
  <1>4. ASSUME pc # "down", pc' # "down" PROVE MemoryOK(n)'
    <2>1. RecordMoves(n) /\ MovesAt(n)
      BY <1>4, Records, Moves DEF KInv
    <2>2. RecordOK(n) /\ HeldAt(n) /\ MemoryOK(n)
      BY <1>4, RecordBefore DEF KInv
    <2>3. CASE UNCHANGED disk
      BY <2>1, <2>2, <2>3 DEF MemoryOK, RecordMoves, MovesAt
    <2>4. CASE ~ UNCHANGED disk
      <3>1. disk'.st = state /\ disk'.seen = PersistedSeen(state, seen)
        BY <1>2, <2>4 DEF Image
      <3>2. n \in disk'.seen => n \in seen'
        BY <1>1, <1>4, <2>4, <3>1, DiskSeen
      <3>3. Held(disk'.st, disk'.seen, n) => Held(state, seen, n)
        BY <2>2, <3>1 DEF Held, PersistedSeen, RecordOK, HeldAt
      <3>. QED
        BY <2>1, <3>1, <3>2, <3>3 DEF MemoryOK, RecordMoves
    <2>. QED
      BY <2>3, <2>4
  <1>. QED
    BY <1>3, <1>4

LEMMA InitRetention == Init => KInv
  <1>. SUFFICES ASSUME Init PROVE KInv
    OBVIOUS
  <1>1. DInv
    BY InitDurable
  <1>. QED
    BY <1>1 DEF Init, KInv, InlineIsMarked, BootIsEmpty, RetireIsReached, FileOK, EmptyState

LEMMA StepRetention == ReliableAdmission /\ KInv /\ [Next]_vars => KInv'
  <1>. SUFFICES ASSUME ReliableAdmission, KInv, [Next]_vars PROVE KInv'
    OBVIOUS
  <1>1. DInv' /\ IInv
    BY StepDurable DEF KInv, DInv
  <1>2. CASE Next
    <2>1. InlineIsMarked'
      BY <1>1, <1>2, InlineStep DEF KInv
    <2>2. \A n \in Msgs : FileOK(n)'
      BY <1>2, FileStep
    <2>3. CASE pc' = "down"
      BY <1>1, <2>1, <2>2, <2>3 DEF KInv, BootIsEmpty, RetireIsReached
    <2>4. CASE pc' # "down" /\ pc = "down"
      <3>1. Restart /\ pc' = "boot"
        BY <1>2, <2>4, UpStep DEF KInv, Restart
      <3>2. \A n \in Msgs : state'.flight[n] = "none" /\ RecordOK(n)' /\ MemoryOK(n)'
        BY <1>1, <3>1, RestartEffect, RestartRecord
      <3>. QED
        BY <1>1, <2>1, <2>2, <3>1, <3>2 DEF KInv, BootIsEmpty, RetireIsReached
    <2>5. CASE pc' # "down" /\ pc # "down"
      <3>1. pc' # "boot"
        <4>1. CASE pc = "boot"
          BY <1>2, <2>5, <4>1, BootMoves DEF BootSave, Goto
        <4>2. CASE MainNext
          BY <1>1, <4>2, MainPcs
        <4>3. CASE ProcessNext
          BY <2>5, <4>3 DEF ProcessNext, Restart, BootSave, BootSaveFails, Crash, RequestShutdown,
             Halt, LoseMemory, Goto
        <4>4. ASSUME NEW m \in Msgs, WorkerNext(m) PROVE pc' = pc
          BY <4>4, WorkerPcs DEF mains
        <4>. QED
          BY <1>2, <4>1, <4>2, <4>3, <4>4 DEF Next
      <3>2. RetireIsReached'
        BY <1>2, <2>5, RetireReachedStep
      <3>3. \A n \in Msgs : RecordOK(n)' /\ MemoryOK(n)'
        <4>. TAKE n \in Msgs
        <4>1. RecordOK(n)'
          BY <1>1, <1>2, <2>5, KInv, ReliableAdmission, TracesStep
        <4>2. MemoryOK(n)'
          BY <1>1, <1>2, <2>5, FileStep
        <4>. QED
          BY <4>1, <4>2
      <3>. QED
        BY <1>1, <2>1, <2>2, <3>1, <3>2, <3>3 DEF KInv, BootIsEmpty
    <2>. QED
      BY <2>3, <2>4, <2>5
  <1>3. CASE UNCHANGED vars
    BY <1>1, <1>3 DEF vars, durables, mains, workers, history, KInv, InlineIsMarked, BootIsEmpty,
       RetireIsReached, FileOK, RecordOK, MemoryOK, Unanswered, Unspent, Inlining, Held
  <1>. QED
    BY <1>2, <1>3

-----------------------------------------------------------------------------
(***************************************************************************)
(* What is kept.                                                           *)
(***************************************************************************)
\* Uncertain steering never counts as seen in the file, has no worker and was given
\* to Hermes once at most (UncertainSteeringKept).
THEOREM UncertainIsKept ==
    ASSUME ReliableAdmission
    PROVE  Spec => []UncertainSteeringKept
  <1>1. KInv => UncertainSteeringKept
    <2>. SUFFICES ASSUME KInv PROVE UncertainSteeringKept
      OBVIOUS
    <2>1. disk.st.uncertain \subseteq Msgs /\ disk.seen \subseteq Msgs
      BY DEF KInv, DInv, IInv, TypeOK, DurableStates
    <2>2. ASSUME NEW n \in disk.st.uncertain PROVE phase[n] = "idle" /\ fed[n] <= 1
      <3>1. CASE pc = "down"
        BY <2>1, <2>2, <3>1 DEF KInv, DInv, IInv, NothingRunsYet, HermesAtMostOnce
      <3>2. CASE pc # "down"
        BY <2>1, <2>2, <3>2 DEF KInv, DInv, IInv, UncertainIsIdle, HermesAtMostOnce
      <3>. QED
        BY <3>1, <3>2
    <2>. QED
      BY <2>1, <2>2 DEF UncertainSteeringKept, KInv, FileOK, Pending
  <1>. QED
    BY <1>1, InitRetention, StepRetention, PTL DEF Spec

\* No save forgets an origin that the file held (NoSaveForgets): what is queued or
\* in flight there stays so, is seen or becomes a dead letter.
THEOREM SavesForgetNothing ==
    ASSUME ReliableAdmission
    PROVE  Spec => NoSaveForgets
  <1>. DEFINE A == \A m \in Msgs :
                m \in disk.st.retries \cup InFlight(disk.st)
                  => m \in disk'.st.retries \cup InFlight(disk'.st) \cup disk'.seen \cup disk'.st.dead
  <1>1. ASSUME KInv, [Next]_vars PROVE [A]_disk
    <2>. SUFFICES ASSUME disk' # disk,
                         NEW n \in Msgs, n \in disk.st.retries \cup InFlight(disk.st)
                  PROVE  n \in disk'.st.retries \cup InFlight(disk'.st) \cup disk'.seen \cup disk'.st.dead
      OBVIOUS
    <2>1. Next
      BY <1>1 DEF vars, durables
    <2>2. pc # "down" /\ disk'.st = state /\ disk'.seen = PersistedSeen(state, seen)
      BY <1>1, <2>1, DiskStep DEF KInv, DInv, Image
    <2>3. Held(state, seen, n) /\ RecordOK(n)
      BY <1>1, <2>2, RecordBefore DEF KInv, MemoryOK, Held, InFlight
    <2>. QED
      BY <2>2, <2>3 DEF Held, InFlight, RecordOK, PersistedSeen
  <1>2. NoSaveForgets <=> [][A]_disk
    BY DEF NoSaveForgets
  <1>. HIDE DEF A
  <1>. QED
    BY <1>1, <1>2, InitRetention, StepRetention, PTL DEF Spec

\* No save takes a dead letter or a seen identifier away (TerminalIsRetained), but
\* that of steering which becomes uncertain.
THEOREM TerminalStays ==
    ASSUME ReliableAdmission
    PROVE  Spec => TerminalIsRetained
  <1>. DEFINE A == /\ disk.st.dead \subseteq disk'.st.dead
                   /\ disk.st.lost \subseteq disk'.st.lost
                   /\ disk.seen \ disk'.st.uncertain \subseteq disk'.seen
  <1>1. ASSUME KInv, [Next]_vars PROVE [A]_disk
    <2>. SUFFICES ASSUME disk' # disk PROVE A
      OBVIOUS
    <2>1. Next
      BY <1>1 DEF vars, durables
    <2>2. pc # "down" /\ disk'.st = state /\ disk'.seen = PersistedSeen(state, seen)
      BY <1>1, <2>1, DiskStep DEF KInv, DInv, Image
    <2>3. disk \in Images
      BY <1>1, TypeParts DEF KInv, DInv, IInv, DurablesOK
    <2>4. \A n \in Msgs : MemoryOK(n)
      BY <1>1, <2>2 DEF KInv
    <2>. QED
      BY <2>2, <2>3, <2>4 DEF MemoryOK, PersistedSeen, Images, DurableStates
  <1>2. TerminalIsRetained <=> [][A]_disk
    BY DEF TerminalIsRetained
  <1>. HIDE DEF A
  <1>. QED
    BY <1>1, <1>2, InitRetention, StepRetention, PTL DEF Spec
=============================================================================
