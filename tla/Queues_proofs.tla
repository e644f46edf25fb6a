---------------------------- MODULE Queues_proofs ----------------------------
(***************************************************************************)
(* The queues of the durable state, whichever saves fail: no origin is in  *)
(* both queues, the origins of the pool are in the file, and no queue      *)
(* outgrows its limit.  Nothing is assumed of the saves here.              *)
(***************************************************************************)
EXTENDS Bridge_proofs, FiniteSetTheorems

(***************************************************************************)
(* The invariant.                                                          *)
(***************************************************************************)
\* n is in one of the two queues of a durable state, and not in both.
Queued(st, n) == n \in st.retries \/ st.flight[n] # "none"
Apart(st, n) == n \in st.retries => st.flight[n] = "none"

\* The entry that the worker of n, or the turn n was fed to, relies on.
InUse(st, sn, n) ==
    /\ phase[n] # "idle" =>
        /\ n \notin st.uncertain
        /\ st.flight[n] # "none" \/ (result[n] = "retire" /\ n \in sn)
    /\ steerOf[n] # NoMsg =>
        /\ phase[n] = "idle"
        /\ n \notin st.uncertain
        /\ st.flight[n] # "none" \/ n \in sn

SavedOK(n) ==
    /\ Apart(disk.st, n)
    /\ phase[n] # "idle" => disk.st.flight[n] # "none" \/ n \in disk.seen

\* A prepared origin that was not submitted yet.
WaitingOK(n) ==
    /\ phase[n] = "idle"
    /\ steerOf[n] = NoMsg
    /\ state.flight[n] # "none"
    /\ n \notin state.uncertain
    /\ pc # "admitSave" => disk.st.flight[n] # "none"

\* Where the copies of a rollback are kept.
RollbackPcs == {"fetchSave", "admitSave", "undo"}

\* The places of jobs that are taken, or due to a reply that was posted.
Claimed == state.jobs \cup {m \in Msgs : phase[m] = "publish"}

Bounded(st) ==
    /\ Cardinality(st.retries \cup InFlight(st)) <= MaxRetries
    /\ DeadLetterCount(st) <= MaxDead
    /\ Cardinality(st.jobs) <= MaxJobs

OriginsOK ==
    /\ \A n \in Msgs : phase[n] # "done" => result[n] = "none"
    /\ \A n \in Msgs : Apart(state, n) /\ InUse(state, seen, n)
    /\ \A n \in Msgs : SavedOK(n)

CopiesOK ==
    pc \in RollbackPcs =>
        /\ \A n \in Msgs : Apart(before.st, n) /\ InUse(before.st, before.seen, n)
        /\ before.st.jobs \subseteq state.jobs
        /\ Bounded(before.st)

BatchWaits ==
    /\ pc \in BatchPcs => \A n \in batch : WaitingOK(n)
    /\ pc \in BatchTargetPcs => target \in batch
    /\ pc \in {"rejectSave", "rejected"} => phase[target] = "done"

LimitsOK ==
    /\ Bounded(state)
    /\ Bounded(disk.st)
    /\ Cardinality(Claimed) <= MaxJobs
    /\ pc \in {"steerSave", "steer"} => DeadLetterCount(state) < MaxDead

QInv == TypeOK /\ NothingRunsYet /\ OriginsOK /\ CopiesOK /\ BatchWaits /\ LimitsOK

-----------------------------------------------------------------------------
(***************************************************************************)
(* What the functions of DurableState do to the queues.                    *)
(***************************************************************************)
\* n is in no queue it was not in, and in both only if it was in both.
Narrows(s, t, n) == (Queued(s, n) => Queued(t, n)) /\ (Apart(t, n) => Apart(s, n))

LEMMA NarrowChain ==
    ASSUME NEW s, NEW t, NEW u, NEW n, Narrows(s, t, n), Narrows(t, u, n)
    PROVE  Narrows(s, u, n)
  BY DEF Narrows

\* The functions that remove entries, or move them to the other queue.
LEMMA RemovalsNarrow ==
    ASSUME NEW st \in DurableStates, NEW M \in SUBSET Msgs, NEW n \in Msgs
    PROVE  /\ Narrows(RemoveInFlight(st, M), st, n)
           /\ Narrows(RemoveRetry(st, M), st, n)
           /\ Narrows(Terminalize(st, M), st, n)
           /\ Narrows(ReturnAdmittedToRetry(st, M), st, n)
  <1>1. Narrows(RemoveInFlight(st, M), st, n)
    BY RemoveInFlightFacts DEF Narrows, Queued, Apart
  <1>2. Narrows(RemoveRetry(st, M), st, n)
    BY RemoveRetryFacts DEF Narrows, Queued, Apart
  <1>3. Narrows(Terminalize(st, M), st, n)
    BY TerminalizeFacts DEF Narrows, Queued, Apart
  <1>4. Narrows(ReturnAdmittedToRetry(st, M), st, n)
    BY ReturnAdmittedFacts DEF Narrows, Queued, Apart
  <1>. QED
    BY <1>1, <1>2, <1>3, <1>4

\* The functions that add an entry, when the origin had one.
LEMMA EntriesNarrow ==
    ASSUME NEW st \in DurableStates, NEW M \in SUBSET Msgs, NEW n \in Msgs
    PROVE  /\ (n \in M => Queued(st, n)) => Narrows(UpsertRetry(st, M), st, n)
           /\ \A stage \in Stages :
                (n \in M => st.flight[n] # "none") => Narrows(WithStage(st, M, stage), st, n)
           /\ \A m \in Msgs : st.flight[m] # "none" => Narrows(MarkMayStart(st, m), st, n)
  <1>1. ASSUME n \in M => Queued(st, n) PROVE Narrows(UpsertRetry(st, M), st, n)
    BY <1>1, UpsertRetryFacts DEF Narrows, Queued, Apart
  <1>2. ASSUME NEW stage \in Stages, n \in M => st.flight[n] # "none"
        PROVE  Narrows(WithStage(st, M, stage), st, n)
    BY <1>2, WithStageFacts DEF Narrows, Queued, Apart
  <1>3. ASSUME NEW m \in Msgs, st.flight[m] # "none"
        PROVE  Narrows(MarkMayStart(st, m), st, n)
    BY <1>3, MarkMayStartFacts DEF Narrows, Queued, Apart
  <1>. QED
    BY <1>1, <1>2, <1>3

\* Letters and jobs are not entries.
LEMMA LettersNarrow ==
    ASSUME NEW s \in DurableStates, NEW t \in DurableStates, NEW n \in Msgs,
           s.retries = t.retries, s.flight = t.flight
    PROVE  Narrows(s, t, n)
  BY DEF Narrows, Queued, Apart

-----------------------------------------------------------------------------
(***************************************************************************)
(* What a step does to the entry of one origin.                            *)
(***************************************************************************)
\* The worker of n goes on or ends, and so does the turn it was fed to.
WorkStays(n) ==
    /\ phase'[n] # "idle" => phase[n] # "idle" /\ (result[n] = "retire" => result'[n] = "retire")
    /\ steerOf'[n] # NoMsg => steerOf[n] # NoMsg /\ phase'[n] = phase[n]

EntryStaysIn(n) ==
    /\ state.flight[n] # "none" => state'.flight[n] # "none"
    /\ n \in state'.uncertain => n \in state.uncertain
    /\ n \in seen /\ n \notin state.uncertain => n \in seen'

LEMMA UseStays ==
    ASSUME NEW n \in Msgs, InUse(state, seen, n), WorkStays(n), EntryStaysIn(n)
    PROVE  InUse(state, seen, n)'
  BY DEF InUse, WorkStays, EntryStaysIn

\* Nothing relies on the entry of n any longer.
LEMMA UseEnds ==
    ASSUME NEW n \in Msgs, phase'[n] = "idle", steerOf'[n] = NoMsg
    PROVE  InUse(state, seen, n)'
  BY DEF InUse

LEMMA SteeringUse ==
    ASSUME QInv, NEW m \in Msgs, NEW n \in SteeringOf(m)
    PROVE  n \in Msgs /\ phase[n] = "idle"
  BY MsgsAssumption DEF SteeringOf, QInv, OriginsOK, InUse

LEMMA RetireWork ==
    ASSUME QInv, NEW m \in Msgs, Retire(m), NEW n \in Msgs
    PROVE  /\ WorkStays(n)
           /\ n = m => phase'[n] = "idle"
           /\ n \in SteeringOf(m) => phase'[n] = "idle" /\ steerOf'[n] = NoMsg
  <1>1. WorkStays(n) /\ (n = m => phase'[n] = "idle")
    <2>1. phase \in [Msgs -> Phases] /\ result \in [Msgs -> Results] /\ NoMsg \notin Msgs
      BY MsgsAssumption DEF QInv, TypeOK
    <2>2. steerOf'[n] # NoMsg => steerOf[n] = steerOf'[n]
      BY DEF Retire
    <2>3. steerOf[n] # NoMsg => phase[n] = "idle"
      BY DEF QInv, OriginsOK, InUse
    <2>. QED
      BY <2>1, <2>2, <2>3 DEF Retire, WorkStays
  <1>2. ASSUME n \in SteeringOf(m) PROVE phase'[n] = "idle" /\ steerOf'[n] = NoMsg
    <2>1. phase[n] = "idle"
      BY <1>2, SteeringUse
    <2>. QED
      BY <1>2, <2>1 DEF Retire, SteeringOf, QInv, TypeOK
  <1>. QED
    BY <1>1, <1>2

\* Saving changes no entry, and n stays seen.
LEMMA SaveEntry ==
    ASSUME NEW n \in Msgs, seen' = PersistedSeen(state, seen), UNCHANGED state
    PROVE  EntryStaysIn(n) /\ Narrows(state', state, n)
  BY DEF EntryStaysIn, PersistedSeen, Narrows

LEMMA SameEntry ==
    ASSUME NEW n \in Msgs, UNCHANGED <<state.retries, state.flight, state.uncertain>>,
           n \in seen => n \in seen'
    PROVE  EntryStaysIn(n) /\ Narrows(state', state, n)
  BY DEF EntryStaysIn, Narrows, Queued, Apart

LEMMA SameWork ==
    ASSUME NEW n \in Msgs, UNCHANGED <<phase, result, steerOf>>
    PROVE  WorkStays(n)
  BY DEF WorkStays

\* What holds of one origin after the step.
Sound(n) == Narrows(state', state, n) /\ InUse(state, seen, n)'

LEMMA TerminateSound ==
    ASSUME QInv, NEW m \in Msgs, TerminateTurn(m), Retire(m) \/ Retiring(m), NEW n \in Msgs
    PROVE  Sound(n)
  <1>. DEFINE read == {m} \cup (SteeringOf(m) \cap MayStart(state))
              t == Terminalize(state, read)
  <1>1. TypeOK /\ state \in DurableStates /\ read \in SUBSET Msgs /\ SteeringOf(m) \in SUBSET Msgs
    BY OriginSets DEF QInv, TypeOK
  <1>2. Narrows(state', state, n)
    <2>1. t \in DurableStates /\ Narrows(t, state, n)
      BY <1>1, TerminalizeFacts, RemovalsNarrow
    <2>2. state' = ReturnAdmittedToRetry(t, SteeringOf(m))
      BY DEF TerminateTurn
    <2>. HIDE DEF t, read
    <2>3. Narrows(state', t, n)
      BY <1>1, <2>1, <2>2, RemovalsNarrow
    <2>. QED
      BY <2>1, <2>3, NarrowChain
  <1>3. /\ seen \subseteq seen' /\ m \in seen' /\ UNCHANGED state.uncertain
        /\ \A k \in SteeringOf(m) : state.flight[k] = "hermes_may_start" => k \in seen'
        /\ \A k \in Msgs \ ({m} \cup SteeringOf(m)) : Kept(k)
    BY <1>1, TerminateEffect
  <1>4. InUse(state, seen, n)
    BY DEF QInv, OriginsOK
  <1>5. InUse(state, seen, n)'
    <2>1. CASE n \in SteeringOf(m) /\ Retire(m)
      BY <2>1, RetireWork, UseEnds
    <2>2. CASE n = m /\ Retire(m)
      <3>1. WorkStays(m) /\ phase'[m] = "idle"
        BY <2>2, RetireWork
      <3>. QED
        BY <1>3, <1>4, <2>2, <3>1 DEF InUse, WorkStays
    <2>3. CASE n \notin {m} \cup SteeringOf(m) /\ Retire(m)
      <3>1. EntryStaysIn(n)
        BY <1>1, <1>3, <2>3 DEF EntryStaysIn, Kept
      <3>. QED
        BY <1>3, <1>4, <2>3, <3>1, RetireWork, UseStays
    <2>4. CASE n \notin {m} \cup SteeringOf(m) /\ Retiring(m)
      <3>1. EntryStaysIn(n) /\ WorkStays(n)
        BY <1>1, <1>3, <2>4 DEF EntryStaysIn, Kept, WorkStays, Retiring, TypeOK
      <3>. QED
        BY <1>4, <3>1, UseStays
    <2>5. CASE n = m /\ Retiring(m)
      BY <1>1, <1>3, <1>4, <2>5 DEF InUse, Retiring, TypeOK
    <2>6. CASE n \in SteeringOf(m) /\ Retiring(m)
      <3>1. steerOf'[n] = NoMsg /\ phase'[n] = "idle"
        BY <2>6, SteeringUse DEF Retiring, SteeringOf
      <3>. QED
        BY <3>1, UseEnds
    <2>. QED
      BY <2>1, <2>2, <2>3, <2>4, <2>5, <2>6
  <1>. QED
    BY <1>2, <1>5 DEF Sound

\* What is removed with the success of a turn is relied on no longer.
LEMMA FinishOkSound ==
    ASSUME QInv, NEW m \in Msgs, FinishOk(m), NEW n \in Msgs
    PROVE  Sound(n)
  <1>1. TypeOK /\ state \in DurableStates /\ {m} \cup SteeringOf(m) \in SUBSET Msgs
    BY OriginSets DEF QInv, TypeOK
  <1>2. /\ state' = RemoveInFlight(state, {m} \cup SteeringOf(m))
        /\ seen \subseteq seen'
        /\ Retire(m)
        /\ phase[m] = "done"
    BY DEF FinishOk, Finishing
  <1>3. InUse(state, seen, n) /\ InUse(state, seen, m)
    BY DEF QInv, OriginsOK
  <1>4. InUse(state, seen, n)'
    <2>1. CASE n \in SteeringOf(m)
      BY <1>2, <2>1, RetireWork, UseEnds
    <2>2. CASE n = m
      <3>1. WorkStays(m) /\ phase'[m] = "idle"
        BY <1>2, RetireWork
      <3>2. steerOf'[m] = NoMsg
        BY <1>2, <1>3, <3>1 DEF InUse, WorkStays
      <3>. QED
        BY <2>2, <3>1, <3>2, UseEnds
    <2>3. CASE n \notin {m} \cup SteeringOf(m)
      <3>1. EntryStaysIn(n)
        BY <1>1, <1>2, <2>3, FinishOkEffect DEF EntryStaysIn, Kept
      <3>. QED
        BY <1>2, <1>3, <3>1, RetireWork, UseStays
    <2>. QED
      BY <2>1, <2>2, <2>3
  <1>. QED
    BY <1>1, <1>2, <1>4, RemovalsNarrow DEF Sound

\* A retried turn had an entry.
LEMMA FinishRetrySound ==
    ASSUME QInv, NEW m \in Msgs, FinishRetry(m), NEW n \in Msgs
    PROVE  Sound(n)
  <1>. DEFINE u == UpsertRetry(state, {m})
  <1>1. /\ TypeOK /\ state \in DurableStates /\ {m} \in SUBSET Msgs
        /\ SteeringOf(m) \in SUBSET Msgs
    BY OriginSets DEF QInv, TypeOK
  <1>2. phase[m] = "done" /\ result[m] = "retry"
    BY DEF FinishRetry, Finishing
  <1>3. InUse(state, seen, n) /\ InUse(state, seen, m)
    BY DEF QInv, OriginsOK
  <1>4. CASE UNCHANGED <<state, seen, workers>>
    BY <1>3, <1>4, SameEntry, SameWork, UseStays DEF Sound, workers
  <1>5. CASE /\ state' = ReturnAdmittedToRetry(u, SteeringOf(m))
             /\ seen \subseteq seen' \cup {m}
             /\ Retire(m)
    <2>1. Narrows(state', state, n)
      <3>1. Queued(state, m)
        BY <1>2, <1>3 DEF InUse, Queued
      <3>2. u \in DurableStates /\ Narrows(u, state, n)
        BY <1>1, <3>1, UpsertRetryFacts, EntriesNarrow
      <3>. HIDE DEF u
      <3>3. Narrows(state', u, n)
        BY <1>1, <1>5, <3>2, RemovalsNarrow
      <3>. QED
        BY <3>2, <3>3, NarrowChain
    <2>2. CASE n \in SteeringOf(m)
      BY <1>5, <2>1, <2>2, RetireWork, UseEnds DEF Sound
    <2>3. CASE n = m
      <3>1. WorkStays(m) /\ phase'[m] = "idle"
        BY <1>5, RetireWork
      <3>2. steerOf'[m] = NoMsg
        BY <1>2, <1>3, <3>1 DEF InUse, WorkStays
      <3>. QED
        BY <2>1, <2>3, <3>1, <3>2, UseEnds DEF Sound
    <2>4. CASE n \notin {m} \cup SteeringOf(m)
      <3>1. EntryStaysIn(n)
        BY <1>1, <1>5, <2>4, FinishRetryEffect DEF EntryStaysIn, Kept
      <3>. QED
        BY <1>3, <1>5, <2>1, <3>1, RetireWork, UseStays DEF Sound
    <2>. QED
      BY <2>2, <2>3, <2>4
  <1>. QED
    BY <1>4, <1>5 DEF FinishRetry

\* Of a confirmed reply the entries are removed, and counted as seen, after the
\* file has its job.
LEMMA ProofSound ==
    ASSUME QInv, NEW m \in Msgs, PostCommitProof(m), NEW n \in Msgs
    PROVE  Sound(n)
  <1>1. TypeOK /\ state \in DurableStates /\ {m} \cup SteeringOf(m) \in SUBSET Msgs
    BY OriginSets DEF QInv, TypeOK
  <1>2. InUse(state, seen, n)
    BY DEF QInv, OriginsOK
  <1>3. UNCHANGED <<phase, steerOf>> /\ result \in [Msgs -> Results] /\ phase[m] = "done"
    BY <1>1 DEF PostCommitProof, TypeOK, Finishing
  <1>4. CASE /\ seen' = PersistedSeen(state, seen) \cup {m} \cup SteeringOf(m)
             /\ state' = RemoveInFlight(state, {m} \cup SteeringOf(m))
             /\ result' = [result EXCEPT ![m] = "retire"]
    <2>1. /\ Narrows(state', state, n)
          /\ UNCHANGED state.uncertain
          /\ n \notin {m} \cup SteeringOf(m) => Kept(n)
      BY <1>1, <1>4, RemovalsNarrow, FinishOkEffect
    <2>2. WorkStays(n)
      BY <1>3, <1>4 DEF WorkStays
    <2>3. CASE n \in {m} \cup SteeringOf(m)
      <3>1. n \in seen' /\ (phase[n] # "idle" => n = m)
        BY <1>4, <2>3, SteeringUse
      <3>. QED
        BY <1>2, <1>3, <1>4, <2>1, <3>1 DEF Sound, InUse
    <2>4. CASE n \notin {m} \cup SteeringOf(m)
      <3>1. EntryStaysIn(n)
        BY <1>4, <2>1, <2>4 DEF EntryStaysIn, Kept, PersistedSeen
      <3>. QED
        BY <1>2, <2>1, <2>2, <3>1, UseStays DEF Sound
    <2>. QED
      BY <2>3, <2>4
  <1>5. CASE PersistFails("loop") /\ UNCHANGED result
    BY <1>2, <1>3, <1>5, SaveEntry, SameWork, UseStays DEF Sound, PersistFails
  <1>. QED
    BY <1>4, <1>5 DEF PostCommitProof

LEMMA RetireTurnSound ==
    ASSUME QInv, NEW m \in Msgs, PostCommitRetire(m), NEW n \in Msgs
    PROVE  Sound(n)
  <1>1. InUse(state, seen, n)
    BY DEF QInv, OriginsOK
  <1>2. EntryStaysIn(n) /\ Narrows(state', state, n)
    BY SaveEntry DEF PostCommitRetire, PersistOk, PersistFails
  <1>3. WorkStays(n)
    BY RetireWork, SameWork DEF PostCommitRetire, workers
  <1>. QED
    BY <1>1, <1>2, <1>3, UseStays DEF Sound

LEMMA FinishSound ==
    ASSUME QInv, FinishNext, NEW n \in Msgs
    PROVE  Sound(n)
  <1>1. TypeOK /\ InUse(state, seen, n)
    BY DEF QInv, OriginsOK
  <1>2. ASSUME UNCHANGED <<state, phase, result, steerOf>>, n \in seen => n \in seen'
        PROVE  Sound(n)
    BY <1>1, <1>2, SameEntry, SameWork, UseStays DEF Sound
  <1>3. ASSUME NEW m \in Msgs, FinishFail(m) PROVE Sound(n)
    BY <1>2, <1>3, TerminateSound DEF FinishFail, NoRoomForTurn, workers
  <1>4. ASSUME NEW m \in Msgs, FinishRejected(m) PROVE Sound(n)
    <2>1. CASE UNCHANGED <<state, seen, workers>>
      BY <1>2, <2>1 DEF workers
    <2>2. CASE /\ state' = [state EXCEPT !.dead = @ \cup {m}]
               /\ seen' = seen \ {m} /\ UNCHANGED workers
      <3>1. UNCHANGED <<state.retries, state.flight, state.uncertain>>
        BY <1>1, <2>2 DEF TypeOK, DurableStates
      <3>2. phase[m] = "done" /\ result[m] = "rejected"
        BY <1>4 DEF FinishRejected, Finishing
      <3>. QED
        BY <1>1, <2>2, <3>1, <3>2 DEF Sound, InUse, Narrows, Queued, Apart, workers
    <2>. QED
      BY <1>4, <2>1, <2>2 DEF FinishRejected
  <1>5. ASSUME NEW m \in Msgs, FinishFatal(m) PROVE Sound(n)
    BY <1>2, <1>5 DEF FinishFatal, durables, workers
  <1>6. ASSUME PersistOk \/ PersistFails("loop"), UNCHANGED workers PROVE Sound(n)
    BY <1>1, <1>6, SaveEntry, SameWork, UseStays DEF Sound, PersistOk, PersistFails, workers
  <1>7. CASE RejectedSave \/ FinishSave
    BY <1>6, <1>7 DEF RejectedSave, FinishSave
  <1>8. CASE FinishRejectedProof
    BY <1>1, <1>2, <1>8, TerminateSound, RejectedEffect DEF workers, QInv, BatchWaits
  <1>9. CASE FinishDone
    BY <1>2, <1>9 DEF FinishDone, durables, workers
  <1>. QED
    BY <1>3, <1>4, <1>5, <1>7, <1>8, <1>9, FinishOkSound, FinishRetrySound, ProofSound,
       RetireTurnSound DEF FinishNext

\* Due retries stay in their queue, or leave it.
LEMMA FetchSound ==
    ASSUME QInv, Fetch, NEW n \in Msgs
    PROVE  Sound(n)
  <1>1. TypeOK /\ InUse(state, seen, n) /\ state \in DurableStates
    BY DEF QInv, OriginsOK, TypeOK
  <1>2. QueuesDisjoint
    BY DEF QInv, OriginsOK, SavedOK, Apart, QueuesDisjoint, InFlight
  <1>3. PICK due \in SUBSET state.retries :
          \E outcome \in [due -> {"fetched", "gone", "retry"}] : FetchDue(due, outcome)
    BY DEF Fetch
  <1>4. PICK outcome \in [due -> {"fetched", "gone", "retry"}] : FetchDue(due, outcome)
    BY <1>3
  <1>. DEFINE Of(o) == {k \in due : outcome[k] = o}
              t == Terminalize(state, Of("gone"))
  <1>5. /\ \A o : Of(o) \in SUBSET Msgs /\ Of(o) \subseteq state.retries
        /\ Of("gone") \cap Of("retry") = {}
    BY <1>1, <1>3 DEF DurableStates
  <1>6. state' = UpsertRetry(t, Of("retry")) \/ UNCHANGED state
    BY <1>4 DEF FetchDue
  <1>7. Narrows(state', state, n)
    <2>1. t \in DurableStates /\ Narrows(t, state, n) /\ t.retries = state.retries \ Of("gone")
      BY <1>1, <1>5, TerminalizeFacts, RemovalsNarrow
    <2>2. n \in Of("retry") => Queued(t, n)
      BY <1>5, <2>1 DEF Queued
    <2>. HIDE DEF t, Of
    <2>3. Narrows(UpsertRetry(t, Of("retry")), t, n)
      BY <1>5, <2>1, <2>2, EntriesNarrow
    <2>. QED
      BY <1>6, <2>1, <2>3, NarrowChain DEF Narrows
  <1>8. EntryStaysIn(n) /\ WorkStays(n)
    BY <1>1, <1>2, FetchEffect, SameWork DEF EntryStaysIn, workers
  <1>. QED
    BY <1>1, <1>7, <1>8, UseStays DEF Sound

\* Admission adds the origins it prepares, and those it cannot prepare yet, to
\* one of the queues each.
Added(n) == n \notin state.retries /\ n \notin seen /\ n \notin Pending

LEMMA AdmitQueues ==
    ASSUME QInv, NEW found \in SUBSET Msgs,
           NEW outcome \in [found -> {"ignored", "gone", "retry", "prepared"}],
           AdmitCandidates(found, outcome), NEW n \in Msgs
    PROVE  /\ Apart(state, n) => Apart(state', n)
           /\ Queued(state', n) =>
                \/ Queued(state, n)
                \/ n \in found /\ outcome[n] \in {"prepared", "retry"}
  <1>. DEFINE Of(o) == {k \in found : outcome[k] = o}
              s1 == RemoveRetry(state, Of("ignored"))
              s2 == Terminalize(s1, Of("gone"))
              s3 == UpsertRetry(s2, Of("retry"))
              s4 == AdmitOrigins(s3, Of("prepared"))
  <1>1. state \in DurableStates /\ (\A o : Of(o) \in SUBSET Msgs)
    BY DEF QInv, TypeOK
  <1>2. state' = s4 \/ UNCHANGED state
    BY DEF AdmitCandidates
  <1>3. s1 \in DurableStates /\ Narrows(s1, state, n)
    BY <1>1, RemoveRetryFacts, RemovalsNarrow
  <1>. HIDE DEF s1
  <1>4. s2 \in DurableStates /\ Narrows(s2, s1, n)
    BY <1>1, <1>3, TerminalizeFacts, RemovalsNarrow
  <1>. HIDE DEF s2
  <1>5. /\ s3 \in DurableStates
        /\ Apart(s2, n) => Apart(s3, n)
        /\ Queued(s3, n) => Queued(s2, n) \/ n \in Of("retry")
    <2>. HIDE DEF Of
    <2>. QED
      BY <1>1, <1>4, UpsertRetryFacts DEF Apart, Queued
  <1>. HIDE DEF s3
  <1>6. /\ Apart(s3, n) => Apart(s4, n)
        /\ Queued(s4, n) => Queued(s3, n) \/ n \in Of("prepared")
    <2>. HIDE DEF Of
    <2>. QED
      BY <1>1, <1>5, AdmitOriginsFacts DEF Apart, Queued
  <1>. QED
    BY <1>2, <1>3, <1>4, <1>5, <1>6 DEF Narrows

LEMMA AdmitSound ==
    ASSUME QInv, Admit, NEW n \in Msgs
    PROVE  Apart(state', n) /\ InUse(state, seen, n)'
  <1>1. TypeOK /\ InUse(state, seen, n) /\ Apart(state, n)
    BY DEF QInv, OriginsOK
  <1>2. Apart(state', n)
    <2>1. PICK found \in {Candidates(page) : page \in Pages} :
            \E outcome \in [found -> {"ignored", "gone", "retry", "prepared"}] :
                AdmitCandidates(found, outcome)
      BY DEF Admit
    <2>2. found \in SUBSET Msgs
      BY <1>1, <2>1 DEF Candidates, Pages, TypeOK
    <2>. QED
      BY <1>1, <2>1, <2>2, AdmitQueues
  <1>3. /\ UNCHANGED <<workers, state.uncertain>> /\ seen \subseteq seen'
        /\ \/ Kept(n)
           \/ n \notin seen /\ n \notin Pending /\ n \notin InFlight(state)
    BY <1>1, AdmitEffect
  <1>4. CASE Kept(n)
    BY <1>1, <1>2, <1>3, <1>4, SameWork, UseStays DEF EntryStaysIn, Kept, workers
  <1>5. CASE n \notin seen /\ n \notin Pending /\ n \notin InFlight(state)
    BY <1>1, <1>2, <1>3, <1>5 DEF InUse, Pending, InFlight, workers
  <1>. QED
    BY <1>2, <1>3, <1>4, <1>5

\* The copies put back were sound, and still are for what the workers did since.
LEMMA UndoSound ==
    ASSUME QInv, Undo, NEW n \in Msgs
    PROVE  Apart(state', n) /\ InUse(state, seen, n)'
  BY DEF QInv, CopiesOK, RollbackPcs, Undo, InUse, workers

LEMMA LoopSound ==
    ASSUME QInv, LoopNext, ~ Admit, ~ Undo, NEW n \in Msgs
    PROVE  Sound(n)
  <1>1. TypeOK /\ InUse(state, seen, n)
    BY DEF QInv, OriginsOK
  <1>2. ASSUME UNCHANGED <<state.retries, state.flight, state.uncertain, seen, workers>>
        PROVE  Sound(n)
    BY <1>1, <1>2, SameEntry, SameWork, UseStays DEF Sound, workers
  <1>3. ASSUME NEW m \in Msgs, ReconcileDone(m) \/ ReconcileTerminal(m) PROVE Sound(n)
    BY <1>1, <1>2, <1>3 DEF ReconcileDone, ReconcileTerminal, TypeOK, DurableStates, workers
  <1>4. ASSUME seen' = PersistedSeen(state, seen), UNCHANGED <<state, workers>> PROVE Sound(n)
    BY <1>1, <1>4, SaveEntry, SameWork, UseStays DEF Sound, workers
  <1>5. CASE ReconcileSave \/ LoopSave \/ FetchSave \/ AdmitSave
    BY <1>4, <1>5 DEF ReconcileSave, LoopSave, FetchSave, AdmitSave, PersistOk, PersistFails, workers
  <1>6. CASE ReconcileEnd \/ NothingToAdmit
    BY <1>2, <1>6 DEF ReconcileEnd, NothingToAdmit, durables, workers
  <1>. QED
    BY <1>3, <1>5, <1>6, FetchSound DEF LoopNext

\* The main thread gives up an origin of its batch that a turn does not wait for.
LEMMA RetryLaterSound ==
    ASSUME QInv, NEW m \in Msgs, RetryLater(m), state.flight[m] # "none",
           phase[m] = "idle", steerOf[m] = NoMsg, UNCHANGED workers, NEW n \in Msgs
    PROVE  Sound(n)
  <1>1. TypeOK /\ InUse(state, seen, n) /\ state \in DurableStates /\ {m} \in SUBSET Msgs
    BY DEF QInv, OriginsOK, TypeOK
  <1>2. UNCHANGED state \/ state' = UpsertRetry(state, {m})
    BY DEF RetryLater
  <1>3. Narrows(state', state, n)
    BY <1>1, <1>2, EntriesNarrow DEF Queued, Narrows
  <1>4. CASE n = m
    BY <1>3, <1>4, UseEnds DEF Sound, workers
  <1>5. CASE n # m
    <2>1. EntryStaysIn(n)
      BY <1>1, <1>5, RetryLaterEffect DEF EntryStaysIn, Kept
    <2>. QED
      BY <1>1, <1>3, <2>1, SameWork, UseStays DEF Sound, workers
  <1>. QED
    BY <1>4, <1>5

LEMMA DeferSound ==
    ASSUME QInv, NEW m \in Msgs, Defer(m),
           phase[m] = "idle", steerOf[m] = NoMsg, UNCHANGED workers, NEW n \in Msgs
    PROVE  Sound(n)
  <1>1. TypeOK /\ InUse(state, seen, n) /\ state \in DurableStates /\ {m} \in SUBSET Msgs
    BY DEF QInv, OriginsOK, TypeOK
  <1>2. Narrows(state', state, n)
    BY <1>1, RemovalsNarrow DEF Defer
  <1>3. CASE n = m
    BY <1>2, <1>3, UseEnds DEF Sound, workers
  <1>4. CASE n # m
    <2>1. EntryStaysIn(n)
      BY <1>1, <1>4, DeferEffect DEF EntryStaysIn, Kept
    <2>. QED
      BY <1>1, <1>2, <2>1, SameWork, UseStays DEF Sound, workers
  <1>. QED
    BY <1>3, <1>4

\* A stage is set only on an entry that exists.
LEMMA StageSound ==
    ASSUME QInv, NEW m \in Msgs, NEW stage \in Stages \ {"none"},
           state' = WithStage(state, {m}, stage), state.flight[m] # "none",
           UNCHANGED seen, NEW n \in Msgs, WorkStays(n)
    PROVE  Sound(n)
  <1>1. TypeOK /\ InUse(state, seen, n) /\ state \in DurableStates /\ {m} \in SUBSET Msgs
    BY DEF QInv, OriginsOK, TypeOK
  <1>2. Narrows(state', state, n)
    BY <1>1, EntriesNarrow
  <1>3. EntryStaysIn(n)
    BY <1>1, WithStageFacts DEF EntryStaysIn
  <1>. QED
    BY <1>1, <1>2, <1>3, UseStays DEF Sound

LEMMA WaitingBefore ==
    ASSUME QInv, pc \in BatchPcs, NEW m \in batch
    PROVE  m \in Msgs /\ WaitingOK(m)
  BY DEF QInv, BatchWaits, TypeOK

LEMMA TargetBefore ==
    ASSUME QInv, pc \in BatchTargetPcs
    PROVE  target \in batch /\ target \in Msgs /\ WaitingOK(target)
  BY DEF QInv, BatchWaits, TypeOK, BatchTargetPcs, BatchPcs

LEMMA SubmitSound ==
    ASSUME QInv, SubmitNext, NEW n \in Msgs
    PROVE  Sound(n)
  <1>1. TypeOK /\ InUse(state, seen, n)
    BY DEF QInv, OriginsOK
  <1>2. ASSUME UNCHANGED <<state, seen, workers>> PROVE Sound(n)
    BY <1>1, <1>2, SameEntry, SameWork, UseStays DEF Sound, workers
  <1>3. ASSUME NEW m \in Msgs, Submitting(m)
        PROVE  m \in batch /\ phase[m] = "idle" /\ steerOf[m] = NoMsg /\ state.flight[m] # "none"
    BY <1>3, WaitingBefore DEF Submitting, BatchPcs, WaitingOK
  <1>4. ASSUME NEW m \in Msgs, SubmitWorker(m) PROVE Sound(n)
    <2>1. /\ Submitting(m) /\ UNCHANGED <<state, seen, result, steerOf>>
          /\ phase' = [phase EXCEPT ![m] = "queued"]
      BY <1>4 DEF SubmitWorker, durables
    <2>2. m \notin state.uncertain
      BY <2>1, WaitingBefore DEF Submitting, BatchPcs, WaitingOK
    <2>3. phase \in [Msgs -> Phases] /\ "queued" # "idle"
      BY <1>1 DEF TypeOK
    <2>. QED
      BY <1>1, <1>3, <2>1, <2>2, <2>3 DEF Sound, InUse, Narrows
  <1>5. ASSUME NEW m \in Msgs, SubmitFails(m) \/ SteerDeferred(m) PROVE Sound(n)
    BY <1>3, <1>5, RetryLaterSound, DeferSound DEF SubmitFails, SteerDeferred
  <1>6. ASSUME NEW m \in Msgs, SteerMark(m) PROVE Sound(n)
    <2>1. Submitting(m) /\ UNCHANGED <<seen, workers>>
      BY <1>6 DEF SteerMark
    <2>2. CASE UNCHANGED state
      BY <1>2, <2>1, <2>2
    <2>3. CASE state' = WithStage(state, {m}, "hermes_may_start")
      BY <1>3, <2>1, <2>3, StageSound, SameWork DEF workers, Stages
    <2>. QED
      BY <1>6, <2>2, <2>3 DEF SteerMark, MarkMayStart
  <1>7. CASE SubmitBroken \/ SubmitEnd
    BY <1>2, <1>7 DEF SubmitBroken, SubmitEnd, durables
  <1>8. CASE SubmitSave
    BY <1>1, <1>8, SaveEntry, SameWork, UseStays DEF Sound, SubmitSave, PersistOk, PersistFails, workers
  <1>. QED
    BY <1>4, <1>5, <1>6, <1>7, <1>8 DEF SubmitNext

\* A step that gives up the target of the batch and touches no other entry.
LEMMA TargetSound ==
    ASSUME QInv, pc \in BatchTargetPcs, UNCHANGED workers, NEW n \in Msgs,
           n # target => EntryStaysIn(n), Narrows(state', state, n)
    PROVE  Sound(n)
  <1>1. InUse(state, seen, n)
    BY DEF QInv, OriginsOK
  <1>2. CASE n = target
    BY <1>2, TargetBefore, UseEnds DEF Sound, WaitingOK, workers
  <1>3. CASE n # target
    BY <1>1, <1>3, SameWork, UseStays DEF Sound, workers
  <1>. QED
    BY <1>2, <1>3

LEMMA TerminalTarget ==
    ASSUME QInv, target \in Msgs, NEW n \in Msgs
    PROVE  /\ Narrows(Terminalize(state, {target}), state, n)
           /\ Narrows(RemoveInFlight(state, {target}), state, n)
           /\ Terminalize(state, {target}).uncertain = state.uncertain
           /\ RemoveInFlight(state, {target}).uncertain = state.uncertain
           /\ n # target =>
                /\ Terminalize(state, {target}).flight[n] = state.flight[n]
                /\ RemoveInFlight(state, {target}).flight[n] = state.flight[n]
  <1>1. state \in DurableStates /\ {target} \in SUBSET Msgs
    BY DEF QInv, TypeOK
  <1>. QED
    BY <1>1, RemovalsNarrow, TerminalizeFacts, RemoveInFlightFacts

LEMMA SteerSound ==
    ASSUME QInv, SteerNext, NEW n \in Msgs
    PROVE  Sound(n)
  <1>1. TypeOK /\ InUse(state, seen, n) /\ state \in DurableStates
    BY DEF QInv, OriginsOK, TypeOK
  <1>2. ASSUME UNCHANGED <<state, seen, workers>> PROVE Sound(n)
    BY <1>1, <1>2, SameEntry, SameWork, UseStays DEF Sound, workers
  <1>3. ASSUME PersistOk \/ PersistFails("steer"), UNCHANGED workers PROVE Sound(n)
    BY <1>1, <1>3, SaveEntry, SameWork, UseStays DEF Sound, PersistOk, PersistFails, workers
  <1>4. ASSUME pc \in BatchTargetPcs
        PROVE  target \in Msgs /\ {target} \in SUBSET Msgs /\ WaitingOK(target)
    BY <1>4, TargetBefore
  <1>5. CASE SteerSave
    <2>1. pc \in BatchTargetPcs /\ UNCHANGED workers
      BY <1>5 DEF SteerSave, BatchTargetPcs
    <2>. DEFINE w == WithStage(state, {target}, "admitted")
    <2>2. CASE /\ seen' = PersistedSeen(state, seen)
               /\ state' = ReturnAdmittedToRetry(w, {target})
      <3>1. "admitted" \in Stages /\ (n \in {target} => state.flight[n] # "none")
        BY <1>4, <2>1 DEF Stages, WaitingOK
      <3>2. /\ w \in DurableStates /\ Narrows(w, state, n) /\ w.uncertain = state.uncertain
            /\ n # target => w.flight[n] = state.flight[n]
        BY <1>1, <1>4, <2>1, <3>1, WithStageFacts, EntriesNarrow
      <3>. HIDE DEF w
      <3>3. /\ Narrows(state', w, n) /\ state'.uncertain = w.uncertain
            /\ n # target => state'.flight[n] = w.flight[n]
        BY <1>4, <2>1, <2>2, <3>2, ReturnAdmittedFacts, RemovalsNarrow
      <3>4. Narrows(state', state, n)
        BY <3>2, <3>3, NarrowChain
      <3>5. n # target => EntryStaysIn(n)
        BY <2>2, <3>2, <3>3 DEF EntryStaysIn, PersistedSeen
      <3>. QED
        BY <2>1, <3>4, <3>5, TargetSound
    <2>. QED
      BY <1>3, <1>5, <2>1, <2>2 DEF SteerSave
  <1>6. CASE AbandonSave
    BY <1>3, <1>6 DEF AbandonSave
  <1>7. CASE SteerUnmark
    <2>1. pc \in BatchTargetPcs /\ UNCHANGED <<seen, workers>>
      BY <1>7 DEF SteerUnmark, BatchTargetPcs
    <2>2. WorkStays(n)
      BY <2>1, SameWork DEF workers
    <2>. QED
      BY <1>4, <1>7, <2>1, <2>2, StageSound DEF SteerUnmark, WaitingOK, Stages
  <1>8. CASE SteerUndoSave
    <2>1. pc \in BatchTargetPcs /\ UNCHANGED workers
      BY <1>8 DEF SteerUndoSave, BatchTargetPcs
    <2>2. CASE /\ seen' = PersistedSeen(state, seen)
               /\ state' = ReturnAdmittedToRetry(state, {target})
      <3>1. Narrows(state', state, n)
        BY <1>1, <1>4, <2>1, <2>2, RemovalsNarrow
      <3>2. n # target => EntryStaysIn(n)
        BY <1>1, <1>4, <2>1, <2>2, ReturnAdmittedFacts DEF EntryStaysIn, PersistedSeen
      <3>. QED
        BY <2>1, <3>1, <3>2, TargetSound
    <2>. QED
      BY <1>3, <1>8, <2>1, <2>2 DEF SteerUndoSave, PersistOk
  <1>9. CASE SteerRefused
    <2>1. pc \in BatchTargetPcs /\ UNCHANGED workers
      BY <1>9 DEF SteerRefused, BatchTargetPcs
    <2>. QED
      BY <1>4, <1>9, <2>1, RetryLaterSound, DeferSound DEF SteerRefused, WaitingOK
  <1>10. CASE SteerAppendFails
    <2>1. pc \in BatchTargetPcs /\ UNCHANGED workers
      BY <1>10 DEF SteerAppendFails, BatchTargetPcs
    <2>2. CASE state' = Terminalize(state, {target}) /\ seen' = seen \cup {target}
      BY <1>4, <2>1, <2>2, TerminalTarget, TargetSound DEF EntryStaysIn
    <2>. QED
      BY <1>2, <1>10, <2>1, <2>2 DEF SteerAppendFails
  <1>11. CASE SteerDelivered
    <2>1. pc \in BatchTargetPcs /\ UNCHANGED <<durables, phase, result>>
      BY <1>11 DEF SteerDelivered, BatchTargetPcs
    <2>2. \E p : steerOf' = [steerOf EXCEPT ![target] = p]
      BY <1>11 DEF SteerDelivered
    <2>3. n # target => steerOf'[n] = steerOf[n]
      BY <1>1, <2>2 DEF TypeOK
    <2>. QED
      BY <1>1, <1>4, <2>1, <2>3 DEF Sound, Narrows, InUse, WaitingOK, durables
  <1>12. CASE SteerUncertain
    <2>1. /\ pc \in BatchTargetPcs /\ UNCHANGED workers
          /\ seen' = seen \ {target}
          /\ state' = [Terminalize(state, {target}) EXCEPT !.uncertain = @ \cup {target}]
      BY <1>12 DEF SteerUncertain, BatchTargetPcs
    <2>2. Terminalize(state, {target}) \in DurableStates
      BY <1>1, <1>4, <2>1, StateTypes
    <2>3. /\ state'.flight = Terminalize(state, {target}).flight
          /\ state'.retries = Terminalize(state, {target}).retries
          /\ state'.uncertain = Terminalize(state, {target}).uncertain \cup {target}
      BY <2>1, <2>2 DEF DurableStates
    <2>4. Narrows(state', state, n)
      BY <1>4, <2>1, <2>3, TerminalTarget DEF Narrows, Queued, Apart
    <2>5. n # target => EntryStaysIn(n)
      BY <1>4, <2>1, <2>3, TerminalTarget DEF EntryStaysIn
    <2>. QED
      BY <2>1, <2>4, <2>5, TargetSound
  <1>13. CASE RetireSave \/ RetireRetry
    BY <1>3, <1>13 DEF RetireSave, RetireRetry
  <1>. QED
    BY <1>5, <1>6, <1>7, <1>8, <1>9, <1>10, <1>11, <1>12, <1>13 DEF SteerNext

LEMMA InlineSound ==
    ASSUME QInv, InlineNext, NEW n \in Msgs
    PROVE  Sound(n)
  <1>1. TypeOK /\ InUse(state, seen, n) /\ state \in DurableStates
    BY DEF QInv, OriginsOK, TypeOK
  <1>2. ASSUME UNCHANGED <<state.retries, state.flight, state.uncertain, workers>>,
               n \in seen /\ n \notin state.uncertain => n \in seen'
        PROVE  Sound(n)
    BY <1>1, <1>2, SameWork, UseStays DEF Sound, EntryStaysIn, Narrows, Queued, Apart, workers
  <1>3. ASSUME pc \in BatchTargetPcs PROVE target \in Msgs /\ WaitingOK(target)
    BY <1>3, TargetBefore
  <1>4. ASSUME NEW m \in Msgs, InlineMark(m) PROVE Sound(n)
    <2>1. /\ Submitting(m) /\ UNCHANGED <<seen, workers>>
          /\ state' = WithStage(state, {m}, "hermes_may_start")
      BY <1>4 DEF InlineMark, MarkMayStart
    <2>2. state.flight[m] # "none"
      BY <2>1, WaitingBefore DEF Submitting, BatchPcs, WaitingOK
    <2>3. WorkStays(n)
      BY <2>1, SameWork DEF workers
    <2>. QED
      BY <2>1, <2>2, <2>3, StageSound DEF Stages
  <1>5. CASE InlineSave
    BY <1>2, <1>5 DEF InlineSave, PersistOk, PersistFails, PersistedSeen
  <1>6. CASE InlineAnswered
    <2>1. state' = [state EXCEPT !.jobs = @ \cup {target}] /\ UNCHANGED <<seen, workers>>
      BY <1>6 DEF InlineAnswered
    <2>. QED
      BY <1>1, <1>2, <2>1 DEF DurableStates
  <1>7. CASE InlinePublish
    <2>1. /\ pc \in BatchTargetPcs /\ UNCHANGED workers
          /\ seen' = PersistedSeen(state, seen) \cup {target}
          /\ state' = RemoveInFlight(state, {target})
      BY <1>7 DEF InlinePublish, BatchTargetPcs
    <2>. QED
      BY <1>3, <2>1, TerminalTarget, TargetSound DEF EntryStaysIn, PersistedSeen
  <1>8. CASE InlineFails
    <2>1. pc \in BatchTargetPcs /\ UNCHANGED workers
      BY <1>8 DEF InlineFails, BatchTargetPcs
    <2>2. CASE RetryLater(target)
      BY <1>3, <2>1, <2>2, RetryLaterSound DEF WaitingOK
    <2>3. CASE state' = Terminalize(state, {target}) /\ seen' = seen \cup {target}
      BY <1>3, <2>1, <2>3, TerminalTarget, TargetSound DEF EntryStaysIn
    <2>. QED
      BY <1>8, <2>2, <2>3 DEF InlineFails
  <1>9. CASE InlineFull
    BY <1>2, <1>9 DEF InlineFull, durables
  <1>. QED
    BY <1>4, <1>5, <1>6, <1>7, <1>8, <1>9 DEF InlineNext

\* A worker marks its own entry and changes no other.
LEMMA WorkerWork ==
    ASSUME QInv, NEW m \in Msgs, WorkerNext(m), NEW n \in Msgs
    PROVE  /\ WorkStays(n)
           /\ phase[n] = "idle" <=> phase'[n] = "idle"
           /\ UNCHANGED steerOf
           /\ phase'[n] # "done" => result'[n] = "none"
           /\ phase'[n] = "publish" => phase[n] = "publish" \/ (n = m /\ PostAnswer(m))
  <1>1. /\ phase \in [Msgs -> Phases] /\ result \in [Msgs -> Results]
        /\ phase[n] # "done" => result[n] = "none"
    BY DEF QInv, OriginsOK, TypeOK
  <1>2. UNCHANGED steerOf
    BY DEF WorkerNext, Begin, PreFails, LocalAnswer, Mark, MarkSave, Register, StartFails,
       StartHermes, HermesEnds, AnswerBlocked, PostAnswer, Publish, PublishSave, ErrorNotice,
       ErrorSave
  <1>3. /\ n # m => phase'[n] = phase[n] /\ result'[n] = result[n]
        /\ phase[m] \notin {"idle", "done"}
        /\ phase'[m] # "idle"
        /\ phase'[m] # "done" => UNCHANGED result
        /\ phase'[m] = "publish" => PostAnswer(m)
    <2>1. CASE Begin(m) \/ PreFails(m) \/ LocalAnswer(m) \/ Mark(m) \/ MarkSave(m)
      BY <1>1, <2>1 DEF Begin, PreFails, LocalAnswer, Mark, MarkSave, Working, Advance, End
    <2>2. CASE Register(m) \/ StartFails(m) \/ StartHermes(m) \/ HermesEnds(m)
      BY <1>1, <2>2 DEF Register, StartFails, StartHermes, HermesEnds, Working, Advance, End
    <2>3. CASE AnswerBlocked(m) \/ PostAnswer(m) \/ Publish(m)
      BY <1>1, <2>3 DEF AnswerBlocked, PostAnswer, Publish, Working, Advance, End
    <2>4. CASE PublishSave(m) \/ ErrorNotice(m) \/ ErrorSave(m)
      BY <1>1, <2>4 DEF PublishSave, ErrorNotice, ErrorSave, Working, Advance, End
    <2>. QED
      BY <2>1, <2>2, <2>3, <2>4 DEF WorkerNext
  <1>4. /\ phase[m] # "done" => result[m] = "none"
        /\ phase[m] # "idle" => steerOf[m] = NoMsg
    BY DEF QInv, OriginsOK, InUse
  <1>. QED
    BY <1>1, <1>2, <1>3, <1>4 DEF WorkStays

LEMMA WorkerSound ==
    ASSUME QInv, NEW m \in Msgs, WorkerNext(m), NEW n \in Msgs
    PROVE  Sound(n)
  <1>1. TypeOK /\ InUse(state, seen, n) /\ state \in DurableStates
    BY DEF QInv, OriginsOK, TypeOK
  <1>2. WorkStays(n)
    BY WorkerWork
  <1>3. ASSUME UNCHANGED <<state.retries, state.flight, state.uncertain>>,
               n \in seen /\ n \notin state.uncertain => n \in seen'
        PROVE  Sound(n)
    BY <1>1, <1>2, <1>3, UseStays DEF Sound, EntryStaysIn, Narrows, Queued, Apart
  <1>4. CASE Mark(m)
    <2>1. /\ state' = WithStage(state, {m}, "hermes_may_start") /\ UNCHANGED seen
          /\ phase[m] = "pre"
      BY <1>4 DEF Mark, MarkMayStart, Working
    <2>2. state.flight[m] # "none"
      BY <2>1 DEF QInv, OriginsOK, InUse
    <2>. QED
      BY <1>2, <2>1, <2>2, StageSound DEF Stages
  <1>5. CASE MarkSave(m) \/ PublishSave(m) \/ ErrorSave(m)
    BY <1>3, <1>5 DEF MarkSave, PublishSave, ErrorSave, PersistOk, PersistFails, PersistedSeen
  <1>6. CASE Publish(m) \/ ErrorNotice(m)
    <2>1. UNCHANGED seen /\ (UNCHANGED state \/ state' = [state EXCEPT !.jobs = @ \cup {m}])
      BY <1>6 DEF Publish, ErrorNotice
    <2>. QED
      BY <1>1, <1>3, <2>1 DEF DurableStates
  <1>7. CASE \/ Begin(m) \/ PreFails(m) \/ LocalAnswer(m) \/ Register(m) \/ StartFails(m)
             \/ StartHermes(m) \/ HermesEnds(m) \/ AnswerBlocked(m) \/ PostAnswer(m)
    BY <1>3, <1>7 DEF Begin, PreFails, LocalAnswer, Register, StartFails, StartHermes,
       HermesEnds, AnswerBlocked, PostAnswer, durables
  <1>. QED
    BY <1>4, <1>5, <1>6, <1>7 DEF WorkerNext

\* The execution that starts queues what the file had, and has no worker.
LEMMA RestartQueues ==
    ASSUME QInv, Restart, NEW n \in Msgs
    PROVE  /\ Narrows(state', disk.st, n)
           /\ phase'[n] = "idle" /\ steerOf'[n] = NoMsg
           /\ state'.jobs \subseteq disk.st.jobs
           /\ DeadLetterCount(state') <= MaxDead
           /\ state' \in DurableStates
  <1>. DEFINE loaded == LoadedState
              old == disk.st.retries \cap (LoadedSeen \cup disk.st.uncertain)
              lostTurns == MayStart(loaded) \ loaded.jobs
              answered == MayStart(loaded) \cap loaded.jobs
              t == Terminalize(loaded, lostTurns)
              u == RemoveInFlight(t, answered)
              recovered == ReturnAdmittedToRetry(u, Msgs)
  <1>1. /\ disk.st \in DurableStates
        /\ phase[n] = "idle" /\ steerOf[n] = NoMsg
    BY DEF QInv, TypeOK, NothingRunsYet, Restart
  <1>2. old \in SUBSET Msgs
    BY <1>1 DEF DurableStates
  <1>3. loaded \in DurableStates /\ Narrows(loaded, disk.st, n) /\ loaded.jobs = disk.st.jobs
    BY <1>1, <1>2, RemoveRetryFacts, RemovalsNarrow DEF LoadedState
  <1>. HIDE DEF loaded, old
  <1>4. lostTurns \in SUBSET Msgs /\ answered \in SUBSET Msgs
    BY DEF MayStart
  <1>5. t \in DurableStates /\ Narrows(t, loaded, n) /\ t.jobs = loaded.jobs
    BY <1>3, <1>4, TerminalizeFacts, RemovalsNarrow
  <1>. HIDE DEF t
  <1>6. u \in DurableStates /\ Narrows(u, t, n) /\ u.jobs = t.jobs
    BY <1>4, <1>5, RemoveInFlightFacts, RemovalsNarrow
  <1>. HIDE DEF u
  <1>7. recovered \in DurableStates /\ Narrows(recovered, u, n) /\ recovered.jobs = u.jobs
    BY <1>6, ReturnAdmittedFacts, RemovalsNarrow
  <1>. HIDE DEF recovered
  <1>8. RecoverInFlight(loaded) = recovered
    BY DEF RecoverInFlight, recovered, u, t
  <1>9. PICK J \in SUBSET loaded.jobs :
          /\ state' = [recovered EXCEPT !.jobs = @ \ J, !.lost = @ \cup J]
          /\ DeadLetterRoom(state', {})
    BY <1>8 DEF Restart, loaded
  <1>10. /\ state'.retries = recovered.retries /\ state'.flight = recovered.flight
         /\ state'.jobs \subseteq recovered.jobs /\ state' \in DurableStates
    BY <1>3, <1>7, <1>9 DEF DurableStates
  <1>11. Narrows(state', disk.st, n)
    BY <1>3, <1>5, <1>6, <1>7, <1>10 DEF Narrows, Queued, Apart
  <1>12. DeadLetterCount(state') <= MaxDead
    <2>1. state'.dead \cup {} = state'.dead
      OBVIOUS
    <2>. QED
      BY <1>9, <2>1 DEF DeadLetterRoom, DeadLetterCount
  <1>13. UNCHANGED <<phase, steerOf>>
    BY DEF Restart, workers
  <1>. QED
    BY <1>1, <1>3, <1>5, <1>6, <1>7, <1>10, <1>11, <1>12, <1>13

-----------------------------------------------------------------------------
(***************************************************************************)
(* The origins after a step.                                               *)
(***************************************************************************)
\* What the main thread does to the workers.
LEMMA MainWork ==
    ASSUME QInv, MainNext
    PROVE  \/ UNCHANGED <<phase, result>>
           \/ \E m \in Msgs : Retire(m) \/ Retiring(m)
           \/ \E m \in Msgs : PostCommitProof(m)
           \/ \E m \in Msgs : SubmitWorker(m)
  <1>1. CASE FinishNext
    <2>1. CASE \E m \in Msgs : FinishOk(m) \/ FinishRetry(m) \/ FinishFail(m) \/ FinishRejected(m)
      BY <2>1 DEF FinishOk, FinishRetry, FinishFail, FinishRejected, TerminateTurn, NoRoomForTurn,
         workers
    <2>2. CASE \E m \in Msgs : PostCommitProof(m) \/ PostCommitRetire(m) \/ FinishFatal(m)
      BY <2>2 DEF PostCommitRetire, FinishFatal, workers
    <2>3. CASE FinishRejectedProof
      <3>1. pc = "rejected" => phase[target] = "done"
        BY DEF QInv, BatchWaits
      <3>. QED
        BY <2>3, <3>1, RejectedEffect DEF QInv, workers
    <2>4. CASE RejectedSave \/ FinishSave \/ FinishDone
      BY <2>4 DEF RejectedSave, FinishSave, FinishDone, workers
    <2>. QED
      BY <1>1, <2>1, <2>2, <2>3, <2>4 DEF FinishNext
  <1>2. CASE LoopNext
    BY <1>2 DEF LoopNext, ReconcileDone, ReconcileTerminal, ReconcileSave, ReconcileEnd,
       LoopSave, Fetch, FetchSave, Undo, NothingToAdmit, Admit, AdmitSave, workers
  <1>3. CASE SubmitNext
    BY <1>3 DEF SubmitNext, SubmitFails, SteerDeferred, SteerMark, SubmitBroken, SubmitSave,
       SubmitEnd, workers
  <1>4. CASE SteerNext
    BY <1>4 DEF SteerNext, SteerSave, AbandonSave, SteerUnmark, SteerUndoSave, SteerRefused,
       SteerAppendFails, SteerDelivered, SteerUncertain, RetireSave, RetireRetry, workers
  <1>5. CASE InlineNext
    BY <1>5 DEF InlineNext, InlineMark, InlineSave, InlineAnswered, InlinePublish, InlineFails,
       InlineFull, workers
  <1>. QED
    BY <1>1, <1>2, <1>3, <1>4, <1>5 DEF MainNext

LEMMA WorkStep ==
    ASSUME QInv, Next, NEW n \in Msgs
    PROVE  /\ phase'[n] # "idle" => phase[n] # "idle" \/ SubmitWorker(n)
           /\ phase'[n] # "done" => result'[n] = "none"
           /\ phase'[n] = "publish" => phase[n] = "publish" \/ PostAnswer(n)
  <1>1. /\ phase \in [Msgs -> Phases] /\ result \in [Msgs -> Results]
        /\ phase[n] # "done" => result[n] = "none"
    BY DEF QInv, OriginsOK, TypeOK
  <1>2. CASE UNCHANGED <<phase, result>>
    BY <1>1, <1>2
  <1>3. ASSUME NEW m \in Msgs,
               Retire(m) \/ Retiring(m) \/ SubmitWorker(m) \/ PostCommitProof(m)
        PROVE  /\ phase'[n] # "idle" => phase[n] # "idle" \/ SubmitWorker(n)
               /\ phase'[n] # "done" => result'[n] = "none"
               /\ phase'[n] = "publish" => phase[n] = "publish"
    <2>1. CASE Retire(m)
      BY <1>1, <2>1 DEF Retire
    <2>2. CASE SubmitWorker(m)
      <3>1. phase' = [phase EXCEPT ![m] = "queued"] /\ UNCHANGED result /\ m \in batch /\ pc = "submit"
        BY <2>2 DEF SubmitWorker, Submitting
      <3>2. phase[m] = "idle"
        BY <3>1, WaitingBefore DEF BatchPcs, WaitingOK
      <3>. QED
        BY <1>1, <2>2, <3>1, <3>2
    <2>3. CASE PostCommitProof(m)
      BY <1>1, <2>3 DEF PostCommitProof, Finishing
    <2>4. CASE Retiring(m)
      BY <1>1, <2>4 DEF Retiring
    <2>. QED
      BY <1>3, <2>1, <2>2, <2>3, <2>4
  <1>4. CASE MainNext
    BY <1>2, <1>3, <1>4, MainWork DEF QInv
  <1>5. ASSUME NEW m \in Msgs, WorkerNext(m)
        PROVE  /\ phase'[n] # "idle" => phase[n] # "idle"
               /\ phase'[n] # "done" => result'[n] = "none"
               /\ phase'[n] = "publish" => phase[n] = "publish" \/ PostAnswer(n)
    BY <1>5, WorkerWork
  <1>6. CASE ProcessNext
    BY <1>1, <1>6 DEF ProcessNext, Restart, BootSave, BootSaveFails, Crash, RequestShutdown,
       Halt, LoseMemory, workers
  <1>. QED
    BY <1>4, <1>5, <1>6 DEF Next

\* The entries of an origin in memory.
LEMMA EntriesStep ==
    ASSUME QInv, Next, NEW n \in Msgs
    PROVE  Apart(state', n) /\ InUse(state, seen, n)'
  <1>1. TypeOK /\ Apart(state, n) /\ InUse(state, seen, n)
    BY DEF QInv, OriginsOK
  <1>2. CASE Sound(n)
    BY <1>1, <1>2 DEF Sound, Narrows
  <1>3. CASE MainNext
    BY <1>2, <1>3, FinishSound, LoopSound, AdmitSound, UndoSound, SubmitSound, SteerSound,
       InlineSound DEF MainNext
  <1>4. ASSUME NEW m \in Msgs, WorkerNext(m) PROVE Sound(n)
    BY <1>4, WorkerSound
  <1>5. CASE Restart
    BY <1>5, RestartQueues, UseEnds DEF QInv, OriginsOK, SavedOK, Narrows
  <1>6. CASE BootSave
    BY <1>1, <1>2, <1>6, SaveEntry, SameWork, UseStays DEF Sound, BootSave, PersistOk, workers
  <1>7. CASE LoseMemory
    BY <1>7, UseEnds DEF LoseMemory, EmptyState, Apart
  <1>8. CASE RequestShutdown
    BY <1>1, <1>8 DEF RequestShutdown, durables, workers, InUse
  <1>9. CASE ProcessNext
    BY <1>5, <1>6, <1>7, <1>8, <1>9 DEF ProcessNext, BootSaveFails, Crash, Halt
  <1>. QED
    BY <1>2, <1>3, <1>4, <1>9 DEF Next

LEMMA SavedStep ==
    ASSUME QInv, Next, NEW n \in Msgs
    PROVE  SavedOK(n)'
  <1>1. SavedOK(n) /\ Apart(state, n) /\ InUse(state, seen, n)
    BY DEF QInv, OriginsOK
  <1>2. phase'[n] # "idle" => phase[n] # "idle" \/ SubmitWorker(n)
    BY WorkStep
  <1>3. ASSUME SubmitWorker(n) PROVE UNCHANGED disk /\ disk.st.flight[n] # "none"
    BY <1>3, WaitingBefore DEF SubmitWorker, Submitting, BatchPcs, WaitingOK, durables
  <1>4. CASE UNCHANGED disk
    BY <1>1, <1>2, <1>3, <1>4 DEF SavedOK
  <1>5. CASE disk' = Image(state, seen)
    BY <1>1, <1>2, <1>3, <1>5 DEF SavedOK, InUse, Image, PersistedSeen
  <1>. QED
    BY <1>4, <1>5, DiskStep

LEMMA OriginsStep ==
    ASSUME QInv, Next
    PROVE  OriginsOK'
  BY WorkStep, EntriesStep, SavedStep DEF OriginsOK

-----------------------------------------------------------------------------
(***************************************************************************)
(* The main thread after a step.                                           *)
(***************************************************************************)
\* The main thread comes to a rollback only by the saves that have one, and to a
\* batch only by its admission.
LEMMA MainGoes ==
    ASSUME TypeOK, MainNext
    PROVE  /\ pc' \notin {"down", "boot"}
           /\ pc' \in RollbackPcs =>
                \/ Fetch \/ Admit
                \/ pc \in RollbackPcs /\ (FetchSave \/ AdmitSave)
                     /\ UNCHANGED <<state, before, workers>>
           /\ pc' \in BatchPcs => Admit \/ AdmitSave \/ SubmitNext \/ SteerNext \/ InlineNext
  <1>1. round \in {"queue", "page", "shutdown"}
    BY DEF TypeOK
  <1>2. CASE FinishNext
    BY <1>1, <1>2 DEF FinishNext, FinishOk, FinishRetry, FinishFail, FinishRejected,
       PostCommitProof, PostCommitRetire, FinishFatal, RejectedSave, FinishRejectedProof,
       FinishSave, FinishDone, Finishing, NoRoomForTurn, Goto, Fatal, NextIteration,
       RollbackPcs, BatchPcs
  <1>3. CASE LoopNext
    <2>1. CASE FetchSave \/ AdmitSave
      BY <2>1 DEF FetchSave, AdmitSave, PersistOk, PersistFails, Goto, RollbackPcs, BatchPcs
    <2>2. CASE Admit
      BY <2>2 DEF Admit, AdmitCandidates, Fatal, Goto
    <2>3. CASE Fetch
      BY <2>3 DEF Fetch, FetchDue, Fatal, Goto, BatchPcs
    <2>. QED
      BY <1>3, <2>1, <2>2, <2>3 DEF LoopNext, ReconcileDone, ReconcileTerminal, ReconcileSave,
         ReconcileEnd, LoopSave, Undo, NothingToAdmit, Goto, Fatal, NextIteration, EndOfBatch,
         mains, RollbackPcs, BatchPcs
  <1>4. CASE SubmitNext
    BY <1>4 DEF SubmitNext, SubmitWorker, SubmitFails, SteerDeferred, SteerMark,
       SubmitBroken, SubmitSave, SubmitEnd, Submitting, RetryLater, Defer, ThenSave,
       EndOfBatch, Goto, Fatal, NextIteration, RollbackPcs
  <1>5. CASE SteerNext
    BY <1>5 DEF SteerNext, SteerSave, AbandonSave, SteerUnmark, SteerUndoSave,
       SteerRefused, SteerAppendFails, SteerDelivered, SteerUncertain, RetireSave,
       RetireRetry, RetryLater, Defer, ThenSave, Goto, Fatal, NextIteration, mains, RollbackPcs
  <1>6. CASE InlineNext
    BY <1>6 DEF InlineNext, InlineMark, InlineSave, InlineAnswered, InlinePublish,
       InlineFails, InlineFull, RetryLater, ThenSave, Goto, Fatal, NextIteration, RollbackPcs
  <1>. QED
    BY <1>2, <1>3, <1>4, <1>5, <1>6 DEF MainNext

\* The first pcs of an execution have no worker.
LEMMA RestStep ==
    ASSUME QInv, Next
    PROVE  NothingRunsYet'
  <1>. SUFFICES ASSUME NEW n \in Msgs, pc' \in {"down", "boot"}
                PROVE  phase'[n] = "idle" /\ steerOf'[n] = NoMsg
    BY DEF NothingRunsYet
  <1>1. CASE ProcessNext
    <2>1. LoseMemory \/ (pc \in {"down", "boot"} /\ UNCHANGED workers)
      BY <1>1 DEF ProcessNext, Restart, BootSave, BootSaveFails, Crash, RequestShutdown, Halt, Goto
    <2>. QED
      BY <2>1 DEF LoseMemory, QInv, NothingRunsYet, workers
  <1>2. ASSUME NEW m \in Msgs, WorkerNext(m) PROVE FALSE
    BY <1>2, WorkerPcs DEF mains
  <1>. QED
    BY <1>1, <1>2, MainGoes DEF Next, QInv

\* What is admitted is fresh, and saved when it is used.
LEMMA AdmitWaits ==
    ASSUME QInv, Admit \/ AdmitSave, pc' \in BatchPcs, NEW n \in batch'
    PROVE  WaitingOK(n)'
  <1>1. TypeOK
    BY DEF QInv
  <1>2. CASE Admit
    <2>1. /\ pc' = "admitSave"
          /\ n \notin seen /\ n \notin Pending /\ n \notin InFlight(state)
          /\ n \notin state.uncertain
          /\ state'.flight[n] = "admitted"
          /\ UNCHANGED <<state.uncertain, workers>>
      BY <1>1, <1>2, AdmitEffect DEF BatchPcs
    <2>2. n \in Msgs
      BY <1>1, <1>2, TypeStep DEF Next, MainNext, LoopNext, TypeOK
    <2>3. phase[n] = "idle" /\ state.flight[n] = "none"
      BY <2>1, <2>2 DEF Pending, InFlight
    <2>4. steerOf[n] = NoMsg
      BY <2>1, <2>2, <2>3 DEF QInv, OriginsOK, InUse
    <2>. QED
      BY <2>1, <2>3, <2>4 DEF WaitingOK, workers
  <1>3. CASE AdmitSave
    <2>1. /\ pc = "admitSave" /\ disk'.st = state /\ pc' # "admitSave"
          /\ UNCHANGED <<state, batch, workers>>
      BY <1>3 DEF AdmitSave, PersistOk, Image, Goto, BatchPcs
    <2>2. WaitingOK(n)
      BY <2>1, WaitingBefore DEF BatchPcs
    <2>. QED
      BY <2>1, <2>2 DEF WaitingOK, workers
  <1>. QED
    BY <1>2, <1>3

LEMMA WaitStep ==
    ASSUME QInv, Next, pc' \in BatchPcs, NEW n \in batch'
    PROVE  WaitingOK(n)'
  <1>1. TypeOK /\ BatchIsIdle
    BY WaitingBefore DEF QInv, BatchIsIdle, Waits, WaitingOK
  <1>2. ASSUME pc \in BatchPcs, pc # "admitSave" \/ UNCHANGED pc, n \in batch, StillWaits(n)
        PROVE  WaitingOK(n)'
    <2>1. WaitingOK(n)
      BY <1>2, WaitingBefore
    <2>2. UNCHANGED disk \/ disk'.st = state
      BY DiskStep DEF Image
    <2>. QED
      BY <1>2, <2>1, <2>2 DEF WaitingOK, StillWaits
  <1>3. CASE ProcessNext
    BY <1>3 DEF ProcessNext, Restart, BootSave, BootSaveFails, Crash, RequestShutdown, Halt,
       LoseMemory, Goto, BatchPcs
  <1>4. CASE SubmitNext \/ SteerNext \/ InlineNext
    <2>1. pc # "admitSave"
      BY <1>4 DEF SubmitNext, SubmitWorker, SubmitFails, SteerDeferred, SteerMark, SubmitBroken,
         SubmitSave, SubmitEnd, Submitting, SteerNext, SteerSave, AbandonSave, SteerUnmark,
         SteerUndoSave, SteerRefused, SteerAppendFails, SteerDelivered, SteerUncertain,
         RetireSave, RetireRetry, InlineNext, InlineMark, InlineSave, InlineAnswered,
         InlinePublish, InlineFails, InlineFull
    <2>. QED
      BY <1>1, <1>2, <1>4, <2>1, BatchSubmit, BatchSteer, BatchInline
  <1>5. ASSUME NEW m \in Msgs, WorkerNext(m) PROVE WaitingOK(n)'
    <2>1. pc \in BatchPcs /\ n \in batch /\ UNCHANGED mains
      BY <1>5, WorkerPcs DEF mains
    <2>2. n \in Msgs /\ WaitingOK(n)
      BY <2>1, WaitingBefore
    <2>3. StillWaits(n)
      BY <1>1, <1>5, <2>2, BatchWorker DEF StillWaits, WaitingOK
    <2>. QED
      BY <1>2, <2>1, <2>3 DEF mains
  <1>. QED
    BY <1>1, <1>3, <1>4, <1>5, MainGoes, AdmitWaits DEF Next, MainNext

LEMMA AimStep ==
    ASSUME QInv, Next, pc' \in BatchTargetPcs
    PROVE  target' \in batch'
  <1>1. pc \in BatchTargetPcs => target \in batch
    BY DEF QInv, BatchWaits
  <1>2. CASE ProcessNext
    BY <1>2 DEF ProcessNext, Restart, BootSave, BootSaveFails, Crash, RequestShutdown, Halt,
       LoseMemory, Goto, BatchTargetPcs
  <1>3. BatchTargetPcs \subseteq BatchPcs
    BY DEF BatchTargetPcs, BatchPcs
  <1>4. CASE Admit \/ AdmitSave
    BY <1>4 DEF Admit, AdmitSave, AdmitCandidates, Fatal, Goto, BatchTargetPcs
  <1>5. CASE SubmitNext
    <2>1. CASE \E m \in Msgs : SteerMark(m)
      BY <2>1 DEF SteerMark, Submitting, Fatal, Goto, BatchTargetPcs
    <2>2. CASE \E m \in Msgs : SubmitWorker(m) \/ SubmitFails(m) \/ SteerDeferred(m)
      BY <2>2 DEF SubmitWorker, SubmitFails, SteerDeferred, Submitting, RetryLater, Defer,
         ThenSave, Fatal, Goto, BatchTargetPcs
    <2>3. CASE SubmitBroken \/ SubmitSave \/ SubmitEnd
      BY <2>3 DEF SubmitBroken, SubmitSave, SubmitEnd, EndOfBatch, Goto, Fatal, NextIteration,
         BatchTargetPcs
    <2>. QED
      BY <1>5, <2>1, <2>2, <2>3 DEF SubmitNext
  <1>6. CASE SteerNext
    BY <1>1, <1>6 DEF SteerNext, SteerSave, AbandonSave, SteerUnmark, SteerUndoSave,
       SteerRefused, SteerAppendFails, SteerDelivered, SteerUncertain, RetireSave,
       RetireRetry, RetryLater, Defer, ThenSave, Goto, Fatal, NextIteration, mains, BatchTargetPcs
  <1>7. CASE InlineNext
    BY <1>1, <1>7 DEF InlineNext, InlineMark, InlineSave, InlineAnswered, InlinePublish,
       InlineFails, InlineFull, Submitting, RetryLater, ThenSave, Goto, Fatal, NextIteration,
       BatchTargetPcs
  <1>8. ASSUME NEW m \in Msgs, WorkerNext(m) PROVE target' \in batch'
    BY <1>1, <1>8, WorkerPcs DEF mains
  <1>. QED
    BY <1>2, <1>3, <1>4, <1>5, <1>6, <1>7, <1>8, MainGoes DEF Next, MainNext, QInv

\* A turn that is being rejected has ended, and stays.
LEMMA RejectionStep ==
    ASSUME QInv, Next, pc' \in {"rejectSave", "rejected"}
    PROVE  phase'[target'] = "done"
  <1>1. TypeOK /\ (pc \in {"rejectSave", "rejected"} => target \in Msgs /\ phase[target] = "done")
    BY DEF QInv, BatchWaits, TypeOK, TargetPcs
  <1>2. CASE ProcessNext
    BY <1>2 DEF ProcessNext, Restart, BootSave, BootSaveFails, Crash, RequestShutdown, Halt,
       LoseMemory, Goto
  <1>3. CASE FinishNext
    BY <1>1, <1>3 DEF FinishNext, FinishOk, FinishRetry, FinishFail, FinishRejected,
       PostCommitProof, PostCommitRetire, FinishFatal, RejectedSave, FinishRejectedProof,
       FinishSave, FinishDone, Finishing, NoRoomForTurn, workers, TypeOK, Goto, Fatal,
       NextIteration
  <1>4. CASE LoopNext
    BY <1>1, <1>4 DEF LoopNext, ReconcileDone, ReconcileTerminal, ReconcileSave, ReconcileEnd,
       LoopSave, Fetch, FetchDue, FetchSave, Undo, NothingToAdmit, Admit, AdmitCandidates,
       AdmitSave, EndOfBatch, NextIteration, Goto, Fatal, mains, TypeOK
  <1>5. CASE SubmitNext
    BY <1>1, <1>5 DEF SubmitNext, SubmitWorker, SubmitFails, SteerDeferred, SteerMark,
       SubmitBroken, SubmitSave, SubmitEnd, Submitting, RetryLater, Defer, ThenSave, EndOfBatch,
       NextIteration, Goto, Fatal, TypeOK
  <1>6. CASE SteerNext
    BY <1>1, <1>6 DEF SteerNext, SteerSave, AbandonSave, SteerUnmark, SteerUndoSave, SteerRefused,
       SteerAppendFails, SteerDelivered, SteerUncertain, RetireSave, RetireRetry, RetryLater,
       Defer, ThenSave, NextIteration, Goto, Fatal, mains, TypeOK
  <1>7. CASE InlineNext
    BY <1>1, <1>7 DEF InlineNext, InlineMark, InlineSave, InlineAnswered, InlinePublish,
       InlineFails, InlineFull, RetryLater, ThenSave, NextIteration, Goto, Fatal, TypeOK
  <1>8. ASSUME NEW m \in Msgs, WorkerNext(m) PROVE phase'[target'] = "done"
    <2>1. UNCHANGED <<pc, target>>
      BY <1>8, WorkerPcs DEF mains
    <2>2. /\ phase[m] # "done"
          /\ \E where \in Phases : phase' = [phase EXCEPT ![m] = where]
      BY <1>8 DEF WorkerNext, Begin, PreFails, LocalAnswer, Mark, MarkSave, Register, StartFails,
         StartHermes, HermesEnds, AnswerBlocked, PostAnswer, Publish, PublishSave, ErrorNotice,
         ErrorSave, Working, Advance, End, Phases
    <2>. QED
      BY <1>1, <2>1, <2>2 DEF TypeOK
  <1>. QED
    BY <1>2, <1>3, <1>4, <1>5, <1>6, <1>7, <1>8 DEF Next, MainNext

LEMMA BatchWaitStep ==
    ASSUME QInv, Next
    PROVE  BatchWaits'
  BY WaitStep, AimStep, RejectionStep DEF BatchWaits

-----------------------------------------------------------------------------
(***************************************************************************)
(* The jobs and the dead letters after a step.                             *)
(***************************************************************************)
\* Each new dead letter has a place.
LettersFit == UNCHANGED <<state.dead, state.lost>> \/ DeadLetterCount(state') <= MaxDead

LEMMA LettersWithRoom ==
    ASSUME NEW M, DeadLetterRoom(state, M), state'.dead = state.dead \cup M, UNCHANGED state.lost
    PROVE  LettersFit
  BY DEF LettersFit, DeadLetterRoom, DeadLetterCount

LEMMA TerminateLimits ==
    ASSUME TypeOK, NEW m \in Msgs, TerminateTurn(m)
    PROVE  UNCHANGED state.jobs /\ LettersFit
  <1>. DEFINE read == {m} \cup (SteeringOf(m) \cap MayStart(state))
              t == Terminalize(state, read)
  <1>1. state \in DurableStates /\ SteeringOf(m) \in SUBSET Msgs /\ read \in SUBSET Msgs
    BY OriginSets DEF TypeOK
  <1>2. state' = ReturnAdmittedToRetry(t, SteeringOf(m)) /\ DeadLetterRoom(state, read)
    BY DEF TerminateTurn
  <1>3. /\ t \in DurableStates /\ t.jobs = state.jobs
        /\ t.dead = state.dead \cup read /\ t.lost = state.lost
    BY <1>1, TerminalizeFacts
  <1>. HIDE DEF t, read
  <1>4. state'.jobs = t.jobs /\ state'.dead = t.dead /\ state'.lost = t.lost
    BY <1>1, <1>2, <1>3, ReturnAdmittedFacts
  <1>. QED
    BY <1>2, <1>3, <1>4, LettersWithRoom

LEMMA FinishRetryLimits ==
    ASSUME TypeOK, NEW m \in Msgs, FinishRetry(m)
    PROVE  UNCHANGED state.jobs /\ LettersFit
  <1>. DEFINE u == UpsertRetry(state, {m})
  <1>1. state \in DurableStates /\ SteeringOf(m) \in SUBSET Msgs /\ {m} \in SUBSET Msgs
    BY OriginSets DEF TypeOK
  <1>2. \/ UNCHANGED state
        \/ /\ DeadLetterRoom(state, Exhausted(state, {m}))
           /\ state' = ReturnAdmittedToRetry(u, SteeringOf(m))
    BY DEF FinishRetry
  <1>3. /\ u \in DurableStates /\ u.jobs = state.jobs
        /\ u.dead = state.dead \cup Exhausted(state, {m}) /\ u.lost = state.lost
    BY <1>1, UpsertRetryFacts
  <1>. HIDE DEF u
  <1>4. CASE UNCHANGED state
    BY <1>4 DEF LettersFit
  <1>5. CASE /\ DeadLetterRoom(state, Exhausted(state, {m}))
             /\ state' = ReturnAdmittedToRetry(u, SteeringOf(m))
    <2>1. state'.jobs = u.jobs /\ state'.dead = u.dead /\ state'.lost = u.lost
      BY <1>1, <1>3, <1>5, ReturnAdmittedFacts
    <2>. QED
      BY <1>3, <1>5, <2>1, LettersWithRoom
  <1>. QED
    BY <1>2, <1>4, <1>5

LEMMA FinishLimits ==
    ASSUME TypeOK, FinishNext
    PROVE  UNCHANGED state.jobs /\ LettersFit
  <1>1. state \in DurableStates /\ (\A m : SteeringOf(m) \in SUBSET Msgs)
    BY OriginSets DEF TypeOK
  <1>2. ASSUME UNCHANGED state PROVE UNCHANGED state.jobs /\ LettersFit
    BY <1>2 DEF LettersFit
  <1>3. ASSUME NEW m \in Msgs, FinishOk(m) \/ PostCommitProof(m)
        PROVE  UNCHANGED state.jobs /\ LettersFit
    <2>1. UNCHANGED state \/ state' = RemoveInFlight(state, {m} \cup SteeringOf(m))
      BY <1>3 DEF FinishOk, PostCommitProof, PersistFails
    <2>2. {m} \cup SteeringOf(m) \in SUBSET Msgs
      BY <1>1
    <2>. QED
      BY <1>1, <1>2, <2>1, <2>2, RemoveInFlightFacts DEF LettersFit
  <1>4. ASSUME NEW m \in Msgs, FinishFail(m) PROVE UNCHANGED state.jobs /\ LettersFit
    BY <1>2, <1>4, TerminateLimits DEF FinishFail, NoRoomForTurn
  <1>5. ASSUME NEW m \in Msgs, FinishRejected(m) PROVE UNCHANGED state.jobs /\ LettersFit
    <2>1. CASE DeadLetterRoom(state, {m}) /\ state' = [state EXCEPT !.dead = @ \cup {m}]
      <3>1. state'.dead = state.dead \cup {m} /\ UNCHANGED <<state.lost, state.jobs>>
        BY <1>1, <2>1 DEF DurableStates
      <3>. QED
        BY <2>1, <3>1, LettersWithRoom
    <2>. QED
      BY <1>2, <1>5, <2>1 DEF FinishRejected
  <1>6. CASE FinishRejectedProof
    <2>1. target \in Msgs
      BY <1>6 DEF FinishRejectedProof, TypeOK, TargetPcs
    <2>. QED
      BY <1>2, <1>6, <2>1, TerminateLimits DEF FinishRejectedProof, NoRoomForTurn
  <1>7. ASSUME NEW m \in Msgs, PostCommitRetire(m) \/ FinishFatal(m) PROVE UNCHANGED state
    BY <1>7 DEF PostCommitRetire, FinishFatal, PersistOk, PersistFails, durables
  <1>8. CASE RejectedSave \/ FinishSave \/ FinishDone
    BY <1>2, <1>8 DEF RejectedSave, FinishSave, FinishDone, PersistOk, PersistFails, durables
  <1>. QED
    BY <1>2, <1>3, <1>4, <1>5, <1>6, <1>7, <1>8, FinishRetryLimits DEF FinishNext

LEMMA FetchLimits ==
    ASSUME TypeOK, Fetch
    PROVE  UNCHANGED state.jobs /\ LettersFit
  <1>1. state \in DurableStates
    BY DEF TypeOK
  <1>2. PICK due \in SUBSET state.retries :
          \E outcome \in [due -> {"fetched", "gone", "retry"}] : FetchDue(due, outcome)
    BY DEF Fetch
  <1>3. PICK outcome \in [due -> {"fetched", "gone", "retry"}] : FetchDue(due, outcome)
    BY <1>2
  <1>. DEFINE Of(o) == {k \in due : outcome[k] = o}
              gone == Of("gone")
              later == Of("retry")
              t == Terminalize(state, gone)
  <1>4. gone \in SUBSET Msgs /\ later \in SUBSET Msgs /\ later \cap gone = {}
    BY <1>1, <1>2 DEF DurableStates
  <1>5. \/ UNCHANGED state
        \/ /\ DeadLetterRoom(state, gone \cup Exhausted(state, later))
           /\ state' = UpsertRetry(t, later)
    BY <1>3 DEF FetchDue
  <1>. HIDE DEF gone, later
  <1>6. /\ t \in DurableStates /\ t.jobs = state.jobs
        /\ t.dead = state.dead \cup gone /\ t.lost = state.lost
        /\ Exhausted(t, later) = Exhausted(state, later)
    BY <1>1, <1>4, TerminalizeFacts, ExhaustedFacts
  <1>. HIDE DEF t
  <1>7. CASE UNCHANGED state
    BY <1>7 DEF LettersFit
  <1>8. CASE /\ DeadLetterRoom(state, gone \cup Exhausted(state, later))
             /\ state' = UpsertRetry(t, later)
    <2>1. /\ state'.jobs = t.jobs /\ state'.lost = t.lost
          /\ state'.dead = t.dead \cup Exhausted(t, later)
      BY <1>4, <1>6, <1>8, UpsertRetryFacts
    <2>2. state'.dead = state.dead \cup (gone \cup Exhausted(state, later))
      BY <1>6, <2>1
    <2>. QED
      BY <1>6, <1>8, <2>1, <2>2, LettersWithRoom
  <1>. QED
    BY <1>5, <1>7, <1>8

LEMMA AdmitLimits ==
    ASSUME TypeOK, NEW found \in SUBSET Msgs,
           NEW outcome \in [found -> {"ignored", "gone", "retry", "prepared"}],
           AdmitCandidates(found, outcome)
    PROVE  UNCHANGED state.jobs /\ LettersFit
  <1>. DEFINE Of(o) == {k \in found : outcome[k] = o}
              ignored == Of("ignored")
              gone == Of("gone")
              later == Of("retry")
              prepared == Of("prepared")
              s1 == RemoveRetry(state, ignored)
              s2 == Terminalize(s1, gone)
              s3 == UpsertRetry(s2, later)
  <1>1. /\ state \in DurableStates
        /\ ignored \in SUBSET Msgs /\ gone \in SUBSET Msgs /\ later \in SUBSET Msgs
        /\ prepared \in SUBSET Msgs /\ later \cap gone = {} /\ later \cap ignored = {}
    BY DEF TypeOK
  <1>2. \/ UNCHANGED state
        \/ /\ DeadLetterRoom(state, gone \cup Exhausted(state, later))
           /\ state' = AdmitOrigins(s3, prepared)
    BY DEF AdmitCandidates
  <1>. HIDE DEF ignored, gone, later, prepared
  <1>3. /\ s1 \in DurableStates /\ s1.jobs = state.jobs
        /\ s1.dead = state.dead /\ s1.lost = state.lost
        /\ Exhausted(s1, later) = Exhausted(state, later)
    BY <1>1, RemoveRetryFacts, ExhaustedFacts
  <1>. HIDE DEF s1
  <1>4. /\ s2 \in DurableStates /\ s2.jobs = s1.jobs
        /\ s2.dead = s1.dead \cup gone /\ s2.lost = s1.lost
        /\ Exhausted(s2, later) = Exhausted(s1, later)
    BY <1>1, <1>3, TerminalizeFacts, ExhaustedFacts
  <1>. HIDE DEF s2
  <1>5. /\ s3 \in DurableStates /\ s3.jobs = s2.jobs
        /\ s3.dead = s2.dead \cup Exhausted(s2, later) /\ s3.lost = s2.lost
    BY <1>1, <1>4, UpsertRetryFacts
  <1>. HIDE DEF s3
  <1>6. CASE UNCHANGED state
    BY <1>6 DEF LettersFit
  <1>7. CASE /\ DeadLetterRoom(state, gone \cup Exhausted(state, later))
             /\ state' = AdmitOrigins(s3, prepared)
    <2>1. state'.jobs = s3.jobs /\ state'.dead = s3.dead /\ state'.lost = s3.lost
      BY <1>1, <1>5, <1>7, AdmitOriginsFacts
    <2>2. state'.dead = state.dead \cup (gone \cup Exhausted(state, later))
      BY <1>3, <1>4, <1>5, <2>1
    <2>. QED
      BY <1>3, <1>4, <1>5, <1>7, <2>1, <2>2, LettersWithRoom
  <1>. QED
    BY <1>2, <1>6, <1>7

\* The loop adds no job; of the letters it adds each has its place.
LEMMA LoopLimits ==
    ASSUME QInv, LoopNext, ~ Undo
    PROVE  /\ state'.jobs \subseteq state.jobs
           /\ Fetch \/ Admit => UNCHANGED state.jobs
           /\ LettersFit
  <1>1. TypeOK /\ state \in DurableStates
    BY DEF QInv, TypeOK
  <1>2. CASE Fetch
    BY <1>1, <1>2, FetchLimits
  <1>3. CASE Admit
    <2>1. PICK found \in {Candidates(page) : page \in Pages} :
            \E outcome \in [found -> {"ignored", "gone", "retry", "prepared"}] :
                AdmitCandidates(found, outcome)
      BY <1>3 DEF Admit
    <2>2. found \in SUBSET Msgs
      BY <1>1, <2>1 DEF Candidates, Pages, TypeOK
    <2>. QED
      BY <1>1, <2>1, <2>2, AdmitLimits
  <1>4. ASSUME ~ Fetch, ~ Admit
        PROVE  state'.jobs \subseteq state.jobs /\ LettersFit
    <2>1. ASSUME UNCHANGED state PROVE state'.jobs \subseteq state.jobs /\ LettersFit
      BY <2>1 DEF LettersFit
    <2>2. ASSUME NEW m \in Msgs, ReconcileDone(m)
          PROVE  state'.jobs \subseteq state.jobs /\ LettersFit
      BY <1>1, <2>2 DEF ReconcileDone, DurableStates, LettersFit
    <2>3. ASSUME NEW m \in Msgs, ReconcileTerminal(m)
          PROVE  state'.jobs \subseteq state.jobs /\ LettersFit
      <3>. DEFINE g == [state EXCEPT !.jobs = @ \ {m}, !.lost = @ \cup {m}]
      <3>1. UNCHANGED state \/ (DeadLetterRoom(g, {}) /\ state' = g)
        BY <2>3 DEF ReconcileTerminal
      <3>2. g.jobs \subseteq state.jobs /\ g.dead \cup {} = g.dead
        BY <1>1 DEF DurableStates
      <3>. HIDE DEF g
      <3>. QED
        BY <2>1, <3>1, <3>2 DEF LettersFit, DeadLetterRoom, DeadLetterCount
    <2>4. CASE ReconcileSave \/ ReconcileEnd \/ LoopSave \/ FetchSave \/ NothingToAdmit \/ AdmitSave
      BY <2>1, <2>4 DEF ReconcileSave, ReconcileEnd, LoopSave, FetchSave, NothingToAdmit,
         AdmitSave, PersistOk, PersistFails, durables
    <2>. QED
      BY <1>4, <2>2, <2>3, <2>4 DEF LoopNext
  <1>. QED
    BY <1>2, <1>3, <1>4

LEMMA LaterLimits ==
    ASSUME TypeOK, NEW m \in Msgs, RetryLater(m) \/ Defer(m)
    PROVE  UNCHANGED state.jobs /\ LettersFit
  <1>1. state \in DurableStates /\ {m} \in SUBSET Msgs
    BY DEF TypeOK
  <1>2. CASE UNCHANGED state
    BY <1>2 DEF LettersFit
  <1>3. CASE /\ DeadLetterRoom(state, Exhausted(state, {m}))
             /\ state' = UpsertRetry(state, {m})
    BY <1>1, <1>3, UpsertRetryFacts, LettersWithRoom
  <1>4. CASE state' = ReturnAdmittedToRetry(state, {m})
    BY <1>1, <1>4, ReturnAdmittedFacts DEF LettersFit
  <1>. QED
    BY <1>2, <1>3, <1>4 DEF RetryLater, Defer

LEMMA StageLimits ==
    ASSUME TypeOK, NEW m \in Msgs, NEW stage \in Stages, state' = WithStage(state, {m}, stage)
    PROVE  UNCHANGED <<state.jobs, state.dead, state.lost>>
  <1>1. state \in DurableStates /\ {m} \in SUBSET Msgs
    BY DEF TypeOK
  <1>. QED
    BY <1>1, WithStageFacts

LEMMA SubmitLimits ==
    ASSUME QInv, SubmitNext
    PROVE  /\ UNCHANGED state.jobs
           /\ LettersFit
           /\ pc' \in {"steerSave", "steer"} =>
                UNCHANGED <<state.dead, state.lost>> /\ DeadLetterCount(state) < MaxDead
  <1>1. TypeOK
    BY DEF QInv
  <1>2. ASSUME UNCHANGED state PROVE UNCHANGED state.jobs /\ LettersFit
    BY <1>2 DEF LettersFit
  <1>3. ASSUME NEW m \in Msgs, SteerMark(m)
        PROVE  /\ UNCHANGED <<state.jobs, state.dead, state.lost>>
               /\ pc' = "steerSave" => DeadLetterCount(state) < MaxDead
               /\ pc' # "steer"
    <2>1. UNCHANGED state \/ state' = WithStage(state, {m}, "hermes_may_start")
      BY <1>3 DEF SteerMark, MarkMayStart
    <2>. QED
      BY <1>1, <1>3, <2>1, StageLimits DEF SteerMark, Fatal, Goto, Stages
  <1>4. ASSUME NEW m \in Msgs, SubmitFails(m) \/ SteerDeferred(m)
        PROVE  UNCHANGED state.jobs /\ LettersFit /\ pc' \notin {"steerSave", "steer"}
    <2>1. pc' \notin {"steerSave", "steer"}
      BY <1>4 DEF SubmitFails, SteerDeferred, RetryLater, Defer, ThenSave, Fatal, Goto
    <2>. QED
      BY <1>1, <1>4, <2>1, LaterLimits DEF SubmitFails, SteerDeferred
  <1>5. ASSUME NEW m \in Msgs, SubmitWorker(m)
        PROVE  UNCHANGED state /\ pc' \notin {"steerSave", "steer"}
    BY <1>5 DEF SubmitWorker, Submitting, durables
  <1>6. CASE SubmitBroken \/ SubmitSave \/ SubmitEnd
    <2>1. UNCHANGED state /\ pc' \notin {"steerSave", "steer"}
      BY <1>6 DEF SubmitBroken, SubmitSave, SubmitEnd, EndOfBatch, Goto, Fatal, NextIteration,
         PersistOk, PersistFails, durables
    <2>. QED
      BY <1>2, <2>1
  <1>. QED
    BY <1>2, <1>3, <1>4, <1>5, <1>6 DEF SubmitNext, LettersFit

\* A letter for the target was reserved by SteerMark.
LEMMA TargetLetter ==
    ASSUME QInv, target \in Msgs, DeadLetterCount(state) < MaxDead,
           state'.dead = state.dead \cup {target}, UNCHANGED state.lost
    PROVE  DeadLetterCount(state') <= MaxDead
  <1>1. /\ IsFiniteSet(state.dead) /\ IsFiniteSet(state.lost)
        /\ MaxDead \in Nat
    BY DurableAssumption, FS_Subset DEF QInv, TypeOK, DurableStates
  <1>2. /\ Cardinality(state.dead) \in Nat /\ Cardinality(state.lost) \in Nat
        /\ Cardinality(state'.dead) \in Nat
        /\ Cardinality(state'.dead) <= Cardinality(state.dead) + 1
    <2>1. /\ IsFiniteSet(state.dead \cup {target})
          /\ Cardinality(state.dead \cup {target}) \in {Cardinality(state.dead), Cardinality(state.dead) + 1}
      BY <1>1, FS_AddElement
    <2>2. /\ Cardinality(state.dead) \in Nat /\ Cardinality(state.lost) \in Nat
          /\ Cardinality(state.dead \cup {target}) \in Nat
      BY <1>1, <2>1, FS_CardinalityType
    <2>. QED
      BY <2>1, <2>2
  <1>. QED
    BY <1>1, <1>2 DEF DeadLetterCount

LEMMA SteerLimits ==
    ASSUME QInv, SteerNext
    PROVE  /\ UNCHANGED state.jobs
           /\ LettersFit
           /\ pc' \in {"steerSave", "steer"} =>
                UNCHANGED <<state.dead, state.lost>> /\ pc \in {"steerSave", "steer"}
  <1>1. TypeOK /\ state \in DurableStates
    BY DEF QInv, TypeOK
  <1>2. ASSUME UNCHANGED state PROVE UNCHANGED state.jobs /\ LettersFit
    BY <1>2 DEF LettersFit
  <1>3. ASSUME pc \in BatchTargetPcs
        PROVE  target \in Msgs /\ {target} \in SUBSET Msgs
    BY <1>3, TargetBefore
  <1>4. /\ "admitted" \in Stages
        /\ pc \in {"steerSave", "steer"} => DeadLetterCount(state) < MaxDead
    BY DEF Stages, QInv, LimitsOK
  <1>5. CASE SteerSave
    <2>. DEFINE w == WithStage(state, {target}, "admitted")
    <2>1. /\ pc \in BatchTargetPcs
          /\ pc' # "steerSave"
          /\ \/ UNCHANGED state /\ pc' = "steer" /\ pc = "steerSave"
             \/ state' = ReturnAdmittedToRetry(w, {target}) /\ pc' # "steer"
      BY <1>5 DEF SteerSave, PersistOk, Goto, BatchTargetPcs
    <2>2. w \in DurableStates /\ w.jobs = state.jobs /\ w.dead = state.dead /\ w.lost = state.lost
      <3>1. {target} \in SUBSET Msgs /\ "admitted" \in Stages
        BY <1>3, <1>4, <2>1
      <3>. QED
        BY <1>1, <3>1, WithStageFacts
    <2>. HIDE DEF w
    <2>3. CASE state' = ReturnAdmittedToRetry(w, {target}) /\ pc' # "steer"
      BY <1>3, <2>1, <2>2, <2>3, ReturnAdmittedFacts DEF LettersFit
    <2>. QED
      BY <1>2, <2>1, <2>3
  <1>6. CASE SteerUnmark
    <2>1. pc \in BatchTargetPcs /\ pc' \notin {"steerSave", "steer"}
      BY <1>6 DEF SteerUnmark, Goto, BatchTargetPcs
    <2>. QED
      BY <1>1, <1>3, <1>4, <1>6, <2>1, StageLimits DEF SteerUnmark, LettersFit
  <1>7. CASE SteerUndoSave
    <2>1. /\ pc \in BatchTargetPcs /\ pc' \notin {"steerSave", "steer"}
          /\ UNCHANGED state \/ state' = ReturnAdmittedToRetry(state, {target})
      BY <1>7 DEF SteerUndoSave, PersistOk, Goto, BatchTargetPcs
    <2>. QED
      BY <1>1, <1>3, <2>1, ReturnAdmittedFacts DEF LettersFit
  <1>8. CASE SteerRefused
    <2>1. pc \in BatchTargetPcs /\ pc' \notin {"steerSave", "steer"}
      BY <1>8 DEF SteerRefused, RetryLater, Defer, ThenSave, Fatal, Goto, BatchTargetPcs
    <2>. QED
      BY <1>1, <1>3, <1>8, <2>1, LaterLimits DEF SteerRefused
  <1>9. CASE SteerAppendFails
    <2>1. /\ pc \in BatchTargetPcs /\ pc = "steer" /\ pc' \notin {"steerSave", "steer"}
          /\ UNCHANGED state \/ state' = Terminalize(state, {target})
      BY <1>9 DEF SteerAppendFails, ThenSave, NextIteration, BatchTargetPcs
    <2>2. CASE state' = Terminalize(state, {target})
      <3>1. state'.dead = state.dead \cup {target} /\ UNCHANGED <<state.lost, state.jobs>>
        BY <1>1, <1>3, <2>1, <2>2, TerminalizeFacts
      <3>. QED
        BY <1>3, <1>4, <2>1, <3>1, TargetLetter DEF LettersFit
    <2>. QED
      BY <1>2, <2>1, <2>2
  <1>10. CASE SteerUncertain
    <2>1. /\ pc \in BatchTargetPcs /\ pc = "steer" /\ pc' \notin {"steerSave", "steer"}
          /\ state' = [Terminalize(state, {target}) EXCEPT !.uncertain = @ \cup {target}]
      BY <1>10 DEF SteerUncertain, BatchTargetPcs
    <2>2. /\ Terminalize(state, {target}) \in DurableStates
          /\ Terminalize(state, {target}).dead = state.dead \cup {target}
          /\ Terminalize(state, {target}).lost = state.lost
          /\ Terminalize(state, {target}).jobs = state.jobs
      BY <1>1, <1>3, <2>1, TerminalizeFacts
    <2>3. state'.dead = state.dead \cup {target} /\ UNCHANGED <<state.lost, state.jobs>>
      BY <2>1, <2>2 DEF DurableStates
    <2>. QED
      BY <1>3, <1>4, <2>1, <2>3, TargetLetter DEF LettersFit
  <1>11. CASE AbandonSave \/ SteerDelivered \/ RetireSave \/ RetireRetry
    <2>1. UNCHANGED state /\ pc' \notin {"steerSave", "steer"}
      BY <1>11 DEF AbandonSave, SteerDelivered, RetireSave, RetireRetry, PersistOk, PersistFails,
         ThenSave, Goto, NextIteration, mains, durables
    <2>. QED
      BY <1>2, <2>1
  <1>. QED
    BY <1>5, <1>6, <1>7, <1>8, <1>9, <1>10, <1>11 DEF SteerNext

\* The only job that the main thread adds has its place.
LEMMA InlineLimits ==
    ASSUME QInv, InlineNext
    PROVE  /\ \/ UNCHANGED state.jobs
              \/ \E m \in Msgs : state'.jobs = state.jobs \cup {m} /\ JobsTaken < MaxJobs
           /\ LettersFit
           /\ pc' \notin {"steerSave", "steer"}
  <1>1. TypeOK /\ state \in DurableStates
    BY DEF QInv, TypeOK
  <1>2. ASSUME UNCHANGED state PROVE UNCHANGED state.jobs /\ LettersFit
    BY <1>2 DEF LettersFit
  <1>3. ASSUME pc \in BatchTargetPcs
        PROVE  target \in Msgs /\ {target} \in SUBSET Msgs
    BY <1>3, TargetBefore
  <1>4. pc' \notin {"steerSave", "steer"}
    BY DEF InlineNext, InlineMark, InlineSave, InlineAnswered, InlinePublish, InlineFails,
       InlineFull, RetryLater, ThenSave, Goto, Fatal, NextIteration
  <1>5. ASSUME NEW m \in Msgs, InlineMark(m) PROVE UNCHANGED state.jobs /\ LettersFit
    <2>1. state' = WithStage(state, {m}, "hermes_may_start")
      BY <1>5 DEF InlineMark, MarkMayStart
    <2>. QED
      BY <1>1, <2>1, StageLimits DEF LettersFit, Stages
  <1>6. CASE InlineAnswered
    <2>1. /\ pc \in BatchTargetPcs /\ JobsTaken < MaxJobs
          /\ state' = [state EXCEPT !.jobs = @ \cup {target}]
      BY <1>6 DEF InlineAnswered, BatchTargetPcs
    <2>2. state'.jobs = state.jobs \cup {target} /\ UNCHANGED <<state.dead, state.lost>>
      BY <1>1, <2>1 DEF DurableStates
    <2>. QED
      BY <1>3, <1>4, <2>1, <2>2 DEF LettersFit
  <1>7. CASE InlinePublish
    <2>1. pc \in BatchTargetPcs /\ state' = RemoveInFlight(state, {target})
      BY <1>7 DEF InlinePublish, BatchTargetPcs
    <2>. QED
      BY <1>1, <1>3, <1>4, <2>1, RemoveInFlightFacts DEF LettersFit
  <1>8. CASE InlineFails
    <2>1. pc \in BatchTargetPcs
      BY <1>8 DEF InlineFails, BatchTargetPcs
    <2>2. CASE RetryLater(target)
      BY <1>1, <1>3, <1>4, <2>1, <2>2, LaterLimits
    <2>3. CASE DeadLetterRoom(state, {target}) /\ state' = Terminalize(state, {target})
      <3>1. state'.dead = state.dead \cup {target} /\ UNCHANGED <<state.lost, state.jobs>>
        BY <1>1, <1>3, <2>1, <2>3, TerminalizeFacts
      <3>. QED
        BY <1>4, <2>3, <3>1, LettersWithRoom
    <2>. QED
      BY <1>8, <2>2, <2>3 DEF InlineFails
  <1>9. CASE InlineSave \/ InlineFull
    BY <1>2, <1>4, <1>9 DEF InlineSave, InlineFull, PersistOk, PersistFails, durables
  <1>. QED
    BY <1>4, <1>5, <1>6, <1>7, <1>8, <1>9 DEF InlineNext

\* A worker publishes only the reply of its own turn, when it has its place.
LEMMA WorkerLimits ==
    ASSUME QInv, NEW m \in Msgs, WorkerNext(m)
    PROVE  /\ \/ UNCHANGED state.jobs
              \/ /\ state'.jobs = state.jobs \cup {m}
                 /\ phase[m] = "publish" \/ JobsTaken < MaxJobs
           /\ UNCHANGED <<state.dead, state.lost>>
           /\ PostAnswer(m) => UNCHANGED state /\ JobsTaken < MaxJobs
  <1>1. TypeOK /\ state \in DurableStates
    BY DEF QInv, TypeOK
  <1>2. ASSUME state' = [state EXCEPT !.jobs = @ \cup {m}]
        PROVE  state'.jobs = state.jobs \cup {m} /\ UNCHANGED <<state.dead, state.lost>>
    BY <1>1, <1>2 DEF DurableStates
  <1>3. CASE Mark(m)
    <2>1. state' = WithStage(state, {m}, "hermes_may_start") /\ phase[m] = "pre"
      BY <1>3 DEF Mark, MarkMayStart, Working
    <2>2. ~ PostAnswer(m)
      BY <2>1 DEF PostAnswer, Working
    <2>. QED
      BY <1>1, <2>1, <2>2, StageLimits DEF Stages
  <1>4. CASE Publish(m) \/ ErrorNotice(m)
    <2>1. ~ PostAnswer(m)
      BY <1>4 DEF PostAnswer, Publish, ErrorNotice, Working
    <2>. QED
      BY <1>2, <1>4, <2>1 DEF Publish, ErrorNotice, Working
  <1>5. CASE MarkSave(m) \/ PublishSave(m) \/ ErrorSave(m)
    <2>1. ~ PostAnswer(m)
      BY <1>5 DEF PostAnswer, MarkSave, PublishSave, ErrorSave, Working
    <2>. QED
      BY <1>5, <2>1 DEF MarkSave, PublishSave, ErrorSave, PersistOk, PersistFails
  <1>6. CASE \/ Begin(m) \/ PreFails(m) \/ LocalAnswer(m) \/ Register(m) \/ StartFails(m)
             \/ StartHermes(m) \/ HermesEnds(m) \/ AnswerBlocked(m) \/ PostAnswer(m)
    <2>1. UNCHANGED state
      BY <1>6 DEF Begin, PreFails, LocalAnswer, Register, StartFails,
       StartHermes, HermesEnds, AnswerBlocked, PostAnswer, durables
    <2>. QED
      BY <2>1 DEF PostAnswer
  <1>. QED
    BY <1>3, <1>4, <1>5, <1>6 DEF WorkerNext

\* What the places of the jobs are compared with counts all of the claimed ones.
LEMMA ClaimedPlaces ==
    ASSUME TypeOK
    PROVE  /\ IsFiniteSet(Claimed) /\ Cardinality(Claimed) \in Nat
           /\ Cardinality(Claimed) <= JobsTaken
           /\ JobsTaken \in Nat
  <1>. DEFINE replies == {m \in Msgs : phase[m] \in {"publish", "publishSave", "errorSave"}}
              all == state.jobs \cup replies
  <1>1. /\ IsFiniteSet(state.jobs) /\ IsFiniteSet(replies)
        /\ Claimed \subseteq all
    <2>1. state.jobs \subseteq Msgs /\ replies \subseteq Msgs
      BY DEF TypeOK, DurableStates
    <2>2. IsFiniteSet(state.jobs) /\ IsFiniteSet(replies)
      BY <2>1, DurableAssumption, FS_Subset
    <2>. QED
      BY <2>2 DEF Claimed
  <1>2. JobsTaken = Cardinality(state.jobs) + Cardinality(replies)
                      + (IF pc = "inlinePublish" THEN 1 ELSE 0)
    BY DEF JobsTaken
  <1>. HIDE DEF replies
  <1>3. /\ IsFiniteSet(all)
        /\ Cardinality(all) = Cardinality(state.jobs) + Cardinality(replies)
                                - Cardinality(state.jobs \cap replies)
    BY <1>1, FS_Union
  <1>4. IsFiniteSet(state.jobs \cap replies)
    BY <1>1, FS_Intersection
  <1>. HIDE DEF all
  <1>5. /\ Cardinality(state.jobs) \in Nat /\ Cardinality(replies) \in Nat
        /\ Cardinality(state.jobs \cap replies) \in Nat /\ Cardinality(all) \in Nat
    BY <1>1, <1>3, <1>4, FS_CardinalityType
  <1>6. IsFiniteSet(Claimed) /\ Cardinality(Claimed) <= Cardinality(all)
    BY <1>1, <1>3, FS_Subset
  <1>7. Cardinality(Claimed) \in Nat
    BY <1>6, FS_CardinalityType
  <1>. QED
    BY <1>2, <1>3, <1>5, <1>6, <1>7

LEMMA JobsStep ==
    ASSUME QInv, Next
    PROVE  \/ state'.jobs \subseteq state.jobs
           \/ \E m \in Msgs :
                /\ state'.jobs = state.jobs \cup {m}
                /\ phase[m] = "publish" \/ JobsTaken < MaxJobs
           \/ Restart /\ state'.jobs \subseteq disk.st.jobs
  <1>1. TypeOK
    BY DEF QInv
  <1>2. CASE FinishNext
    BY <1>1, <1>2, FinishLimits
  <1>3. CASE LoopNext
    <2>1. CASE Undo
      BY <2>1 DEF Undo, QInv, CopiesOK, RollbackPcs
    <2>. QED
      BY <1>3, <2>1, LoopLimits
  <1>4. CASE SubmitNext \/ SteerNext \/ InlineNext
    BY <1>4, SubmitLimits, SteerLimits, InlineLimits
  <1>5. ASSUME NEW m \in Msgs, WorkerNext(m)
        PROVE  \/ state'.jobs \subseteq state.jobs
               \/ \E k \in Msgs :
                    /\ state'.jobs = state.jobs \cup {k}
                    /\ phase[k] = "publish" \/ JobsTaken < MaxJobs
    BY <1>5, WorkerLimits
  <1>6. CASE Restart
    <2>2. CASE Msgs = {}
      BY <1>1, <1>6, <2>2, TypeStep DEF Next, ProcessNext, TypeOK, DurableStates
    <2>3. CASE Msgs # {}
      BY <1>6, <2>3, RestartQueues
    <2>. QED
      BY <2>2, <2>3
  <1>7. CASE BootSave \/ RequestShutdown
    BY <1>7 DEF BootSave, RequestShutdown, PersistOk, durables
  <1>8. CASE LoseMemory
    BY <1>8 DEF LoseMemory, EmptyState
  <1>. QED
    BY <1>2, <1>3, <1>4, <1>5, <1>6, <1>7, <1>8 DEF Next, MainNext, ProcessNext, BootSaveFails,
       Crash, Halt

LEMMA ClaimedStep ==
    ASSUME QInv, Next
    PROVE  Cardinality(Claimed') <= MaxJobs
  <1>1. /\ TypeOK /\ state.jobs \subseteq Msgs /\ disk.st.jobs \subseteq Msgs
        /\ IsFiniteSet(disk.st.jobs) /\ IsFiniteSet(Claimed)
        /\ Cardinality(Claimed) \in Nat /\ Cardinality(Claimed) <= JobsTaken
        /\ JobsTaken \in Nat /\ MaxJobs \in Nat
    <2>1. TypeOK /\ state.jobs \subseteq Msgs /\ disk.st.jobs \subseteq Msgs
      BY DEF QInv, TypeOK, DurableStates
    <2>2. IsFiniteSet(disk.st.jobs)
      BY <2>1, DurableAssumption, FS_Subset
    <2>. QED
      BY <2>1, <2>2, ClaimedPlaces, LimitsAssumption
  <1>2. Cardinality(Claimed) <= MaxJobs /\ Cardinality(disk.st.jobs) <= MaxJobs
    BY DEF QInv, LimitsOK, Bounded
  <1>3. ASSUME NEW S, IsFiniteSet(S), Cardinality(S) <= MaxJobs, Claimed' \subseteq S
        PROVE  Cardinality(Claimed') <= MaxJobs
    BY <1>1, <1>3, FS_Subset, FS_CardinalityType
  <1>4. ASSUME NEW m \in Msgs, JobsTaken < MaxJobs
        PROVE  /\ IsFiniteSet(Claimed \cup {m})
               /\ Cardinality(Claimed \cup {m}) <= MaxJobs
    <2>1. /\ IsFiniteSet(Claimed \cup {m})
          /\ Cardinality(Claimed \cup {m}) \in {Cardinality(Claimed), Cardinality(Claimed) + 1}
      BY <1>1, FS_AddElement
    <2>. QED
      BY <1>1, <1>4, <2>1
  <1>5. CASE \E m \in Msgs : PostAnswer(m)
    <2>1. PICK m \in Msgs : PostAnswer(m)
      BY <1>5
    <2>2. WorkerNext(m)
      BY <2>1 DEF WorkerNext
    <2>3. UNCHANGED state /\ JobsTaken < MaxJobs
      BY <2>1, <2>2, WorkerLimits
    <2>4. \A n \in Msgs : phase'[n] = "publish" => phase[n] = "publish" \/ n = m
      BY <2>2, WorkerWork
    <2>5. Claimed' \subseteq Claimed \cup {m}
      BY <2>3, <2>4 DEF Claimed
    <2>. QED
      BY <1>3, <1>4, <2>3, <2>5
  <1>6. CASE ~ \E m \in Msgs : PostAnswer(m)
    <2>1. {n \in Msgs : phase'[n] = "publish"} \subseteq {n \in Msgs : phase[n] = "publish"}
      BY <1>6, WorkStep
    <2>2. CASE state'.jobs \subseteq state.jobs
      <3>1. Claimed' \subseteq Claimed
        BY <2>1, <2>2 DEF Claimed
      <3>. QED
        BY <1>1, <1>2, <1>3, <3>1
    <2>3. ASSUME NEW m \in Msgs, state'.jobs = state.jobs \cup {m},
                 phase[m] = "publish" \/ JobsTaken < MaxJobs
          PROVE  Cardinality(Claimed') <= MaxJobs
      <3>1. CASE phase[m] = "publish"
        <4>1. Claimed' \subseteq Claimed
          BY <2>1, <2>3, <3>1 DEF Claimed
        <4>. QED
          BY <1>1, <1>2, <1>3, <4>1
      <3>2. CASE JobsTaken < MaxJobs
        <4>1. Claimed' \subseteq Claimed \cup {m}
          BY <2>1, <2>3 DEF Claimed
        <4>. QED
          BY <1>3, <1>4, <3>2, <4>1
      <3>. QED
        BY <2>3, <3>1, <3>2
    <2>4. CASE Restart /\ state'.jobs \subseteq disk.st.jobs
      <3>1. \A n \in Msgs : phase'[n] = "idle"
        BY <2>4, RestartQueues
      <3>2. Claimed' \subseteq disk.st.jobs
        BY <2>4, <3>1 DEF Claimed
      <3>. QED
        BY <1>1, <1>2, <1>3, <3>2
    <2>. QED
      BY <2>2, <2>3, <2>4, JobsStep
  <1>. QED
    BY <1>5, <1>6

LEMMA LettersStep ==
    ASSUME QInv, Next
    PROVE  /\ DeadLetterCount(state') <= MaxDead
           /\ pc' \in {"steerSave", "steer"} => DeadLetterCount(state') < MaxDead
  <1>1. /\ TypeOK /\ DeadLetterCount(state) <= MaxDead
        /\ pc \in {"steerSave", "steer"} => DeadLetterCount(state) < MaxDead
    BY DEF QInv, LimitsOK, Bounded
  <1>2. ASSUME UNCHANGED <<state.dead, state.lost>> PROVE UNCHANGED DeadLetterCount(state)
    BY <1>2 DEF DeadLetterCount
  <1>3. {"steerSave", "steer"} \subseteq BatchPcs /\ {"steerSave", "steer"} \cap {"down", "boot"} = {}
    BY DEF BatchPcs
  <1>4. CASE FinishNext
    <2>1. pc' \notin BatchPcs
      BY <1>4 DEF FinishNext, FinishOk, FinishRetry, FinishFail, FinishRejected,
       PostCommitProof, PostCommitRetire, FinishFatal, RejectedSave, FinishRejectedProof,
       FinishSave, FinishDone, Finishing, NoRoomForTurn, Goto, Fatal, NextIteration, BatchPcs,
       TypeOK, QInv
    <2>. QED
      BY <1>1, <1>2, <1>3, <1>4, <2>1, FinishLimits DEF LettersFit
  <1>5. CASE LoopNext
    <2>1. pc' \notin {"steerSave", "steer"}
      <3>1. CASE Fetch \/ Admit
        BY <3>1 DEF Fetch, FetchDue, Admit, AdmitCandidates, Fatal, Goto
      <3>. QED
        BY <1>5, <3>1 DEF LoopNext, ReconcileDone, ReconcileTerminal, ReconcileSave, ReconcileEnd,
           LoopSave, FetchSave, Undo, NothingToAdmit, AdmitSave, EndOfBatch, Goto, Fatal,
           NextIteration, mains
    <2>2. CASE Undo
      BY <2>1, <2>2 DEF Undo, QInv, CopiesOK, RollbackPcs, Bounded
    <2>. QED
      BY <1>1, <1>2, <1>5, <2>1, <2>2, LoopLimits DEF LettersFit
  <1>6. CASE SubmitNext \/ SteerNext \/ InlineNext
    BY <1>1, <1>2, <1>6, SubmitLimits, SteerLimits, InlineLimits DEF LettersFit
  <1>7. ASSUME NEW m \in Msgs, WorkerNext(m)
        PROVE  UNCHANGED <<state.dead, state.lost, pc>>
    BY <1>7, WorkerLimits, WorkerPcs DEF mains
  <1>8. CASE Restart
    <2>1. pc' = "boot"
      BY <1>8 DEF Restart
    <2>2. PICK J \in SUBSET LoadedState.jobs : DeadLetterRoom(state', {})
      BY <1>8 DEF Restart
    <2>3. state'.dead \cup {} = state'.dead
      OBVIOUS
    <2>. QED
      BY <2>1, <2>2, <2>3 DEF DeadLetterRoom, DeadLetterCount
  <1>9. CASE BootSave \/ RequestShutdown
    BY <1>1, <1>2, <1>9 DEF BootSave, RequestShutdown, PersistOk, durables, Goto
  <1>10. CASE LoseMemory
    BY <1>10, FS_EmptySet, DurableAssumption DEF LoseMemory, EmptyState, DeadLetterCount
  <1>. QED
    BY <1>1, <1>2, <1>4, <1>5, <1>6, <1>7, <1>8, <1>9, <1>10 DEF Next, MainNext, ProcessNext,
       BootSaveFails, Crash, Halt

-----------------------------------------------------------------------------
(***************************************************************************)
(* The two queues after a step.                                            *)
(***************************************************************************)
\* The origins with an entry in one of the queues.
Entries(st) == st.retries \cup InFlight(st)

LEMMA EntriesFacts ==
    ASSUME NEW st \in DurableStates
    PROVE  /\ Entries(st) \subseteq Msgs /\ IsFiniteSet(Entries(st))
           /\ Cardinality(Entries(st)) \in Nat
           /\ (\A n \in Msgs : Apart(st, n)) => DurableOriginCount(st) = Cardinality(Entries(st))
  <1>1. /\ st.retries \subseteq Msgs /\ InFlight(st) \subseteq Msgs
        /\ IsFiniteSet(st.retries) /\ IsFiniteSet(InFlight(st)) /\ IsFiniteSet(Entries(st))
    <2>1. /\ st.retries \subseteq Msgs /\ InFlight(st) \subseteq Msgs /\ Entries(st) \subseteq Msgs
      BY DEF DurableStates, InFlight, Entries
    <2>. QED
      BY <2>1, DurableAssumption, FS_Subset
  <1>2. ASSUME \A n \in Msgs : Apart(st, n)
        PROVE  DurableOriginCount(st) = Cardinality(Entries(st))
    <2>1. st.retries \cap InFlight(st) = {}
      BY <1>1, <1>2 DEF Apart, InFlight
    <2>2. Cardinality(Entries(st)) = Cardinality(st.retries) + Cardinality(InFlight(st))
                                       - Cardinality(st.retries \cap InFlight(st))
      BY <1>1, FS_Union DEF Entries
    <2>3. Cardinality(st.retries \cap InFlight(st)) = 0
      BY <2>1, FS_EmptySet
    <2>4. Cardinality(st.retries) \in Nat /\ Cardinality(InFlight(st)) \in Nat
      BY <1>1, FS_CardinalityType
    <2>. QED
      BY <2>2, <2>3, <2>4 DEF DurableOriginCount
  <1>. QED
    BY <1>1, <1>2, FS_CardinalityType DEF Entries

\* The room that admit_messages compares with is that of what it adds.
LEMMA AdmitFits ==
    ASSUME QInv, Admit
    PROVE  Cardinality(Entries(state')) <= MaxRetries
  <1>1. /\ TypeOK /\ state \in DurableStates /\ MaxRetries \in Nat
        /\ Cardinality(Entries(state)) <= MaxRetries
        /\ \A n \in Msgs : Apart(state, n)
    BY LimitsAssumption DEF QInv, OriginsOK, LimitsOK, Bounded, Entries, TypeOK
  <1>2. PICK found \in {Candidates(page) : page \in Pages} :
          \E outcome \in [found -> {"ignored", "gone", "retry", "prepared"}] :
              AdmitCandidates(found, outcome)
    BY DEF Admit
  <1>3. PICK outcome \in [found -> {"ignored", "gone", "retry", "prepared"}] :
              AdmitCandidates(found, outcome)
    BY <1>2
  <1>4. found \in SUBSET Msgs
    BY <1>1, <1>2 DEF Candidates, Pages, TypeOK
  <1>. DEFINE Of(o) == {m \in found : outcome[m] = o}
              added == (Of("prepared") \cup Of("retry")) \ state.retries
  <1>5. \/ UNCHANGED state
        \/ DurableOriginCount(state) + Cardinality(added) <= MaxRetries
    BY <1>3 DEF AdmitCandidates
  <1>6. CASE UNCHANGED state
    BY <1>1, <1>6
  <1>7. CASE DurableOriginCount(state) + Cardinality(added) <= MaxRetries
    <2>1. Entries(state') \subseteq Entries(state) \cup added
      <3>1. ASSUME NEW n \in Entries(state'), n \notin Entries(state) PROVE n \in added
        <4>1. n \in Msgs
          BY <1>1, TypeStep DEF Next, MainNext, LoopNext, TypeOK, DurableStates, Entries, InFlight
        <4>2. Queued(state', n) /\ ~ Queued(state, n)
          BY <3>1, <4>1 DEF Queued, Entries, InFlight
        <4>3. n \in found /\ outcome[n] \in {"prepared", "retry"}
          BY <1>3, <1>4, <4>1, <4>2, AdmitQueues
        <4>. QED
          BY <4>2, <4>3 DEF Queued
      <3>. QED
        BY <3>1
    <2>2. IsFiniteSet(added) /\ added \subseteq Msgs
      <3>1. added \subseteq Msgs
        BY <1>4
      <3>. HIDE DEF added
      <3>. QED
        BY <3>1, DurableAssumption, FS_Subset
    <2>. HIDE DEF added
    <2>3. IsFiniteSet(Entries(state)) /\ DurableOriginCount(state) = Cardinality(Entries(state))
      BY <1>1, EntriesFacts
    <2>4. /\ IsFiniteSet(Entries(state) \cup added)
          /\ Cardinality(Entries(state) \cup added)
               = Cardinality(Entries(state)) + Cardinality(added)
                   - Cardinality(Entries(state) \cap added)
      BY <2>2, <2>3, FS_Union
    <2>5. IsFiniteSet(Entries(state) \cap added)
      BY <2>2, <2>3, FS_Intersection
    <2>6. /\ Cardinality(Entries(state)) \in Nat /\ Cardinality(added) \in Nat
          /\ Cardinality(Entries(state) \cap added) \in Nat
          /\ Cardinality(Entries(state) \cup added) \in Nat
      BY <2>2, <2>3, <2>4, <2>5, FS_CardinalityType
    <2>7. /\ IsFiniteSet(Entries(state'))
          /\ Cardinality(Entries(state')) <= Cardinality(Entries(state) \cup added)
      BY <2>1, <2>4, FS_Subset
    <2>8. Cardinality(Entries(state')) \in Nat
      BY <2>7, FS_CardinalityType
    <2>. QED
      BY <1>1, <1>7, <2>3, <2>4, <2>6, <2>7, <2>8
  <1>. QED
    BY <1>5, <1>6, <1>7

LEMMA QueueStep ==
    ASSUME QInv, Next
    PROVE  Cardinality(Entries(state')) <= MaxRetries
  <1>1. /\ TypeOK /\ state \in DurableStates /\ disk.st \in DurableStates /\ MaxRetries \in Nat
        /\ state' \in DurableStates
    BY LimitsAssumption, TypeStep DEF QInv, TypeOK
  <1>2. Cardinality(Entries(state)) <= MaxRetries /\ Cardinality(Entries(disk.st)) <= MaxRetries
    BY DEF QInv, LimitsOK, Bounded, Entries
  <1>3. ASSUME NEW st \in DurableStates, Cardinality(Entries(st)) <= MaxRetries,
               \A n \in Msgs : Narrows(state', st, n)
        PROVE  Cardinality(Entries(state')) <= MaxRetries
    <2>1. Entries(state') \subseteq Msgs /\ Cardinality(Entries(state')) \in Nat
      BY <1>1, EntriesFacts
    <2>2. Entries(state') \subseteq Entries(st)
      BY <1>3, <2>1 DEF Narrows, Queued, Entries, InFlight
    <2>3. IsFiniteSet(Entries(st)) /\ Cardinality(Entries(st)) \in Nat
      BY <1>3, EntriesFacts
    <2>4. Cardinality(Entries(state')) <= Cardinality(Entries(st))
      BY <2>2, <2>3, FS_Subset
    <2>. QED
      BY <1>1, <1>3, <2>1, <2>3, <2>4
  <1>4. CASE \A n \in Msgs : Sound(n)
    BY <1>1, <1>2, <1>3, <1>4 DEF Sound
  <1>5. CASE MainNext
    <2>1. CASE Undo
      BY <2>1 DEF Undo, QInv, CopiesOK, RollbackPcs, Bounded, Entries
    <2>2. CASE Admit
      BY <2>2, AdmitFits
    <2>3. CASE ~ Undo /\ ~ Admit
      BY <1>4, <1>5, <2>3, FinishSound, LoopSound, SubmitSound, SteerSound, InlineSound DEF MainNext
    <2>. QED
      BY <2>1, <2>2, <2>3
  <1>6. ASSUME NEW m \in Msgs, WorkerNext(m) PROVE \A n \in Msgs : Sound(n)
    BY <1>6, WorkerSound
  <1>7. CASE Restart
    BY <1>1, <1>2, <1>3, <1>7, RestartQueues
  <1>8. CASE BootSave \/ RequestShutdown
    BY <1>2, <1>8 DEF BootSave, RequestShutdown, PersistOk, durables
  <1>9. CASE LoseMemory
    <2>1. Entries(state') = {}
      BY <1>9 DEF LoseMemory, EmptyState, Entries, InFlight
    <2>. QED
      BY <1>1, <2>1, FS_EmptySet
  <1>. QED
    BY <1>4, <1>5, <1>6, <1>7, <1>8, <1>9 DEF Next, ProcessNext, BootSaveFails, Crash, Halt

-----------------------------------------------------------------------------
(***************************************************************************)
(* The limits and the copies after a step.                                 *)
(***************************************************************************)
LEMMA LimitsStep ==
    ASSUME QInv, Next
    PROVE  LimitsOK'
  <1>1. Bounded(state)'
    <2>1. /\ TypeOK' /\ state' \in DurableStates /\ MaxJobs \in Nat
      BY TypeStep, LimitsAssumption DEF QInv, TypeOK
    <2>2. /\ IsFiniteSet(Claimed') /\ Cardinality(Claimed') \in Nat
          /\ state'.jobs \subseteq Claimed'
      <3>1. Claimed' \subseteq Msgs /\ state'.jobs \subseteq Claimed'
        BY <2>1 DEF Claimed, DurableStates
      <3>. QED
        BY <3>1, DurableAssumption, FS_Subset, FS_CardinalityType
    <2>3. IsFiniteSet(state'.jobs) /\ Cardinality(state'.jobs) <= Cardinality(Claimed')
      BY <2>2, FS_Subset
    <2>4. Cardinality(state'.jobs) \in Nat
      BY <2>3, FS_CardinalityType
    <2>5. Cardinality(state'.jobs) <= MaxJobs
      BY <2>1, <2>2, <2>3, <2>4, ClaimedStep
    <2>. QED
      BY <2>5, QueueStep, LettersStep DEF Bounded, Entries
  <1>2. Bounded(disk.st)'
    <2>1. Bounded(state) /\ Bounded(disk.st)
      BY DEF QInv, LimitsOK
    <2>2. UNCHANGED disk \/ disk'.st = state
      BY DiskStep DEF Image
    <2>. QED
      BY <2>1, <2>2
  <1>. QED
    BY <1>1, <1>2, ClaimedStep, LettersStep DEF LimitsOK

\* What is put back by a rollback is what the queues were before the step that
\* a failed save undoes; nothing that the workers did since contradicts it.
LEMMA CopiesStep ==
    ASSUME QInv, Next
    PROVE  CopiesOK'
  <1>. SUFFICES ASSUME pc' \in RollbackPcs
                PROVE  /\ \A n \in Msgs : Apart(before'.st, n) /\ InUse(before.st, before.seen, n)'
                       /\ before'.st.jobs \subseteq state'.jobs
                       /\ Bounded(before'.st)
    BY DEF CopiesOK, Apart, Bounded
  <1>1. /\ TypeOK
        /\ \A n \in Msgs : Apart(state, n) /\ InUse(state, seen, n)
        /\ Bounded(state)
    BY DEF QInv, OriginsOK, LimitsOK
  <1>2. ASSUME pc \in RollbackPcs
        PROVE  /\ \A n \in Msgs : Apart(before.st, n) /\ InUse(before.st, before.seen, n)
               /\ before.st.jobs \subseteq state.jobs
               /\ Bounded(before.st)
    BY <1>2 DEF QInv, CopiesOK
  <1>3. CASE Fetch \/ Admit
    <2>1. before' = [st |-> state, seen |-> seen] /\ UNCHANGED workers
      BY <1>3 DEF Fetch, FetchDue, Admit, AdmitCandidates, Fatal, Goto, RollbackPcs
    <2>2. UNCHANGED state.jobs
      <3>1. LoopNext /\ ~ Undo
        BY <1>3 DEF LoopNext, Fetch, Admit, Undo
      <3>. QED
        BY <1>3, <3>1, LoopLimits
    <2>. QED
      BY <1>1, <2>1, <2>2 DEF InUse, workers
  <1>4. CASE pc \in RollbackPcs /\ UNCHANGED <<state, before, workers>>
    BY <1>2, <1>4 DEF InUse, workers
  <1>5. ASSUME NEW m \in Msgs, WorkerNext(m), pc \in RollbackPcs, UNCHANGED before
        PROVE  /\ \A n \in Msgs : Apart(before'.st, n) /\ InUse(before.st, before.seen, n)'
               /\ before'.st.jobs \subseteq state'.jobs
               /\ Bounded(before'.st)
    <2>1. \A n \in Msgs : WorkStays(n)
      BY <1>5, WorkerWork
    <2>2. state.jobs \subseteq state'.jobs
      BY <1>5, WorkerLimits
    <2>. QED
      BY <1>2, <1>5, <2>1, <2>2 DEF InUse, WorkStays
  <1>6. ASSUME NEW m \in Msgs, WorkerNext(m) PROVE pc \in RollbackPcs /\ UNCHANGED before
    BY <1>6, WorkerPcs DEF mains
  <1>7. CASE ProcessNext
    BY <1>7 DEF ProcessNext, Restart, BootSave, BootSaveFails, Crash, RequestShutdown, Halt,
       LoseMemory, Goto, RollbackPcs
  <1>. QED
    BY <1>1, <1>3, <1>4, <1>5, <1>6, <1>7, MainGoes DEF Next

-----------------------------------------------------------------------------
(***************************************************************************)
(* The theorems.                                                           *)
(***************************************************************************)
LEMMA InitQueues == Init => QInv
  <1>. SUFFICES ASSUME Init PROVE QInv
    OBVIOUS
  <1>1. TypeOK
    BY InitTypes
  <1>2. /\ state = EmptyState /\ disk.st = EmptyState /\ pc = "down"
        /\ \A n \in Msgs : phase[n] = "idle" /\ steerOf[n] = NoMsg /\ result[n] = "none"
    BY DEF Init
  <1>3. NothingRunsYet /\ OriginsOK /\ CopiesOK /\ BatchWaits
    BY <1>2 DEF NothingRunsYet, OriginsOK, SavedOK, Apart, InUse, CopiesOK, RollbackPcs,
       BatchWaits, BatchPcs, BatchTargetPcs, EmptyState
  <1>4. LimitsOK
    <2>1. /\ EmptyState.retries \cup InFlight(EmptyState) = {} /\ Claimed = {}
          /\ EmptyState.dead = {} /\ EmptyState.lost = {} /\ EmptyState.jobs = {}
      BY <1>2 DEF EmptyState, InFlight, Claimed
    <2>2. MaxRetries \in Nat /\ MaxDead \in Nat /\ MaxJobs \in Nat
      BY LimitsAssumption, DurableAssumption
    <2>. QED
      BY <1>2, <2>1, <2>2, FS_EmptySet DEF LimitsOK, Bounded, DeadLetterCount
  <1>. QED
    BY <1>1, <1>3, <1>4 DEF QInv

LEMMA StepQueues == QInv /\ [Next]_vars => QInv'
  <1>. SUFFICES ASSUME QInv, [Next]_vars PROVE QInv'
    OBVIOUS
  <1>1. TypeOK'
    BY TypeStep DEF QInv
  <1>2. CASE Next
    BY <1>1, <1>2, RestStep, OriginsStep, CopiesStep, BatchWaitStep, LimitsStep DEF QInv
  <1>3. CASE UNCHANGED vars
    <2>1. UNCHANGED <<disk, state, seen, pc, batch, target, before, phase, result, steerOf>>
      BY <1>3 DEF vars, durables, mains, workers
    <2>2. NothingRunsYet' /\ BatchWaits'
      BY <2>1 DEF QInv, NothingRunsYet, BatchWaits, WaitingOK
    <2>3. OriginsOK' /\ CopiesOK'
      BY <2>1 DEF QInv, OriginsOK, CopiesOK, SavedOK, Apart, InUse
    <2>4. LimitsOK'
      BY <2>1 DEF QInv, LimitsOK, Claimed
    <2>. QED
      BY <1>1, <2>2, <2>3, <2>4 DEF QInv
  <1>. QED
    BY <1>2, <1>3

\* No queue outgrows its limit, in memory or in the file, whichever saves fail:
\* admit_messages, the workers and the dead letters compare with all that is
\* taken or reserved, and a rollback puts back no more than there was.
THEOREM QueuesStayBounded == Spec => []QueuesBounded
  <1>1. QInv => QueuesBounded
    <2>. SUFFICES ASSUME QInv, NEW st \in {state, disk.st}
                  PROVE  /\ DurableOriginCount(st) <= MaxRetries
                         /\ DeadLetterCount(st) <= MaxDead
                         /\ Cardinality(st.jobs) <= MaxJobs
      BY DEF QueuesBounded
    <2>1. st \in DurableStates /\ Bounded(st) /\ (\A n \in Msgs : Apart(st, n))
      BY DEF QInv, TypeOK, LimitsOK, OriginsOK, SavedOK
    <2>. QED
      BY <2>1, EntriesFacts DEF Bounded, Entries
  <1>. QED
    BY <1>1, InitQueues, StepQueues, PTL DEF Spec

\* The retry queue and the in-flight table never share an origin, in memory or
\* in the file, even when an old copy of the state is put back.
THEOREM QueuesStayDisjoint == Spec => []QueuesDisjoint
  <1>1. QInv => QueuesDisjoint
    <2>. SUFFICES ASSUME QInv PROVE QueuesDisjoint
      OBVIOUS
    <2>1. \A n \in Msgs : Apart(state, n) /\ Apart(disk.st, n)
      BY DEF QInv, OriginsOK, SavedOK
    <2>2. state.retries \subseteq Msgs /\ disk.st.retries \subseteq Msgs
      BY DEF QInv, TypeOK, DurableStates
    <2>. QED
      BY <2>1, <2>2 DEF QueuesDisjoint, Apart, InFlight
  <1>. QED
    BY <1>1, InitQueues, StepQueues, PTL DEF Spec

\* An origin that the pool has is in the file, in flight or seen, whichever
\* saves fail: a crash at any moment finds it there.
THEOREM PoolIsDurable == Spec => []PendingIsDurable
  <1>1. QInv => PendingIsDurable
    BY DEF QInv, OriginsOK, SavedOK, PendingIsDurable, Pending, InFlight
  <1>. QED
    BY <1>1, InitQueues, StepQueues, PTL DEF Spec
=============================================================================
