------------------------------- MODULE Bridge -------------------------------
(***************************************************************************)
(* The origin life cycle of bridge.py: the polling loop of _main, the      *)
(* worker threads that run handle_message, the durable state file, crashes *)
(* and restarts.  An "origin" is a Zulip message that asks for a Hermes    *)
(* turn.                                                                   *)
(*                                                                         *)
(* Two copies of the durable state exist: state, the dictionary shared by  *)
(* the threads, and disk, what the last save_json left in the file.  Every *)
(* mutation of the dictionary is one step and every save another one, so   *)
(* the other threads may mutate or save in between.  The window of 500     *)
(* message identifiers that seen_ids is cut to is the subject of the       *)
(* module SeenWindow; here the set of seen identifiers is never cut.       *)
(***************************************************************************)
EXTENDS DurableState

CONSTANTS
    NoMsg,           \* no origin
    ConvOf,          \* the conversation key of each origin
    LocalSlash,      \* origins answered without Hermes (/goal status, ...)
    GoalQueries,     \* read-only goal queries, answered inline
    MaxWorkers,      \* MAX_WORKERS
    MaxRetries,      \* MAX_ORIGIN_RETRIES
    MaxJobs,         \* MAX_REPLY_RECONCILIATIONS
    HardInterrupt,   \* HARD_INTERRUPT_ON_STEERING
    SaveFaultSites,  \* the callers of save_json that may fail
    MaxFaults,       \* bound on the failed writes of a behaviour
    MaxCrashes       \* bound on the crashes, shutdowns and broken pools

Sites == {"boot", "loop", "fetch", "admit", "submit", "steer", "worker", "reply"}

ASSUME MsgsAssumption ==
    /\ NoMsg \notin Msgs
    /\ LocalSlash \subseteq Msgs
    /\ GoalQueries \subseteq Msgs

ASSUME LimitsAssumption ==
    /\ MaxWorkers \in Nat \ {0}
    /\ MaxRetries \in Nat \ {0}
    /\ MaxJobs \in Nat \ {0}

ASSUME FaultsAssumption ==
    /\ HardInterrupt \in BOOLEAN
    /\ SaveFaultSites \subseteq Sites
    /\ MaxFaults \in Nat
    /\ MaxCrashes \in Nat

VARIABLES
    disk,     \* the state file: a durable state and its seen_ids
    state,    \* the durable state in memory
    seen,     \* the set "seen" of _main
    pc,       \* where the main thread is
    round,    \* which part of the loop body, or the shutdown path
    batch,    \* the origins the main thread still has to submit
    target,   \* the origin the main thread is working on
    before,   \* the copies of state and seen taken for a rollback
    phase,    \* where the worker of each pending origin is
    result,   \* how the future of each pending origin ended
    started,  \* execution["hermes_started"]
    intr,     \* ACTIVE_INTERRUPTS
    steerOf,  \* active_steering: the turn a steering origin was fed to
    fed,      \* history: executions in which Hermes was given the origin
    posted,   \* history: executions in which a reply POST may have committed
    crashes,  \* crashes, shutdowns and broken pools so far
    faults    \* failed writes so far

durables == <<disk, state, seen>>
mains    == <<pc, round, batch, target, before>>
workers  == <<phase, result, started, intr, steerOf>>
history  == <<fed, posted>>
budgets  == <<crashes, faults>>
vars     == <<durables, mains, workers, history, budgets>>

(***************************************************************************)
(* The two outcomes of persist_state.  An error that save_json reports may *)
(* come before the file was replaced, or after it (the fsync of the        *)
(* directory).                                                             *)
(***************************************************************************)
PersistOk ==
    /\ disk' = Image(state, seen)
    /\ seen' = PersistedSeen(state, seen)
    /\ UNCHANGED <<state, faults>>

PersistFails(site) ==
    /\ site \in SaveFaultSites
    /\ faults < MaxFaults
    /\ faults' = faults + 1
    /\ disk' \in {disk, Image(state, seen)}
    /\ seen' = PersistedSeen(state, seen)
    /\ UNCHANGED state

(***************************************************************************)
(* Control of the main thread and of the workers.                          *)
(***************************************************************************)
LoopPcs ==
    {"finish", "finishSave", "rejectSave", "rejected", "retireTurn", "reconcile", "save", "fetch",
     "fetchSave", "admit", "admitSave", "undo", "submit", "submitSave",
     "steerSave", "steer", "steerUndoSave", "steerRefused", "abandonSave", "retireSave",
     "retireRetry", "inlineSave", "inline", "inlinePublish"}
Pcs == {"down", "boot", "stopping"} \cup LoopPcs

\* Where the main thread works on one origin.
TargetPcs ==
    {"rejectSave", "rejected", "retireTurn", "steerSave", "steer",
     "steerUndoSave", "steerRefused", "retireSave", "retireRetry",
     "inlineSave", "inline", "inlinePublish"}

Phases ==
    {"idle", "queued", "pre", "markSave", "marked", "gate", "run", "answer",
     "publish", "publishSave", "error", "errorSave", "done"}

Results ==
    {"none", "ok", "retry", "fail", "rejected",
     "postCommit", "retire", "full", "fatal"}

NoSnapshot == [st |-> EmptyState, seen |-> {}]

Pending == {m \in Msgs : phase[m] # "idle"}

\* active_keys[key] for the conversation of m.
ActiveTurns(m) == {p \in Pending : ConvOf[p] = ConvOf[m]}

\* Places for reconciliation jobs, those reserved for replies under way included.
JobsTaken ==
    Cardinality(state.jobs)
        + Cardinality({m \in Msgs : phase[m] \in {"publish", "publishSave", "errorSave"}})
        + (IF pc = "inlinePublish" THEN 1 ELSE 0)

SteeringOf(p) == {s \in Msgs : steerOf[s] = p}

\* ACTIVE_LOCK is held by store_active_steering_if_live.
ActiveLockHeld == pc \in {"steerSave", "steer", "steerUndoSave"}

\* Where the loop goes after an exception: to its next iteration, or out.
NextIteration ==
    /\ pc' = IF round = "shutdown" THEN "stopping" ELSE "finish"
    /\ round' = IF round = "shutdown" THEN "shutdown" ELSE "queue"
    /\ batch' = {}
    /\ target' = NoMsg
    /\ before' = NoSnapshot

Goto(label) == pc' = label /\ UNCHANGED <<round, batch, target, before>>

\* DurableQueueFull and BrokenExecutor leave the loop for good.
Fatal == Goto("stopping")

(***************************************************************************)
(* The process starts, crashes and stops.                                  *)
(***************************************************************************)
LoseMemory ==
    /\ pc' = "down"
    /\ state' = EmptyState
    /\ seen' = {}
    /\ round' = "queue"
    /\ batch' = {}
    /\ target' = NoMsg
    /\ before' = NoSnapshot
    /\ phase' = [m \in Msgs |-> "idle"]
    /\ result' = [m \in Msgs |-> "none"]
    /\ started' = [m \in Msgs |-> FALSE]
    /\ intr' = [m \in Msgs |-> FALSE]
    /\ steerOf' = [m \in Msgs |-> NoMsg]
    /\ UNCHANGED history

\* Mutation: the restart forgets what was seen.
MutLoadedSeen == {}

LoadedSeen == disk.seen \ disk.st.uncertain

\* The retries that were not handled before the restart.
LoadedState == RemoveRetry(disk.st, disk.st.retries \cap (LoadedSeen \cup disk.st.uncertain))

\* Mutations of the recovery: what was only admitted is dropped, or stays in the
\* in-flight table.
MutDropAdmitted(st) ==
    RemoveInFlight(Terminalize(st, MayStart(st) \ st.jobs), InFlight(st) \ (MayStart(st) \ st.jobs))
MutLeaveAdmitted(st) ==
    RemoveInFlight(Terminalize(st, MayStart(st) \ st.jobs), MayStart(st) \cap st.jobs)

\* _recover_in_flight_origins: an origin that Hermes may have seen is
\* terminal, unless its reply was confirmed; the others go back to the queue.
RecoverInFlight(st) ==
    LET lostTurns == MayStart(st) \ st.jobs
        answered  == MayStart(st) \cap st.jobs
    IN  ReturnAdmittedToRetry(
            RemoveInFlight(Terminalize(st, lostTurns), answered), Msgs)

\* _main up to its first persist_state; J are the jobs whose provenance is
\* no longer valid.
Restart ==
    /\ pc = "down"
    /\ DeadLetterRoom(LoadedState, MayStart(LoadedState) \ LoadedState.jobs)
    /\ \E J \in SUBSET LoadedState.jobs :
        LET recovered == RecoverInFlight(LoadedState)
            final == [recovered EXCEPT !.jobs = @ \ J, !.lost = @ \cup J]
        IN  /\ DeadLetterRoom(final, {})
            /\ state' = final
    /\ seen' = LoadedSeen \cup MayStart(LoadedState)
    /\ pc' = "boot"
    /\ UNCHANGED <<disk, round, batch, target, before, workers, history, budgets>>

BootSave ==
    /\ pc = "boot"
    /\ PersistOk
    /\ Goto("finish")
    /\ UNCHANGED <<workers, history, crashes>>

\* The first save is outside of every handler: its failure ends the process.
BootSaveFails ==
    /\ pc = "boot"
    /\ "boot" \in SaveFaultSites
    /\ faults < MaxFaults
    /\ faults' = faults + 1
    /\ disk' \in {disk, Image(state, seen)}
    /\ LoseMemory
    /\ UNCHANGED crashes

\* The process is killed at any point.
Crash ==
    /\ pc # "down"
    /\ crashes < MaxCrashes
    /\ crashes' = crashes + 1
    /\ LoseMemory
    /\ UNCHANGED <<disk, faults>>

\* SIGTERM or SIGINT: KeyboardInterrupt is raised between any two steps of
\* the loop, no rollback handler catches it, and finish_pending runs once more.
RequestShutdown ==
    /\ pc \in LoopPcs
    /\ round # "shutdown"
    /\ crashes < MaxCrashes
    /\ crashes' = crashes + 1
    /\ pc' = "finish"
    /\ round' = "shutdown"
    /\ batch' = {}
    /\ target' = NoMsg
    /\ before' = NoSnapshot
    /\ UNCHANGED <<durables, workers, history, faults>>

\* The workers may go on until _shutdown_executor returns.
Halt ==
    /\ pc = "stopping"
    /\ LoseMemory
    /\ UNCHANGED <<disk, budgets>>

(***************************************************************************)
(* finish_pending.                                                         *)
(***************************************************************************)
\* The pending entry of m and the steering bound to it are dropped.
Retire(m) ==
    /\ phase' = [phase EXCEPT ![m] = "idle"]
    /\ result' = [result EXCEPT ![m] = "none"]
    /\ started' = [started EXCEPT ![m] = FALSE]
    /\ intr' = [intr EXCEPT ![m] = FALSE]
    /\ steerOf' = [s \in Msgs |-> IF steerOf[s] = m THEN NoMsg ELSE steerOf[s]]

Finishing(m, outcome) ==
    /\ pc = "finish"
    /\ phase[m] = "done"
    /\ result[m] = outcome

\* The turn succeeded: the origin and its steering are seen.
FinishOk(m) ==
    /\ Finishing(m, "ok")
    /\ state' = RemoveInFlight(state, {m} \cup SteeringOf(m))
    /\ seen' = seen \cup {m} \cup SteeringOf(m)
    /\ Retire(m)
    /\ Goto("finishSave")
    /\ UNCHANGED <<disk, history, budgets>>

\* The turn failed before Hermes started: it is retried later.
FinishRetry(m) ==
    /\ Finishing(m, "retry")
    /\ IF DeadLetterRoom(state, Exhausted(state, {m}))
       THEN /\ state' = ReturnAdmittedToRetry(UpsertRetry(state, {m}), SteeringOf(m))
            /\ seen' = (seen \ {m}) \cup Exhausted(state, {m})
            /\ Retire(m)
            /\ Goto("finishSave")
       ELSE /\ Fatal
            /\ UNCHANGED <<state, seen, workers>>
    /\ UNCHANGED <<disk, history, budgets>>

\* The origin is terminal, with the steering that Hermes may have read; the
\* rest of its steering is retried.
TerminateTurn(m) ==
    LET read == {m} \cup (SteeringOf(m) \cap MayStart(state))
    IN  /\ DeadLetterRoom(state, read)
        /\ state' = ReturnAdmittedToRetry(Terminalize(state, read), SteeringOf(m))
        /\ seen' = seen \cup read

NoRoomForTurn(m) ==
    /\ ~ DeadLetterRoom(state, {m} \cup (SteeringOf(m) \cap MayStart(state)))
    /\ pc' = "stopping"
    /\ UNCHANGED <<state, seen, workers>>

FinishFail(m) ==
    /\ Finishing(m, "fail")
    /\ \/ TerminateTurn(m) /\ Retire(m) /\ pc' = "finishSave"
       \/ NoRoomForTurn(m)
    /\ UNCHANGED <<round, batch, target, before, disk, history, budgets>>

\* finish_rejected_post, up to its first save: the recovery is recorded.
FinishRejected(m) ==
    /\ Finishing(m, "rejected")
    /\ IF DeadLetterRoom(state, {m})
       THEN /\ state' = [state EXCEPT !.dead = @ \cup {m}]
            /\ seen' = seen \ {m}
            /\ pc' = "rejectSave"
            /\ target' = m
            /\ UNCHANGED <<round, batch, before>>
       ELSE /\ Fatal
            /\ UNCHANGED <<state, seen>>
    /\ UNCHANGED <<disk, workers, history, budgets>>

RejectedSave ==
    /\ pc = "rejectSave"
    /\ \/ PersistOk /\ Goto("rejected")
       \/ PersistFails("loop") /\ NextIteration
    /\ UNCHANGED <<workers, history, crashes>>

\* finish_rejected_post, after its first save.  The turn is forgotten after the
\* second (PostCommitRetire).  When that save fails, a later finish_pending
\* finds the dead letter and no in-flight origin, and saves the same image
\* twice: one save stands for both.  Until then only that call reads the
\* steering of the turn, and finds nothing of it to settle: it is released here.
FinishRejectedProof ==
    /\ pc = "rejected"
    /\ \/ /\ TerminateTurn(target)
          /\ result' = [result EXCEPT ![target] = "retire"]
          /\ pc' = "retireTurn"
          /\ steerOf' = [s \in Msgs |-> IF steerOf[s] = target THEN NoMsg ELSE steerOf[s]]
          /\ UNCHANGED <<target, phase, started, intr>>
       \/ NoRoomForTurn(target) /\ target' = NoMsg
    /\ UNCHANGED <<round, batch, before, disk, history, budgets>>

FinishSave ==
    /\ pc = "finishSave"
    /\ \/ PersistOk /\ Goto("finish")
       \/ PersistFails("loop") /\ NextIteration
    /\ UNCHANGED <<workers, history, crashes>>

\* finish_post_commit: the confirmed reply is saved before the origin is
\* retired, and the retirement before the turn is forgotten.  A failed save
\* is retried by a later iteration.
PostCommitProof(m) ==
    /\ Finishing(m, "postCommit")
    /\ m \in state.jobs
    /\ \/ /\ disk' = Image(state, seen)
          /\ seen' = PersistedSeen(state, seen) \cup {m} \cup SteeringOf(m)
          /\ state' = RemoveInFlight(state, {m} \cup SteeringOf(m))
          /\ result' = [result EXCEPT ![m] = "retire"]
          /\ pc' = "retireTurn"
          /\ target' = m
          /\ UNCHANGED <<round, batch, before, faults>>
       \/ /\ PersistFails("loop")
          /\ NextIteration
          /\ UNCHANGED result
    /\ UNCHANGED <<phase, started, intr, steerOf, history, crashes>>

\* The second save of finish_post_commit, or of finish_rejected_post.
PostCommitRetire(m) ==
    /\ \/ pc = "retireTurn" /\ m = target
       \/ Finishing(m, "retire")
    /\ \/ /\ PersistOk
          /\ Retire(m)
          /\ pc' = "finish"
          /\ target' = NoMsg
          /\ UNCHANGED <<round, batch, before>>
       \/ /\ PersistFails("loop")
          /\ NextIteration
          /\ UNCHANGED workers
    /\ UNCHANGED <<history, crashes>>

\* DurableQueueFull of a worker is fatal; so is a StatePersistenceError, which
\* every later finish_pending raises again until the failure limit.
FinishFatal(m) ==
    /\ \/ Finishing(m, "full")
       \/ Finishing(m, "fatal")
       \/ Finishing(m, "postCommit") /\ m \notin state.jobs
    /\ Fatal
    /\ UNCHANGED <<durables, workers, history, budgets>>

FinishDone ==
    /\ pc = "finish"
    /\ \A m \in Msgs : phase[m] # "done"
    /\ CASE round = "queue" -> pc' = "reconcile"
         [] round = "page" -> pc' = IF DurableOriginCount(state) >= MaxRetries
                                    THEN "stopping" ELSE "admit"
         [] round = "shutdown" -> pc' = "stopping"
    /\ UNCHANGED <<round, batch, target, before, durables, workers, history, budgets>>

(***************************************************************************)
(* The body of the loop: reconciliations, due retries, the page.           *)
(***************************************************************************)
\* The route of a confirmed reply is settled.
ReconcileDone(m) ==
    /\ pc = "reconcile"
    /\ m \in state.jobs
    /\ state' = [state EXCEPT !.jobs = @ \ {m}]
    /\ UNCHANGED <<disk, seen, mains, workers, history, budgets>>

\* It is refused, or its attempts are exhausted.
ReconcileTerminal(m) ==
    /\ pc = "reconcile"
    /\ m \in state.jobs
    /\ LET given == [state EXCEPT !.jobs = @ \ {m}, !.lost = @ \cup {m}]
       IN  IF DeadLetterRoom(given, {})
           THEN state' = given /\ UNCHANGED mains
           ELSE Fatal /\ UNCHANGED state
    /\ UNCHANGED <<disk, seen, workers, history, budgets>>

\* The route attempted is saved before the PATCH.
ReconcileSave ==
    /\ pc = "reconcile"
    /\ state.jobs # {}
    /\ \/ PersistOk /\ UNCHANGED mains
       \/ PersistFails("loop") /\ NextIteration
    /\ UNCHANGED <<workers, history, crashes>>

ReconcileEnd ==
    /\ pc = "reconcile"
    /\ Goto("save")
    /\ UNCHANGED <<durables, workers, history, budgets>>

LoopSave ==
    /\ pc = "save"
    /\ \/ PersistOk /\ Goto("fetch")
       \/ PersistFails("loop") /\ NextIteration
    /\ UNCHANGED <<workers, history, crashes>>

\* queued_origin_messages and the mutations of persist_fetch_outcomes: a due
\* retry is fetched, gone for good, or not available now.
FetchDue(due, outcome) ==
    LET Of(o) == {m \in due : outcome[m] = o}
        ended == Of("gone") \cup Exhausted(state, Of("retry"))
    IN  IF DeadLetterRoom(state, ended)
        THEN /\ state' = UpsertRetry(Terminalize(state, Of("gone")), Of("retry"))
             /\ seen' = seen \cup ended
             /\ batch' = Of("fetched")
             /\ IF batch' = due
                THEN pc' = "admit" /\ before' = before
                ELSE pc' = "fetchSave" /\ before' = [st |-> state, seen |-> seen]
             /\ UNCHANGED <<round, target>>
        ELSE Fatal /\ UNCHANGED <<state, seen>>

Fetch ==
    /\ pc = "fetch"
    /\ \E due \in SUBSET state.retries :
        \E outcome \in [due -> {"fetched", "gone", "retry"}] : FetchDue(due, outcome)
    /\ UNCHANGED <<disk, workers, history, budgets>>

FetchSave ==
    /\ pc = "fetchSave"
    /\ \/ /\ PersistOk
          /\ pc' = "admit"
          /\ before' = NoSnapshot
          /\ UNCHANGED <<round, batch, target>>
       \/ PersistFails("fetch") /\ Goto("undo")
    /\ UNCHANGED <<workers, history, crashes>>

\* The handlers of the two blocks put the copies back, whatever the workers did
\* to the state since.
Undo ==
    /\ pc = "undo"
    /\ state' = before.st
    /\ seen' = before.seen
    /\ NextIteration
    /\ UNCHANGED <<disk, workers, history, budgets>>

\* Mutation: an uncertain steering origin is a candidate again.
MutCandidates(page) == {m \in page : m \notin seen \cup Pending \cup InFlight(state)}

Candidates(page) ==
    {m \in page : /\ m \notin seen
                  /\ m \notin Pending
                  /\ m \notin InFlight(state)
                  /\ m \notin state.uncertain}

\* What the loop gives to admit_messages: the origins it fetched, or the part
\* of the newest messages that is not queued for a retry.
Pages == IF round = "queue" THEN {batch} ELSE SUBSET (Msgs \ state.retries)

EndOfBatch ==
    /\ pc' = "finish"
    /\ round' = IF round = "queue" THEN "page" ELSE "queue"
    /\ batch' = {}
    /\ UNCHANGED <<target, before>>

NothingToAdmit ==
    /\ pc = "admit"
    /\ \E page \in Pages : Candidates(page) = {}
    /\ EndOfBatch
    /\ UNCHANGED <<durables, workers, history, budgets>>

\* admit_messages up to its save: a candidate is ignored, has no route now
\* ("retry") or ever ("gone"), or is prepared.
AdmitCandidates(found, outcome) ==
    LET Of(o) == {m \in found : outcome[m] = o}
        ended == Of("gone") \cup Exhausted(state, Of("retry"))
        added == (Of("prepared") \cup Of("retry")) \ state.retries
        kept == UpsertRetry(Terminalize(RemoveRetry(state, Of("ignored")), Of("gone")), Of("retry"))
    IN  IF /\ DurableOriginCount(state) + Cardinality(added) <= MaxRetries
           /\ Cardinality(state.jobs) + Cardinality(Pending) + Cardinality(Of("prepared")) <= MaxJobs
           /\ DeadLetterRoom(state, ended)
        THEN /\ state' = AdmitOrigins(kept, Of("prepared"))
             /\ seen' = seen \cup Of("ignored") \cup ended
             /\ before' = [st |-> state, seen |-> seen]
             /\ batch' = Of("prepared")
             /\ pc' = "admitSave"
             /\ UNCHANGED <<round, target>>
        ELSE Fatal /\ UNCHANGED <<state, seen>>

Admit ==
    /\ pc = "admit"
    /\ \E found \in {Candidates(page) : page \in Pages} :
        /\ found # {}
        /\ \E outcome \in [found -> {"ignored", "gone", "retry", "prepared"}] :
            AdmitCandidates(found, outcome)
    /\ UNCHANGED <<disk, workers, history, budgets>>

\* Mutation: the batch is submitted even when its admission was not saved.
MutAdmitSave ==
    /\ pc = "admitSave"
    /\ PersistOk \/ PersistFails("admit")
    /\ pc' = "submit"
    /\ before' = NoSnapshot
    /\ UNCHANGED <<round, batch, target, workers, history, crashes>>

\* The save of the admission.  Its handler also runs when no save failed: for a
\* note that a limit of the registry refuses (the messages noted before it are
\* then the batch), or a queue that fills while the block runs.  That is the
\* failure here that leaves the file as it was: "admit" stands for all of them.
AdmitSave ==
    /\ pc = "admitSave"
    /\ \/ /\ PersistOk
          /\ pc' = "submit"
          /\ before' = NoSnapshot
          /\ UNCHANGED <<round, batch, target>>
       \/ PersistFails("admit") /\ Goto("undo")
    /\ UNCHANGED <<workers, history, crashes>>

(***************************************************************************)
(* The admitted origins are submitted to the pool, or fed to the turn that *)
(* is active on their conversation.                                        *)
(***************************************************************************)
Submitting(m) == pc = "submit" /\ m \in batch

\* m is done with; the state is saved before the next one.
ThenSave(m) ==
    /\ pc' = "submitSave"
    /\ batch' = batch \ {m}
    /\ target' = NoMsg
    /\ UNCHANGED <<round, before>>

\* The failure handlers of the steering path and of pool.submit.
RetryLater(m) ==
    IF DeadLetterRoom(state, Exhausted(state, {m}))
    THEN /\ state' = UpsertRetry(state, {m})
         /\ seen' = seen \cup Exhausted(state, {m})
         /\ ThenSave(m)
    ELSE Fatal /\ UNCHANGED <<state, seen>>

\* The origin goes back to the retry queue without a failed attempt.
Defer(m) ==
    /\ state' = ReturnAdmittedToRetry(state, {m})
    /\ ThenSave(m)
    /\ UNCHANGED seen

SubmitWorker(m) ==
    /\ Submitting(m)
    /\ ActiveTurns(m) = {}
    /\ phase' = [phase EXCEPT ![m] = "queued"]
    /\ batch' = batch \ {m}
    /\ UNCHANGED <<pc, round, target, before, durables, result, started, intr,
                   steerOf, history, budgets>>

SubmitFails(m) ==
    /\ Submitting(m)
    /\ ActiveTurns(m) = {}
    /\ RetryLater(m)
    /\ UNCHANGED <<disk, workers, history, budgets>>

\* BrokenExecutor: the pool is gone for good.
SubmitBroken ==
    /\ pc = "submit"
    /\ batch # {}
    /\ crashes < MaxCrashes
    /\ crashes' = crashes + 1
    /\ Fatal
    /\ UNCHANGED <<durables, workers, history, faults>>

SubmitSave ==
    /\ pc = "submitSave"
    /\ \/ PersistOk /\ Goto("submit")
       \/ PersistFails("submit") /\ NextIteration
    /\ UNCHANGED <<workers, history, crashes>>

SubmitEnd ==
    /\ pc = "submit"
    /\ batch = {}
    /\ EndOfBatch
    /\ UNCHANGED <<durables, workers, history, budgets>>

\* The process of the turn is gone, or the origin is refused: it waits for a
\* turn of its own, or counts a failed attempt when the refusal is transient.
SteerDeferred(m) ==
    /\ Submitting(m)
    /\ m \notin GoalQueries
    /\ ActiveTurns(m) # {}
    /\ Defer(m) \/ RetryLater(m)
    /\ UNCHANGED <<disk, workers, history, budgets>>

\* Mutation: before_append does not mark the origin.
MutSteerMark(m) ==
    /\ Submitting(m)
    /\ m \notin GoalQueries
    /\ \E p \in ActiveTurns(m) : phase[p] \in {"gate", "run"}
    /\ pc' = "steerSave"
    /\ target' = m
    /\ UNCHANGED <<round, batch, before, durables, workers, history, budgets>>

\* before_append: the origin is marked, and the mark saved, before the append.
SteerMark(m) ==
    /\ Submitting(m)
    /\ m \notin GoalQueries
    /\ \E p \in ActiveTurns(m) : phase[p] \in {"gate", "run"}
    /\ IF DeadLetterCount(state) < MaxDead
       THEN /\ state' = MarkMayStart(state, m)
            /\ pc' = "steerSave"
            /\ target' = m
            /\ UNCHANGED <<round, batch, before>>
       ELSE /\ Fatal
            /\ UNCHANGED state
    /\ UNCHANGED <<disk, seen, workers, history, budgets>>

\* Mutation: the message is fed although its mark was not saved.
MutSteerSave ==
    /\ pc = "steerSave"
    /\ PersistOk \/ PersistFails("steer")
    /\ Goto("steer")
    /\ UNCHANGED <<workers, history, crashes>>

\* After a failed save of the mark the origin goes back to the queue; the
\* rest of the batch is not submitted.
SteerSave ==
    /\ pc = "steerSave"
    /\ \/ PersistOk /\ Goto("steer")
       \/ /\ "steer" \in SaveFaultSites
          /\ faults < MaxFaults
          /\ faults' = faults + 1
          /\ disk' \in {disk, Image(state, seen)}
          /\ seen' = PersistedSeen(state, seen)
          /\ state' = ReturnAdmittedToRetry(WithStage(state, {target}, "admitted"), {target})
          /\ Goto("abandonSave")
    /\ UNCHANGED <<workers, history, crashes>>

AbandonSave ==
    /\ pc = "abandonSave"
    /\ PersistOk \/ PersistFails("steer")
    /\ NextIteration
    /\ UNCHANGED <<workers, history, crashes>>

\* The origin changed after the mark: the mark is taken back.
SteerUnmark ==
    /\ pc = "steer"
    /\ state' = WithStage(state, {target}, "admitted")
    /\ Goto("steerUndoSave")
    /\ UNCHANGED <<disk, seen, workers, history, budgets>>

SteerUndoSave ==
    /\ pc = "steerUndoSave"
    /\ \/ /\ PersistOk
          /\ Goto("steerRefused")
       \/ /\ "steer" \in SaveFaultSites
          /\ faults < MaxFaults
          /\ faults' = faults + 1
          /\ disk' \in {disk, Image(state, seen)}
          /\ seen' = PersistedSeen(state, seen)
          /\ state' = ReturnAdmittedToRetry(state, {target})
          /\ Goto("abandonSave")
    /\ UNCHANGED <<workers, history, crashes>>

\* The refusal is transient (a failed attempt), or not (deferred).
SteerRefused ==
    /\ pc = "steerRefused"
    /\ Defer(target) \/ RetryLater(target)
    /\ UNCHANGED <<disk, workers, history, budgets>>

Feed(m) == fed' = [fed EXCEPT ![m] = IF @ < 2 THEN @ + 1 ELSE @]

\* The append may have reached the sidecar, but an error followed: the origin
\* is terminal, or its entry stays as it is (a permanent refusal).
SteerAppendFails ==
    /\ pc = "steer"
    /\ Feed(target) \/ UNCHANGED fed
    /\ \/ /\ state' = Terminalize(state, {target})
          /\ seen' = seen \cup {target}
          /\ ThenSave(target)
       \/ /\ UNCHANGED <<state, seen>>
          /\ ThenSave(target)
       \/ /\ UNCHANGED <<state, seen>>
          /\ NextIteration
    /\ UNCHANGED <<disk, workers, posted, budgets>>

\* The origin is in the sidecar and, with HARD_INTERRUPT, the turn interrupted.
SteerDelivered ==
    /\ pc = "steer"
    /\ Feed(target)
    /\ \E p \in ActiveTurns(target) :
        /\ steerOf' = [steerOf EXCEPT ![target] = p]
        /\ intr' = IF HardInterrupt THEN [intr EXCEPT ![p] = TRUE] ELSE intr
    /\ ThenSave(target)
    /\ UNCHANGED <<durables, phase, result, started, posted, budgets>>

\* The interrupt failed: nobody knows whether the turn read the origin.
SteerUncertain ==
    /\ pc = "steer"
    /\ HardInterrupt
    /\ Feed(target)
    /\ state' = [Terminalize(state, {target}) EXCEPT !.uncertain = @ \cup {target}]
    /\ seen' = seen \ {target}
    /\ pc' = "retireSave"
    /\ batch' = batch \ {target}
    /\ UNCHANGED <<round, target, before, disk, workers, posted, budgets>>

\* The retirement is saved; persist_with_durable_limit repeats a failed save.
RetireSave ==
    /\ pc = "retireSave"
    /\ \/ PersistOk /\ ThenSave(target)
       \/ PersistFails("steer") /\ Goto("retireRetry")
    /\ UNCHANGED <<workers, history, crashes>>

RetireRetry ==
    /\ pc = "retireRetry"
    /\ \/ /\ PersistOk
          /\ pc' = "submit"
          /\ target' = NoMsg
          /\ UNCHANGED <<round, batch, before>>
       \/ PersistFails("steer") /\ UNCHANGED mains
    /\ UNCHANGED <<workers, history, crashes>>

(***************************************************************************)
(* A read-only goal query on an active conversation is answered by the     *)
(* main thread itself.                                                     *)
(***************************************************************************)
InlineMark(m) ==
    /\ Submitting(m)
    /\ m \in GoalQueries
    /\ ActiveTurns(m) # {}
    /\ state' = MarkMayStart(state, m)
    /\ pc' = "inlineSave"
    /\ target' = m
    /\ UNCHANGED <<round, batch, before, disk, seen, workers, history, budgets>>

InlineSave ==
    /\ pc = "inlineSave"
    /\ \/ PersistOk /\ Goto("inline")
       \/ PersistFails("steer") /\ NextIteration
    /\ UNCHANGED <<workers, history, crashes>>

Post(m) == posted' = [posted EXCEPT ![m] = IF @ < 2 THEN @ + 1 ELSE @]

\* The answer is posted and its reconciliation job published.
InlineAnswered ==
    /\ pc = "inline"
    /\ JobsTaken < MaxJobs
    /\ Post(target)
    /\ state' = [state EXCEPT !.jobs = @ \cup {target}]
    /\ Goto("inlinePublish")
    /\ UNCHANGED <<disk, seen, workers, fed, budgets>>

\* The failure of this save is only an outcome that the caller ignores.
InlinePublish ==
    /\ pc = "inlinePublish"
    /\ \/ /\ disk' = Image(state, seen)
          /\ UNCHANGED faults
       \/ /\ "reply" \in SaveFaultSites
          /\ faults < MaxFaults
          /\ faults' = faults + 1
          /\ disk' \in {disk, Image(state, seen)}
    /\ seen' = PersistedSeen(state, seen) \cup {target}
    /\ state' = RemoveInFlight(state, {target})
    /\ ThenSave(target)
    /\ UNCHANGED <<workers, history, crashes>>

\* Nothing was posted (retry), or the POST is refused or uncertain (terminal).
InlineFails ==
    /\ pc = "inline"
    /\ \/ RetryLater(target) /\ UNCHANGED posted
       \/ /\ DeadLetterRoom(state, {target})
          /\ state' = Terminalize(state, {target})
          /\ seen' = seen \cup {target}
          /\ Post(target) \/ UNCHANGED posted
          /\ ThenSave(target)
    /\ UNCHANGED <<disk, workers, fed, budgets>>

\* DurableQueueFull: no place for the reconciliation job or the dead letter.
InlineFull ==
    /\ pc = "inline"
    /\ \/ JobsTaken >= MaxJobs
       \/ ~ DeadLetterRoom(state, {target})
    /\ Fatal
    /\ UNCHANGED <<durables, workers, history, budgets>>

(***************************************************************************)
(* The workers: handle_message on its way through hermes_reply and reply.  *)
(***************************************************************************)
Up == pc \notin {"down", "boot"}

Working(m, where) == Up /\ phase[m] = where

Advance(m, where) == phase' = [phase EXCEPT ![m] = where]

\* The future ends with an outcome.
End(m, outcome) ==
    /\ Advance(m, "done")
    /\ result' = [result EXCEPT ![m] = outcome]

Busy == {m \in Msgs : phase[m] \notin {"idle", "queued", "done"}}

Begin(m) ==
    /\ Working(m, "queued")
    /\ Cardinality(Busy) < MaxWorkers
    /\ Advance(m, "pre")
    /\ UNCHANGED <<durables, mains, result, started, intr, steerOf, history, budgets>>

\* A failure before Hermes: transient, permanent, or one that is also
\* reported to the topic.
PreFails(m) ==
    /\ Working(m, "pre")
    /\ \/ End(m, "retry")
       \/ End(m, "fail")
       \/ Advance(m, "error") /\ UNCHANGED result
    /\ UNCHANGED <<durables, mains, started, intr, steerOf, history, budgets>>

\* A slash command that the bridge answers itself.
LocalAnswer(m) ==
    /\ Working(m, "pre")
    /\ m \in LocalSlash
    /\ Advance(m, "answer")
    /\ UNCHANGED <<durables, mains, result, started, intr, steerOf, history, budgets>>

\* before_hermes_start: the mark, then its save.
Mark(m) ==
    /\ Working(m, "pre")
    /\ m \notin LocalSlash
    /\ state' = MarkMayStart(state, m)
    /\ Advance(m, "markSave")
    /\ UNCHANGED <<disk, seen, mains, result, started, intr, steerOf, history, budgets>>

\* Mutation: Hermes is started even when its mark was not saved.
MutMarkSave(m) ==
    /\ Working(m, "markSave")
    /\ PersistOk \/ PersistFails("worker")
    /\ Advance(m, "marked")
    /\ UNCHANGED <<mains, result, started, intr, steerOf, history, crashes>>

MarkSave(m) ==
    /\ Working(m, "markSave")
    /\ \/ PersistOk /\ Advance(m, "marked") /\ UNCHANGED result
       \/ PersistFails("worker") /\ End(m, "fatal")
    /\ UNCHANGED <<mains, started, intr, steerOf, history, crashes>>

\* _start_registered_process up to the registration, under ACTIVE_LOCK.
Register(m) ==
    /\ Working(m, "marked")
    /\ ~ ActiveLockHeld
    /\ pc # "stopping"
    /\ Advance(m, "gate")
    /\ UNCHANGED <<durables, mains, result, started, intr, steerOf, history, budgets>>

\* The process does not start, or is gone before its gate is opened.
StartFails(m) ==
    /\ \/ Working(m, "marked")
       \/ Working(m, "gate") /\ ~ ActiveLockHeld
    /\ End(m, "retry")
    /\ intr' = [intr EXCEPT ![m] = FALSE]
    /\ UNCHANGED <<durables, mains, started, steerOf, history, budgets>>

\* The gate is opened: Hermes runs.
StartHermes(m) ==
    /\ Working(m, "gate")
    /\ started' = [started EXCEPT ![m] = TRUE]
    /\ Feed(m)
    /\ Advance(m, "run")
    /\ UNCHANGED <<durables, mains, result, intr, steerOf, posted, budgets>>

\* The process ends and is unregistered: interrupted, with an answer, or in error.
HermesEnds(m) ==
    /\ Working(m, "run")
    /\ ~ ActiveLockHeld
    /\ \/ intr[m] /\ End(m, "fail")
       \/ ~ intr[m] /\ Advance(m, "answer") /\ UNCHANGED result
       \/ ~ intr[m] /\ Advance(m, "error") /\ UNCHANGED result
    /\ intr' = [intr EXCEPT ![m] = FALSE]
    /\ UNCHANGED <<durables, mains, started, steerOf, history, budgets>>

\* Mutation: the turn is retried although Hermes was started.
MutAnswerBlocked(m) ==
    /\ Working(m, "answer")
    /\ End(m, "fail") \/ End(m, "retry")
    /\ UNCHANGED <<durables, mains, started, intr, steerOf, history, budgets>>

\* reply refuses before the POST: the origin or its destination changed.
AnswerBlocked(m) ==
    /\ Working(m, "answer")
    /\ \/ End(m, "fail")
       \/ ~ started[m] /\ End(m, "retry")
       \/ JobsTaken >= MaxJobs /\ End(m, "full")
    /\ UNCHANGED <<durables, mains, started, intr, steerOf, history, budgets>>

\* The POST: confirmed, uncertain (committed or not), or refused.
PostAnswer(m) ==
    /\ Working(m, "answer")
    /\ JobsTaken < MaxJobs
    /\ \/ Post(m) /\ Advance(m, "publish") /\ UNCHANGED result
       \/ Post(m) /\ End(m, "fail")
       \/ UNCHANGED posted /\ End(m, "fail")
       \/ UNCHANGED posted /\ End(m, "rejected")
    /\ UNCHANGED <<durables, mains, started, intr, steerOf, fed, budgets>>

\* _publish_confirmed_reply; a conflict of owners makes the turn fail.
Publish(m) ==
    /\ Working(m, "publish")
    /\ \/ /\ state' = [state EXCEPT !.jobs = @ \cup {m}]
          /\ Advance(m, "publishSave")
          /\ UNCHANGED result
       \/ End(m, "fail") /\ UNCHANGED state
    /\ UNCHANGED <<disk, seen, mains, started, intr, steerOf, history, budgets>>

\* Mutation: a turn whose confirmed answer could not be saved is retried.
MutPublishSave(m) ==
    /\ Working(m, "publishSave")
    /\ \/ PersistOk /\ End(m, "ok")
       \/ PersistFails("reply") /\ End(m, "retry")
    /\ UNCHANGED <<mains, started, intr, steerOf, history, crashes>>

PublishSave(m) ==
    /\ Working(m, "publishSave")
    /\ \/ PersistOk /\ End(m, "ok")
       \/ PersistFails("reply") /\ End(m, "postCommit")
    /\ UNCHANGED <<mains, started, intr, steerOf, history, crashes>>

\* The error notice counts as the reply of an execution that reached Hermes.
Notice(m) == IF started[m] THEN Post(m) ELSE UNCHANGED posted

\* The error notice is posted like an answer, but its failures are ignored.
ErrorNotice(m) ==
    /\ Working(m, "error")
    /\ \/ UNCHANGED <<posted, state>> /\ End(m, "fail")
       \/ Notice(m) /\ UNCHANGED state /\ End(m, "fail")
       \/ /\ Notice(m)
          /\ JobsTaken < MaxJobs
          /\ state' = [state EXCEPT !.jobs = @ \cup {m}]
          /\ Advance(m, "errorSave")
          /\ UNCHANGED result
    /\ UNCHANGED <<disk, seen, mains, started, intr, steerOf, fed, budgets>>

ErrorSave(m) ==
    /\ Working(m, "errorSave")
    /\ PersistOk \/ PersistFails("reply")
    /\ End(m, "fail")
    /\ UNCHANGED <<mains, started, intr, steerOf, history, crashes>>

(***************************************************************************)
(* The specification.                                                      *)
(***************************************************************************)
Init ==
    /\ disk = [st |-> EmptyState, seen |-> {}]
    /\ state = EmptyState
    /\ seen = {}
    /\ pc = "down"
    /\ round = "queue"
    /\ batch = {}
    /\ target = NoMsg
    /\ before = NoSnapshot
    /\ phase = [m \in Msgs |-> "idle"]
    /\ result = [m \in Msgs |-> "none"]
    /\ started = [m \in Msgs |-> FALSE]
    /\ intr = [m \in Msgs |-> FALSE]
    /\ steerOf = [m \in Msgs |-> NoMsg]
    /\ fed = [m \in Msgs |-> 0]
    /\ posted = [m \in Msgs |-> 0]
    /\ crashes = 0
    /\ faults = 0

ProcessNext ==
    Restart \/ BootSave \/ BootSaveFails \/ Crash \/ RequestShutdown \/ Halt

FinishNext ==
    \/ \E m \in Msgs :
        \/ FinishOk(m) \/ FinishRetry(m) \/ FinishFail(m) \/ FinishRejected(m)
        \/ PostCommitProof(m) \/ PostCommitRetire(m) \/ FinishFatal(m)
    \/ RejectedSave \/ FinishRejectedProof \/ FinishSave \/ FinishDone

LoopNext ==
    \/ \E m \in Msgs : ReconcileDone(m) \/ ReconcileTerminal(m)
    \/ ReconcileSave \/ ReconcileEnd \/ LoopSave
    \/ Fetch \/ FetchSave \/ Undo \/ NothingToAdmit \/ Admit \/ AdmitSave

SubmitNext ==
    \/ \E m \in Msgs : SubmitWorker(m) \/ SubmitFails(m) \/ SteerDeferred(m) \/ SteerMark(m)
    \/ SubmitBroken \/ SubmitSave \/ SubmitEnd

SteerNext ==
    \/ SteerSave \/ AbandonSave \/ SteerUnmark \/ SteerUndoSave \/ SteerRefused
    \/ SteerAppendFails \/ SteerDelivered \/ SteerUncertain \/ RetireSave \/ RetireRetry

InlineNext ==
    \/ \E m \in Msgs : InlineMark(m)
    \/ InlineSave \/ InlineAnswered \/ InlinePublish \/ InlineFails \/ InlineFull

WorkerNext(m) ==
    \/ Begin(m) \/ PreFails(m) \/ LocalAnswer(m) \/ Mark(m) \/ MarkSave(m)
    \/ Register(m) \/ StartFails(m) \/ StartHermes(m) \/ HermesEnds(m)
    \/ AnswerBlocked(m) \/ PostAnswer(m) \/ Publish(m) \/ PublishSave(m)
    \/ ErrorNotice(m) \/ ErrorSave(m)

MainNext == FinishNext \/ LoopNext \/ SubmitNext \/ SteerNext \/ InlineNext

Next == ProcessNext \/ MainNext \/ \E m \in Msgs : WorkerNext(m)

Spec == Init /\ [][Next]_vars

(***************************************************************************)
(* Fairness.  The service manager restarts the process, a request for      *)
(* shutdown runs to its end, the main thread and every worker keep moving. *)
(* A retry becomes due: its delay is bounded and the due retries are taken *)
(* in the order of their times, so a loop that runs on fetches each one    *)
(* again and again.  Nothing obliges the process to crash or a save to     *)
(* fail.                                                                   *)
(***************************************************************************)
FetchOf(m) ==
    /\ pc = "fetch"
    /\ \E due \in {d \in SUBSET state.retries : m \in d} :
        \E outcome \in [due -> {"fetched", "gone", "retry"}] : FetchDue(due, outcome)
    /\ UNCHANGED <<disk, workers, history, budgets>>

Fairness ==
    /\ WF_vars(Restart)
    /\ WF_vars(Halt)
    /\ WF_vars(BootSave)
    /\ WF_vars(MainNext)
    /\ \A m \in Msgs : WF_vars(WorkerNext(m)) /\ SF_vars(FetchOf(m))

FairSpec == Spec /\ Fairness

(***************************************************************************)
(* Type invariant.                                                         *)
(***************************************************************************)
\* Every variable has the shape of the structure of bridge.py it stands for.
TypeOK ==
    /\ disk \in [st : DurableStates, seen : SUBSET Msgs]
    /\ state \in DurableStates
    /\ seen \subseteq Msgs
    /\ pc \in Pcs
    /\ round \in {"queue", "page", "shutdown"}
    /\ batch \subseteq Msgs
    /\ target \in Msgs \cup {NoMsg}
    /\ pc \in TargetPcs => target \in Msgs
    /\ before \in [st : DurableStates, seen : SUBSET Msgs]
    /\ phase \in [Msgs -> Phases]
    /\ result \in [Msgs -> Results]
    /\ started \in [Msgs -> BOOLEAN]
    /\ intr \in [Msgs -> BOOLEAN]
    /\ steerOf \in [Msgs -> Msgs \cup {NoMsg}]
    /\ fed \in [Msgs -> 0 .. 2]
    /\ posted \in [Msgs -> 0 .. 2]
    /\ crashes \in 0 .. MaxCrashes
    /\ faults \in 0 .. MaxFaults

(***************************************************************************)
(* Safety.                                                                 *)
(***************************************************************************)
\* An origin is given to Hermes in at most one execution, as a turn of its
\* own or as steering of another turn, whatever crashes, restarts and retries
\* happen (the stages of origin_in_flight and their recovery).
HermesAtMostOnce == \A m \in Msgs : fed[m] <= 1

\* Of an origin at most one execution posts something to Zulip (the answer or
\* the error notice): a reply is not repeated after a restart.
ReplyAtMostOnce == \A m \in Msgs : posted[m] <= 1

\* Hermes runs for an origin only while the state file says that it may have:
\* a restart at this point retires the origin instead of running it again.
RunIsRecorded ==
    \A m \in Msgs :
        started[m] => \/ disk.st.flight[m] = "hermes_may_start"
                      \/ m \in disk.seen

\* An origin is submitted to the pool only after its admission was saved, and
\* stays in the file until it is retired there.
PendingIsDurable ==
    \A m \in Pending : m \in InFlight(disk.st) \cup disk.seen

\* The retry queue and the in-flight table never hold the same origin, in
\* memory or on disk.
QueuesDisjoint ==
    /\ state.retries \cap InFlight(state) = {}
    /\ disk.st.retries \cap InFlight(disk.st) = {}

\* The durable queues respect their limits in what is loaded and what is saved.
QueuesBounded ==
    \A st \in {state, disk.st} :
        /\ DurableOriginCount(st) <= MaxRetries
        /\ DeadLetterCount(st) <= MaxDead
        /\ Cardinality(st.jobs) <= MaxJobs

\* An uncertain steering origin never counts as seen in the state file, where
\* it waits for the operator, and is never given to Hermes again.
UncertainSteeringKept ==
    /\ disk.seen \cap disk.st.uncertain = {}
    /\ \A m \in disk.st.uncertain : m \notin Pending /\ fed[m] <= 1

(***************************************************************************)
(* Action properties.                                                      *)
(***************************************************************************)
\* No save forgets an origin that the file held: it stays queued, is seen, or
\* becomes a dead letter.
NoSaveForgets ==
    [][\A m \in Msgs :
        m \in disk.st.retries \cup InFlight(disk.st)
            => m \in disk'.st.retries \cup InFlight(disk'.st) \cup disk'.seen \cup disk'.st.dead]_disk

\* Terminal work is retained: no save removes a dead letter or a seen origin.
TerminalIsRetained ==
    [][/\ disk.st.dead \subseteq disk'.st.dead
       /\ disk.st.lost \subseteq disk'.st.lost
       /\ disk.seen \ disk'.st.uncertain \subseteq disk'.seen]_disk

(***************************************************************************)
(* Liveness.                                                               *)
(***************************************************************************)
\* An origin that was admitted is retired in the end.
AdmittedIsRetired ==
    \A m \in Msgs :
        (m \in disk.st.retries \cup InFlight(disk.st))
            ~> (m \in disk.seen \cup disk.st.dead)

(***************************************************************************)
(* The inductive invariant behind HermesAtMostOnce.  It holds when the two *)
(* blocks that put back an old copy of the state, fetch and admission,     *)
(* never do (ReliableAdmission), be it for a failed save or for a refused  *)
(* note: the step Undo does not preserve it.                               *)
(***************************************************************************)
ReliableAdmission == {"fetch", "admit"} \cap SaveFaultSites = {}

\* m is not taken for a new origin by admit_messages, now or after a restart.
Known(st, sn, m) ==
    \/ st.flight[m] = "hermes_may_start"
    \/ m \in sn
    \/ m \in st.uncertain

FedIsKnown ==
    \A m \in Msgs :
        fed[m] > 0 => /\ Known(disk.st, disk.seen, m)
                      /\ pc # "down" => Known(state, seen, m)

\* Where the entries of a batch have been admitted and not yet been used.
BatchPcs ==
    {"admitSave", "submit", "submitSave", "steerSave", "steer",
     "steerUndoSave", "steerRefused", "retireSave", "retireRetry",
     "inlineSave", "inline", "inlinePublish"}
BatchTargetPcs == {"steerSave", "steer", "steerUndoSave", "steerRefused",
                   "inlineSave", "inline", "inlinePublish"}

BatchIsFresh ==
    /\ pc \in BatchPcs =>
        \A m \in batch : m \notin Pending /\ fed[m] = 0 /\ m \in InFlight(state)
    /\ pc \in BatchTargetPcs => target \in batch
    /\ pc \in {"steerSave", "steer"} => state.flight[target] = "hermes_may_start"
    /\ pc = "steer" => disk.st.flight[target] = "hermes_may_start"
    /\ pc \in {"rejectSave", "rejected", "retireTurn"} => phase[target] = "done"

BeforeHermes == {"queued", "pre", "markSave", "marked", "gate"}

WorkersAreStaged ==
    \A m \in Msgs :
        /\ phase[m] \in BeforeHermes \cup {"idle"} => ~ started[m]
        /\ phase[m] # "done" => result[m] = "none"
        /\ result[m] = "retry" => ~ started[m]
        /\ phase[m] # "idle" /\ ~ started[m] => fed[m] = 0
        /\ phase[m] \notin {"idle", "done"} => m \in InFlight(state)
        /\ phase[m] \in {"markSave", "marked", "gate"}
              => state.flight[m] = "hermes_may_start"
        /\ phase[m] # "idle" /\ started[m] /\ result[m] # "retire"
              => state.flight[m] = "hermes_may_start"
        /\ phase[m] \in {"marked", "gate"}
              => disk.st.flight[m] = "hermes_may_start"

SteeringIsFed ==
    \A m \in Msgs : steerOf[m] # NoMsg => fed[m] > 0 /\ m \notin Pending

NothingRunsYet ==
    pc \in {"down", "boot"} => \A m \in Msgs : phase[m] = "idle" /\ steerOf[m] = NoMsg

IInv ==
    /\ TypeOK
    /\ pc # "undo"
    /\ QueuesDisjoint
    /\ HermesAtMostOnce
    /\ FedIsKnown
    /\ BatchIsFresh
    /\ WorkersAreStaged
    /\ SteeringIsFed
    /\ NothingRunsYet

(***************************************************************************)
(* The abstract specification: under ReliableAdmission the state file is a *)
(* write-ahead record of the executions.                                   *)
(***************************************************************************)
\* The origins that a start from the state file never gives to Hermes.
ClosedOrigins == {m \in Msgs : Known(disk.st, disk.seen, m)}

Record == INSTANCE ExecutionRecord WITH Origins <- Msgs, closed <- ClosedOrigins, given <- fed

\* Whatever the queues, threads, crashes and failed saves do, at each moment:
\* Hermes gets an origin when the file excludes a second time, and no later
\* save takes that back.
WritesAhead == Record!Spec
=============================================================================
