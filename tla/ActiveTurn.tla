----------------------------- MODULE ActiveTurn -----------------------------
(***************************************************************************)
(* The Hermes processes of the bridge: how a worker starts, watches and    *)
(* ends one, how the main thread hands a steering message to a live one    *)
(* and interrupts it, and how a shutdown stops them all.                   *)
(*                                                                         *)
(* A worker runs Hermes for one origin, one process after another: a retry *)
(* after a start that failed, a continuation of a goal after an answer.    *)
(* The n-th process of origin m is the run <<m, n>>.  A process waits at a *)
(* gate until the worker, having registered it under ACTIVE_LOCK, lets it  *)
(* go.  Steering messages reach a run through the sidecar file of its      *)
(* origin.  ACTIVE_LOCK is held by the main thread from the moment it      *)
(* finds a live process until the message is stored, and the process       *)
(* interrupted; every other critical section is one step.                  *)
(***************************************************************************)
EXTENDS Naturals, FiniteSets

CONSTANTS Msgs,           \* the origins
          Steers,         \* the steering messages
          MaxRuns,        \* bound on the processes of one origin
          MaxRecords,     \* MAX_STEERING_RECORDS
          HardInterrupt   \* HARD_INTERRUPT_ON_STEERING

ASSUME ActiveTurnAssumption ==
    /\ MaxRuns \in Nat \ {0}
    /\ MaxRecords \in Nat \ {0}
    /\ HardInterrupt \in BOOLEAN

VARIABLES
    shuttingDown, \* SHUTTING_DOWN
    active,       \* ACTIVE_PROCESSES: the registered run of an origin, 0 for none
    interrupts,   \* ACTIVE_INTERRUPTS: the run asked to stop, 0 for none
    sidecar,      \* the steering messages in an origin's sidecar
    leader,       \* what each process is doing
    kids,         \* the runs with a live registered descendant
    run,          \* the last process each worker started
    wpc,          \* where each worker is
    mpc,          \* where the main thread is
    target,       \* the steering message and the origin the main thread serves
    status,       \* what became of each steering message
    snapshot,     \* the runs shutdown_active_processes has still to end
    stopped,      \* no process was left to the shutdown deadline
    \* history
    outcome,      \* how each run ended
    fedTo,        \* the run each steering message was stored for
    read,         \* the steering messages each run has read
    asked,        \* the runs the main thread tried to interrupt
    acked         \* the runs whose interruption was acknowledged

registry == <<shuttingDown, active, interrupts>>
procs    == <<leader, kids>>
workers  == <<run, wpc>>
mains    == <<mpc, target, status, snapshot, stopped>>
history  == <<outcome, fedTo, read, asked, acked>>
vars     == <<registry, sidecar, procs, workers, mains, history>>

Runs == Msgs \X (1 .. MaxRuns)
None == <<>>
Alive == {"gated", "running"}
Ended == {"done", "failed", "late"}

WorkerPcs == {"idle", "start", "gate", "startFailed", "wait", "forget", "unregister", "remove", "over"}
MainPcs   == {"poll", "append", "signal", "confirm", "stop", "kill", "join", "exited"}

TypeOK ==
    /\ shuttingDown \in BOOLEAN
    /\ active \in [Msgs -> 0 .. MaxRuns]
    /\ interrupts \in [Msgs -> 0 .. MaxRuns]
    /\ sidecar \in [Msgs -> SUBSET Steers]
    /\ leader \in [Runs -> {"none"} \cup Alive \cup Ended]
    /\ kids \subseteq Runs
    /\ run \in [Msgs -> 0 .. MaxRuns]
    /\ wpc \in [Msgs -> WorkerPcs]
    /\ mpc \in MainPcs
    /\ target \in (Steers \X Msgs) \cup {None}
    /\ status \in [Steers -> {"new", "stored", "delivered", "review", "kept"}]
    /\ snapshot \subseteq Runs
    /\ stopped \in BOOLEAN
    /\ outcome \in [Runs -> {"none", "unstarted", "answered", "interrupted", "failed"}]
    /\ fedTo \in [Steers -> Runs \cup {None}]
    /\ read \in [Runs -> SUBSET Steers]
    /\ asked \subseteq Runs
    /\ acked \subseteq Runs

Init ==
    /\ shuttingDown = FALSE
    /\ active = [m \in Msgs |-> 0]
    /\ interrupts = [m \in Msgs |-> 0]
    /\ sidecar = [m \in Msgs |-> {}]
    /\ leader = [r \in Runs |-> "none"]
    /\ kids = {}
    /\ run = [m \in Msgs |-> 0]
    /\ wpc = [m \in Msgs |-> "idle"]
    /\ mpc = "poll"
    /\ target = None
    /\ status = [s \in Steers |-> "new"]
    /\ snapshot = {}
    /\ stopped = TRUE
    /\ outcome = [r \in Runs |-> "none"]
    /\ fedTo = [s \in Steers |-> None]
    /\ read = [r \in Runs |-> {}]
    /\ asked = {}
    /\ acked = {}

Cur(m) == <<m, run[m]>>
LockFree == mpc \notin {"append", "signal", "confirm"}
Up == mpc # "exited"
At(m, pc) == Up /\ wpc[m] = pc
Goto(m, pc) == wpc' = [wpc EXCEPT ![m] = pc]
Set(f, r, v) == [f EXCEPT ![r] = v]
\* The registry without run r: only an entry that is exactly r goes.
Without(registered, r) == [registered EXCEPT ![r[1]] = IF @ = r[2] THEN 0 ELSE @]

(***************************************************************************)
(* A worker: hermes_reply, and run_slash_worker, which differs in what it  *)
(* sends the process.                                                      *)
(***************************************************************************)
\* A first turn or a retry is submitted by the main thread; a worker whose
\* turn was answered may continue a goal, whatever the main thread does.
Begin(m) ==
    /\ At(m, "idle")
    /\ run[m] < MaxRuns
    /\ \/ mpc \notin {"join", "exited"}
       \/ run[m] > 0 /\ outcome[Cur(m)] = "answered"
    /\ Goto(m, "start")
    /\ UNCHANGED <<registry, sidecar, procs, run, mains, history>>

Registered(m) ==
    /\ active' = Set(active, m, run'[m])
    /\ interrupts' = [interrupts EXCEPT ![m] = IF @ = run'[m] THEN @ ELSE 0]

\* Mutation: the start does not look at SHUTTING_DOWN.
MutStart(m) ==
    /\ At(m, "start")
    /\ LockFree
    /\ run' = [run EXCEPT ![m] = @ + 1]
    /\ leader' = Set(leader, <<m, run'[m]>>, "gated")
    /\ Registered(m)
    /\ Goto(m, "gate")
    /\ UNCHANGED <<shuttingDown, sidecar, kids, mains, history>>

\* Under the lock: no start while shutting down, else the process is created,
\* waiting at its gate, and registered.
Start(m) ==
    /\ At(m, "start")
    /\ LockFree
    /\ IF shuttingDown
       THEN /\ Goto(m, "over")
            /\ UNCHANGED <<active, interrupts, leader, run>>
       ELSE /\ run' = [run EXCEPT ![m] = @ + 1]
            /\ leader' = Set(leader, <<m, run'[m]>>, "gated")
            /\ Registered(m)
            /\ Goto(m, "gate")
    /\ UNCHANGED <<shuttingDown, sidecar, kids, mains, history>>

\* The worker writes the gate byte and the prompt; both fit the pipes.
OpenGate(m) ==
    /\ At(m, "gate")
    /\ leader[Cur(m)] = "gated"
    /\ Goto(m, "wait")
    /\ UNCHANGED <<registry, sidecar, procs, run, mains, history>>

\* A write fails: the process has died at its gate, or the transport broke.
\* The process is killed.
GateBreaks(m) ==
    /\ At(m, "gate")
    /\ leader' = Set(leader, Cur(m), "failed")
    /\ Goto(m, "startFailed")
    /\ UNCHANGED <<registry, sidecar, kids, run, mains, history>>

\* The failed start unregisters the run, ignores whether it was interrupted,
\* and raises: the origin is tried again, unless this was a continuation.
StartFailed(m) ==
    /\ At(m, "startFailed")
    /\ LockFree
    /\ active' = Without(active, Cur(m))
    /\ interrupts' = Without(interrupts, Cur(m))
    /\ outcome' = Set(outcome, Cur(m), "unstarted")
    /\ Goto(m, IF \E r \in Runs : r[1] = m /\ outcome[r] = "answered" THEN "over" ELSE "idle")
    /\ UNCHANGED <<shuttingDown, sidecar, procs, run, mains, fedTo, read, asked, acked>>

\* Killing the descendants left behind also forgets the registration; a slash
\* worker does both whether there are any or not.
AfterExit(m) == {"forget"} \cup (IF Cur(m) \in kids THEN {} ELSE {"unregister"})

\* The worker sees the exit.
NoticeExit(m) ==
    /\ At(m, "wait")
    /\ leader[Cur(m)] \in {"done", "failed"}
    /\ \E next \in AfterExit(m) : Goto(m, next)
    /\ kids' = kids \ {Cur(m)}
    /\ UNCHANGED <<registry, sidecar, leader, run, mains, history>>

\* Mutation: the time limit ends a process only at its gate.
MutTimeout(m) ==
    /\ At(m, "wait")
    /\ leader[Cur(m)] = "gated"
    /\ leader' = Set(leader, Cur(m), "late")
    /\ Goto(m, "forget")
    /\ UNCHANGED <<registry, sidecar, kids, run, mains, history>>

Timeout(m) ==
    /\ At(m, "wait")
    /\ leader[Cur(m)] \in Alive
    /\ leader' = Set(leader, Cur(m), "late")
    /\ kids' = kids \ {Cur(m)}
    /\ Goto(m, "forget")
    /\ UNCHANGED <<registry, sidecar, run, mains, history>>

\* Mutation: the interrupt is forgotten with the process.
MutForget(m) ==
    /\ At(m, "forget")
    /\ LockFree
    /\ active' = Without(active, Cur(m))
    /\ interrupts' = Without(interrupts, Cur(m))
    /\ Goto(m, "unregister")
    /\ UNCHANGED <<shuttingDown, sidecar, procs, run, mains, history>>

Forget(m) ==
    /\ At(m, "forget")
    /\ LockFree
    /\ active' = Without(active, Cur(m))
    /\ Goto(m, "unregister")
    /\ UNCHANGED <<shuttingDown, interrupts, sidecar, procs, run, mains, history>>

\* Mutation: a registration that has gone counts as an interrupt.
MutInterrupted(m) == active[m] # run[m] \/ interrupts[m] = run[m]

\* unregister_active_process: replaced by a newer process, or interrupted.
Interrupted(m) == active[m] \notin {0, run[m]} \/ interrupts[m] = run[m]

Result(m) ==
    CASE leader[Cur(m)] = "late" -> "failed"
      [] leader[Cur(m)] # "late" /\ Interrupted(m) -> "interrupted"
      [] leader[Cur(m)] = "done" /\ ~ Interrupted(m) -> "answered"
      [] OTHER -> "failed"

Unregister(m) ==
    /\ At(m, "unregister")
    /\ LockFree
    /\ outcome' = Set(outcome, Cur(m), Result(m))
    /\ active' = Without(active, Cur(m))
    /\ interrupts' = Without(interrupts, Cur(m))
    /\ Goto(m, "remove")
    /\ UNCHANGED <<shuttingDown, sidecar, procs, run, mains, fedTo, read, asked, acked>>

\* Mutation: the turn ends without removing its sidecar.
MutRemove(m) ==
    /\ At(m, "remove")
    /\ Goto(m, IF outcome[Cur(m)] = "answered" THEN "idle" ELSE "over")
    /\ UNCHANGED <<registry, sidecar, procs, run, mains, history>>

\* The sidecar is removed; only an answered turn may have a continuation.
Remove(m) ==
    /\ At(m, "remove")
    /\ sidecar' = Set(sidecar, m, {})
    /\ Goto(m, IF outcome[Cur(m)] = "answered" THEN "idle" ELSE "over")
    /\ UNCHANGED <<registry, procs, run, mains, history>>

(***************************************************************************)
(* A Hermes process.                                                       *)
(***************************************************************************)
PassGate(r) ==
    /\ leader[r] = "gated"
    /\ run[r[1]] = r[2]
    /\ wpc[r[1]] = "wait"
    /\ leader' = Set(leader, r, "running")
    /\ UNCHANGED <<registry, sidecar, kids, workers, mains, history>>

ReadSidecar(r) ==
    /\ leader[r] = "running"
    /\ read' = [read EXCEPT ![r] = @ \cup sidecar[r[1]]]
    /\ UNCHANGED <<registry, sidecar, procs, workers, mains, outcome, fedTo, asked, acked>>

\* Hermes ends, perhaps leaving a descendant behind; sent SIGTERM, it may
\* still end as if nothing had happened.
Exit(r) ==
    /\ leader[r] = "running"
    /\ \E how \in {"done", "failed"} : leader' = Set(leader, r, how)
    /\ kids' \in {kids, kids \cup {r}}
    /\ UNCHANGED <<registry, sidecar, workers, mains, history>>

\* A process at its gate dies of SIGTERM, or of its own.
DieAtGate(r) ==
    /\ leader[r] = "gated"
    /\ leader' = Set(leader, r, "failed")
    /\ UNCHANGED <<registry, sidecar, kids, workers, mains, history>>

(***************************************************************************)
(* The main thread hands over a steering message.                          *)
(***************************************************************************)
\* Mutation: the registry is not asked for a live process.
MutSteer(s, m) ==
    /\ mpc = "poll"
    /\ status[s] = "new"
    /\ wpc[m] # "idle"
    /\ mpc' = "append"
    /\ target' = <<s, m>>
    /\ UNCHANGED <<registry, sidecar, procs, workers, status, snapshot, stopped, history>>

\* store_active_steering_if_live: the lock is taken and a live process found.
Steer(s, m) ==
    /\ mpc = "poll"
    /\ status[s] = "new"
    /\ active[m] # 0
    /\ leader[<<m, active[m]>>] \in Alive
    /\ mpc' = "append"
    /\ target' = <<s, m>>
    /\ UNCHANGED <<registry, sidecar, procs, workers, status, snapshot, stopped, history>>

Served(how) ==
    /\ mpc' = "poll"
    /\ target' = None
    /\ status' = Set(status, target[1], how)
    /\ UNCHANGED <<snapshot, stopped>>

\* The message was refused, or its mark not saved, before the append.
SteerPutOff ==
    /\ mpc = "append"
    /\ Served("new")
    /\ UNCHANGED <<registry, sidecar, procs, workers, history>>

\* Mutation: a full sidecar drops an older record of the turn.
MutBounded(m, s) == {{s} \cup kept : kept \in {k \in SUBSET sidecar[m] : Cardinality(k) < MaxRecords}}

\* _bounded_steering_records: every record of a live turn is kept.
Bounded(m, s) == {records \in {sidecar[m] \cup {s}} : Cardinality(records) <= MaxRecords}

Append ==
    /\ mpc = "append"
    /\ \E records \in Bounded(target[2], target[1]) :
          sidecar' = Set(sidecar, target[2], records)
    /\ fedTo' = Set(fedTo, target[1], <<target[2], active[target[2]]>>)
    /\ mpc' = IF HardInterrupt THEN "signal" ELSE "confirm"
    /\ status' = Set(status, target[1], "stored")
    /\ UNCHANGED <<registry, procs, workers, target, snapshot, stopped, outcome, read, asked, acked>>

\* No room or an I/O error: the origin stays marked and is not fed again.
AppendFails ==
    /\ mpc = "append"
    /\ Served("kept")
    /\ UNCHANGED <<registry, sidecar, procs, workers, history>>

\* interrupt_active_message finds the process alive and signals its group.
Interrupt ==
    /\ mpc = "signal"
    /\ LET r == <<target[2], active[target[2]]>> IN
        /\ leader[r] \in Alive
        /\ interrupts' = Set(interrupts, target[2], active[target[2]])
        /\ asked' = asked \cup {r}
        /\ acked' = acked \cup {r}
    /\ mpc' = "confirm"
    /\ UNCHANGED <<shuttingDown, active, sidecar, leader, kids, workers, target, status, snapshot, stopped, outcome, fedTo, read>>

\* The process has exited, perhaps just after it was found alive: nobody
\* knows whether it read the message, which is put aside for review.
InterruptTooLate ==
    /\ mpc = "signal"
    /\ LET r == <<target[2], active[target[2]]>> IN
        /\ leader[r] \in Ended
        /\ \/ UNCHANGED <<interrupts, asked>>
           \/ /\ interrupts' = Set(interrupts, target[2], active[target[2]])
              /\ asked' = asked \cup {r}
    /\ Served("review")
    /\ UNCHANGED <<shuttingDown, active, sidecar, procs, workers, outcome, fedTo, read, acked>>

Confirm ==
    /\ mpc = "confirm"
    /\ Served("delivered")
    /\ UNCHANGED <<registry, sidecar, procs, workers, history>>

\* A validation after the append fails.
SteerRefused ==
    /\ mpc \in {"signal", "confirm"}
    /\ Served("kept")
    /\ UNCHANGED <<registry, sidecar, procs, workers, history>>

(***************************************************************************)
(* Shutdown.                                                               *)
(***************************************************************************)
\* SIGTERM raises KeyboardInterrupt wherever the main thread is.
Stop ==
    /\ mpc \in {"poll", "append", "signal", "confirm"}
    /\ mpc' = "stop"
    /\ target' = None
    /\ UNCHANGED <<registry, sidecar, procs, workers, status, snapshot, stopped, history>>

BeginShutdown ==
    /\ mpc = "stop"
    /\ shuttingDown' = TRUE
    /\ snapshot' = {<<m, active[m]>> : m \in {k \in Msgs : active[k] # 0}}
    /\ mpc' = "kill"
    /\ UNCHANGED <<active, interrupts, sidecar, procs, workers, target, status, stopped, history>>

KillOne(r) ==
    /\ mpc = "kill"
    /\ r \in snapshot
    /\ leader' = [leader EXCEPT ![r] = IF @ \in Alive THEN "failed" ELSE @]
    /\ kids' = kids \ {r}
    /\ active' = Without(active, r)
    /\ snapshot' = snapshot \ {r}
    /\ UNCHANGED <<shuttingDown, interrupts, sidecar, workers, mpc, target, status, stopped, history>>

\* The deadline passes before every process was ended.
Deadline ==
    /\ mpc = "kill"
    /\ snapshot # {}
    /\ snapshot' = {}
    /\ stopped' = FALSE
    /\ UNCHANGED <<registry, sidecar, procs, workers, mpc, target, status, history>>

ClearRegistry ==
    /\ mpc = "kill"
    /\ snapshot = {}
    /\ active' = [m \in Msgs |-> 0]
    /\ interrupts' = [m \in Msgs |-> 0]
    /\ mpc' = "join"
    /\ UNCHANGED <<shuttingDown, sidecar, procs, workers, target, status, snapshot, stopped, history>>

\* _shutdown_executor waits for the workers, or for the deadline.
Join ==
    /\ mpc = "join"
    /\ mpc' = "exited"
    /\ UNCHANGED <<registry, sidecar, procs, workers, target, status, snapshot, stopped, history>>

WorkerNext(m) ==
    \/ Begin(m) \/ Start(m) \/ OpenGate(m) \/ GateBreaks(m) \/ StartFailed(m)
    \/ NoticeExit(m) \/ Timeout(m) \/ Forget(m) \/ Unregister(m) \/ Remove(m)

ProcessNext(r) == PassGate(r) \/ ReadSidecar(r) \/ Exit(r) \/ DieAtGate(r)

MainNext ==
    \/ \E s \in Steers, m \in Msgs : Steer(s, m)
    \/ SteerPutOff \/ Append \/ AppendFails \/ Interrupt \/ InterruptTooLate
    \/ Confirm \/ SteerRefused
    \/ Stop \/ BeginShutdown \/ (\E r \in Runs : KillOne(r)) \/ Deadline
    \/ ClearRegistry \/ Join

Next ==
    \/ \E m \in Msgs : WorkerNext(m)
    \/ \E r \in Runs : ProcessNext(r)
    \/ MainNext

Spec == Init /\ [][Next]_vars

(***************************************************************************)
(* Fairness: the threads run, the main loop sleeps between two polls with  *)
(* the lock free, a Hermes process may never end by itself, and a dying    *)
(* one dies.  Nothing makes the main thread steer, or the bridge stop.     *)
(***************************************************************************)
LockStep(m) == Start(m) \/ StartFailed(m) \/ Forget(m) \/ Unregister(m)
FreeStep(m) == OpenGate(m) \/ GateBreaks(m) \/ NoticeExit(m) \/ Timeout(m) \/ Remove(m)
MainStep ==
    \/ SteerPutOff \/ Append \/ AppendFails \/ Interrupt \/ InterruptTooLate
    \/ Confirm \/ SteerRefused
    \/ BeginShutdown \/ (\E r \in Runs : KillOne(r)) \/ Deadline \/ ClearRegistry

FairSpec ==
    /\ Spec
    /\ \A m \in Msgs : WF_vars(FreeStep(m)) /\ SF_vars(LockStep(m))
    /\ WF_vars(MainStep)

-----------------------------------------------------------------------------
\* Once shutdown_active_processes has ended every process it found, within the
\* deadline, no Hermes process and no registered descendant of one is alive,
\* whatever the workers were doing.
StoppedMeansDead ==
    mpc \in {"join", "exited"} /\ stopped =>
        kids = {} /\ \A r \in Runs : leader[r] \notin Alive

\* A turn is reported as interrupted only if the main thread tried to interrupt
\* that very process, not an earlier one of the same origin.
InterruptedWasAsked == \A r \in Runs : outcome[r] = "interrupted" => r \in asked

\* The answer of a turn whose interruption was acknowledged to the user is never
\* used, except by a shutdown that clears the registry under it.
InterruptIsHonoured ==
    \A r \in acked : outcome[r] = "answered" => shuttingDown

\* A run reads only steering stored for itself, or for a run of the same origin
\* whose start failed: a turn in which Hermes ran leaves no record behind.
NoRecordOfAFinishedTurn ==
    \A r \in Runs : \A s \in read[r] :
        fedTo[s] = r \/ (fedTo[s][1] = r[1] /\ outcome[fedTo[s]] = "unstarted")

\* What was stored for a live run stays in its sidecar for as long as it lives:
\* no compaction and no clean-up of another run takes it away.
StoredIsReadable ==
    \A s \in Steers :
        status[s] \in {"stored", "delivered"} /\ leader[fedTo[s]] \in Alive
            => s \in sidecar[fedTo[s][1]]

\* A worker that waits for Hermes is done with it in the end: the run ends or is
\* ended, and no holder of ACTIVE_LOCK keeps the worker from unregistering it.
TurnEnds ==
    \A m \in Msgs : wpc[m] = "wait" ~> wpc[m] \in {"idle", "over"} \/ mpc = "exited"
=============================================================================
