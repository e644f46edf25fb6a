-------------------------- MODULE ActiveTurn_proofs --------------------------
(***************************************************************************)
(* The safety of the process registry, for any number of origins, runs and *)
(* steering messages, any limit, and a shutdown at any moment.             *)
(***************************************************************************)
EXTENDS ActiveTurn, TLAPS

USE ActiveTurnAssumption

-----------------------------------------------------------------------------
(***************************************************************************)
(* The inductive invariant.                                                *)
(***************************************************************************)
\* A worker has a process, from its registration to its end.
Busy == {"gate", "startFailed", "wait", "forget", "unregister"}

\* What a worker's place says of its runs, the earlier, the current and the later.
OrderedAt(r) ==
    LET m == r[1] IN
    /\ r[2] > run[m] => leader[r] = "none" /\ outcome[r] = "none" /\ r \notin kids /\ r \notin asked
    /\ r[2] < run[m] => leader[r] \in Ended /\ outcome[r] # "none" /\ r \notin kids
    /\ r[2] = run[m] /\ wpc[m] \notin Busy => leader[r] \in Ended /\ outcome[r] # "none" /\ r \notin kids
    /\ r[2] = run[m] /\ wpc[m] \in Busy =>
        /\ outcome[r] = "none"
        /\ wpc[m] = "gate" => leader[r] \in {"gated", "failed"} /\ r \notin kids
        /\ wpc[m] = "wait" => leader[r] \in Alive \cup {"done", "failed"}
        /\ wpc[m] \notin {"gate", "wait"} => leader[r] \in Ended /\ r \notin kids

RunsAreOrdered == \A r \in Runs : OrderedAt(r)

\* The registry knows the current run of a worker, or none.
CurrentAt(m) ==
    /\ wpc[m] \in Busy \cup {"remove"} => run[m] # 0
    /\ wpc[m] = "start" => run[m] < MaxRuns
    /\ active[m] \in {0, run[m]} /\ interrupts[m] \in {0, run[m]}
    /\ active[m] # 0 \/ interrupts[m] # 0 => wpc[m] \in Busy
    /\ wpc[m] \in {"gate", "wait"} => active[m] = run[m] \/ shuttingDown
    /\ interrupts[m] # 0 => <<m, interrupts[m]>> \in asked

RegistryIsCurrent == \A m \in Msgs : CurrentAt(m)

MainIsPlaced ==
    /\ mpc \in {"append", "signal", "confirm"} => target # None /\ active[target[2]] # 0
    /\ mpc = "append" => status[target[1]] = "new"
    /\ mpc \in {"signal", "confirm"} => status[target[1]] = "stored"
    /\ mpc \in {"kill", "join", "exited"} <=> shuttingDown
    /\ mpc \in {"join", "exited"} => snapshot = {}

\* While processes are ended, those alive are on the list.
AliveIsListed ==
    shuttingDown /\ stopped => \A r \in Runs : leader[r] \in Alive \/ r \in kids => r \in snapshot

\* An acknowledged interruption waits for the end of its run.
AckedIsNoted ==
    \A r \in acked : outcome[r] = "none" /\ ~ shuttingDown => interrupts[r[1]] = r[2]

\* Records belong to the current run, or to runs that were not started.
RecordAt(m, s) ==
    s \in sidecar[m] =>
        /\ fedTo[s] # None /\ fedTo[s][1] = m
        /\ \/ fedTo[s][2] = run[m] /\ wpc[m] \notin {"idle", "start"}
           \/ outcome[fedTo[s]] = "unstarted"

RecordsAreCurrent == \A m \in Msgs, s \in Steers : RecordAt(m, s)

FedAt(s) ==
    /\ status[s] = "new" => fedTo[s] = None
    /\ status[s] \in {"stored", "delivered"} => fedTo[s] # None
    /\ fedTo[s] # None => fedTo[s][2] <= run[fedTo[s][1]]
    /\ \A r \in Runs : s \in read[r] => fedTo[s] # None

FedIsPast == \A s \in Steers : FedAt(s)

IInv ==
    /\ TypeOK
    /\ RunsAreOrdered /\ RegistryIsCurrent /\ MainIsPlaced
    /\ AliveIsListed /\ AckedIsNoted /\ InterruptedWasAsked /\ InterruptIsHonoured
    /\ RecordsAreCurrent /\ FedIsPast /\ NoRecordOfAFinishedTurn /\ StoredIsReadable

-----------------------------------------------------------------------------
\* A run is an origin and a number, and is never taken for none.
LEMMA RunsAreRuns ==
    /\ \A m \in Msgs, n \in 1 .. MaxRuns : <<m, n>> \in Runs
    /\ \A r \in Runs : r[1] \in Msgs /\ r[2] \in 1 .. MaxRuns /\ r = <<r[1], r[2]>> /\ r # None
    /\ \A s \in Steers, m \in Msgs : <<s, m>> # None
    /\ None \notin Runs
  BY DEF Runs, None

\* While the main thread holds the lock it serves a registered run.
LEMMA ServedIsCurrent ==
    ASSUME IInv, mpc \in {"append", "signal", "confirm"}
    PROVE  /\ target[1] \in Steers /\ target[2] \in Msgs
           /\ active[target[2]] = run[target[2]] /\ run[target[2]] # 0
           /\ <<target[2], active[target[2]]>> \in Runs
           /\ wpc[target[2]] \in Busy
  <1>1. target # None /\ active[target[2]] # 0
    BY DEF IInv, MainIsPlaced
  <1>2. target[1] \in Steers /\ target[2] \in Msgs
    BY <1>1 DEF IInv, TypeOK
  <1>3. /\ active[target[2]] = run[target[2]] /\ run[target[2]] # 0
        /\ wpc[target[2]] \in Busy
    BY <1>1, <1>2 DEF IInv, RegistryIsCurrent, CurrentAt
  <1>4. active[target[2]] \in 1 .. MaxRuns
    BY <1>1, <1>2 DEF IInv, TypeOK
  <1>. QED
    BY <1>2, <1>3, <1>4, RunsAreRuns

\* unregister_active_process says one of three things, two of them by the interrupt.
LEMMA ResultIsFinal ==
    ASSUME NEW m \in Msgs
    PROVE  /\ Result(m) \in {"failed", "interrupted", "answered"}
           /\ Result(m) = "interrupted" => Interrupted(m)
           /\ Result(m) = "answered" => ~ Interrupted(m)
  BY DEF Result

-----------------------------------------------------------------------------
(***************************************************************************)
(* Every step keeps every part: one lemma for each part of the invariant,  *)
(* one case for each action that touches what the part speaks of.          *)
(***************************************************************************)
\* Every step keeps the types: run numbers stay below their bound because a
\* worker begins only below it.
LEMMA TypeStep ==
    ASSUME IInv, Next
    PROVE  TypeOK'
  <1>1. CASE UNCHANGED <<shuttingDown, active, interrupts, sidecar, leader, kids, run, wpc, mpc,
                         target, status, snapshot, stopped, outcome, fedTo, read, asked, acked>>
    BY <1>1 DEF IInv, TypeOK
  <1>2. ASSUME NEW m \in Msgs, Begin(m)
        PROVE  TypeOK'
    BY <1>2 DEF IInv, TypeOK, Begin, Goto, registry, procs, mains, history, WorkerPcs
  <1>3. ASSUME NEW m \in Msgs, Start(m)
        PROVE  TypeOK'
    <2>1. CASE shuttingDown
      BY <1>3, <2>1 DEF IInv, TypeOK, WorkerPcs, Start, Goto, mains, history
    <2>2. CASE ~ shuttingDown
      <3>1. run[m] \in 0 .. MaxRuns /\ run[m] < MaxRuns
        BY <1>3 DEF IInv, TypeOK, RegistryIsCurrent, CurrentAt, Start, At
      <3>2. run[m] + 1 \in 1 .. MaxRuns
        BY <3>1
      <3>3. run' = [run EXCEPT ![m] = run[m] + 1] /\ run'[m] = run[m] + 1
        BY <1>3, <2>2 DEF IInv, TypeOK, Start
      <3>4. run' \in [Msgs -> 0 .. MaxRuns]
        BY <3>2, <3>3 DEF IInv, TypeOK
      <3>5. active' \in [Msgs -> 0 .. MaxRuns] /\ interrupts' \in [Msgs -> 0 .. MaxRuns]
        BY <1>3, <2>2, <3>2, <3>3 DEF IInv, TypeOK, Start, Registered, Set
      <3>6. leader' \in [Runs -> {"none"} \cup Alive \cup Ended]
        BY <1>3, <2>2, <3>2, <3>3 DEF IInv, TypeOK, Start, Set, Alive
      <3>7. wpc' \in [Msgs -> WorkerPcs]
        BY <1>3, <2>2 DEF IInv, TypeOK, Start, Goto, WorkerPcs
      <3>. QED
        BY <1>3, <3>4, <3>5, <3>6, <3>7 DEF IInv, TypeOK, Start, mains, history
    <2>. QED
      BY <2>1, <2>2
  <1>4. ASSUME NEW m \in Msgs, OpenGate(m)
        PROVE  TypeOK'
    BY <1>4 DEF IInv, TypeOK, OpenGate, Goto, registry, procs, mains, history, WorkerPcs
  <1>5. ASSUME NEW m \in Msgs, GateBreaks(m)
        PROVE  TypeOK'
    BY <1>5 DEF IInv, TypeOK, Ended, GateBreaks, Goto, Set, registry, mains, history, WorkerPcs
  <1>6. ASSUME NEW m \in Msgs, StartFailed(m)
        PROVE  TypeOK'
    <2>1. active' \in [Msgs -> 0 .. MaxRuns] /\ interrupts' \in [Msgs -> 0 .. MaxRuns]
      BY <1>6 DEF IInv, TypeOK, StartFailed, Without, Cur
    <2>2. outcome' \in [Runs -> {"none", "unstarted", "answered", "interrupted", "failed"}]
      BY <1>6 DEF IInv, TypeOK, StartFailed, Set
    <2>3. wpc' \in [Msgs -> WorkerPcs]
      BY <1>6 DEF IInv, TypeOK, StartFailed, Goto, WorkerPcs
    <2>. QED
      BY <1>6, <2>1, <2>2, <2>3 DEF IInv, TypeOK, StartFailed, procs, mains
  <1>7. ASSUME NEW m \in Msgs, NoticeExit(m)
        PROVE  TypeOK'
    BY <1>7 DEF IInv, TypeOK, NoticeExit, Goto, AfterExit, registry, mains, history, WorkerPcs
  <1>8. ASSUME NEW m \in Msgs, Timeout(m)
        PROVE  TypeOK'
    BY <1>8 DEF IInv, TypeOK, Ended, Timeout, Goto, Set, registry, mains, history, WorkerPcs
  <1>9. ASSUME NEW m \in Msgs, Forget(m)
        PROVE  TypeOK'
    BY <1>9 DEF IInv, TypeOK, Forget, Goto, Cur, Without, procs, mains, history, WorkerPcs
  <1>10. ASSUME NEW m \in Msgs, Unregister(m)
        PROVE  TypeOK'
    <2>1. active' \in [Msgs -> 0 .. MaxRuns] /\ interrupts' \in [Msgs -> 0 .. MaxRuns]
      BY <1>10 DEF IInv, TypeOK, Unregister, Without, Cur
    <2>2. outcome' \in [Runs -> {"none", "unstarted", "answered", "interrupted", "failed"}]
      BY <1>10, ResultIsFinal DEF IInv, TypeOK, Unregister, Set
    <2>3. wpc' \in [Msgs -> WorkerPcs]
      BY <1>10 DEF IInv, TypeOK, Unregister, Goto, WorkerPcs
    <2>. QED
      BY <1>10, <2>1, <2>2, <2>3 DEF IInv, TypeOK, Unregister, procs, mains
  <1>11. ASSUME NEW m \in Msgs, Remove(m)
        PROVE  TypeOK'
    BY <1>11 DEF IInv, TypeOK, Remove, Goto, Set, registry, procs, mains, history, WorkerPcs
  <1>12. ASSUME NEW r \in Runs, PassGate(r)
        PROVE  TypeOK'
    BY <1>12 DEF IInv, TypeOK, Alive, Ended, PassGate, Set, registry, workers, mains, history
  <1>13. ASSUME NEW r \in Runs, ReadSidecar(r)
        PROVE  TypeOK'
    BY <1>13, RunsAreRuns DEF IInv, TypeOK, ReadSidecar, registry, procs, workers, mains
  <1>14. ASSUME NEW r \in Runs, Exit(r)
        PROVE  TypeOK'
    BY <1>14 DEF IInv, TypeOK, Ended, Exit, Set, registry, workers, mains, history
  <1>15. ASSUME NEW r \in Runs, DieAtGate(r)
        PROVE  TypeOK'
    BY <1>15 DEF IInv, TypeOK, Ended, DieAtGate, Set, registry, workers, mains, history
  <1>16. ASSUME NEW s \in Steers, NEW m \in Msgs, Steer(s, m)
        PROVE  TypeOK'
    BY <1>16 DEF IInv, TypeOK, Steer, registry, procs, workers, history, MainPcs
  <1>17. ASSUME SteerPutOff
        PROVE  TypeOK'
    BY <1>17 DEF IInv, TypeOK, SteerPutOff, Served, Set, registry, procs, workers, history, MainPcs
  <1>18. ASSUME Append
        PROVE  TypeOK'
    <2>. DEFINE r == <<target[2], active[target[2]]>>
    <2>1. target[1] \in Steers /\ target[2] \in Msgs /\ r \in Runs
      BY <1>18, ServedIsCurrent DEF Append
    <2>2. sidecar' = [sidecar EXCEPT ![target[2]] = sidecar[target[2]] \cup {target[1]}]
      BY <1>18 DEF Append, Bounded, Set
    <2>3. sidecar' \in [Msgs -> SUBSET Steers]
      BY <2>1, <2>2 DEF IInv, TypeOK
    <2>4. fedTo' \in [Steers -> Runs \cup {None}]
      BY <1>18, <2>1 DEF IInv, TypeOK, Append, Set
    <2>5. status' \in [Steers -> {"new", "stored", "delivered", "review", "kept"}] /\ mpc' \in MainPcs
      BY <1>18, <2>1 DEF IInv, TypeOK, Append, Set, MainPcs
    <2>. QED
      BY <1>18, <2>3, <2>4, <2>5 DEF IInv, TypeOK, Append, registry, procs, workers
  <1>19. ASSUME AppendFails
        PROVE  TypeOK'
    BY <1>19 DEF IInv, TypeOK, AppendFails, Served, Set, registry, procs, workers, history, MainPcs
  <1>20. ASSUME Interrupt
        PROVE  TypeOK'
    <2>. DEFINE r == <<target[2], active[target[2]]>>
    <2>1. target[1] \in Steers /\ target[2] \in Msgs /\ r \in Runs
      BY <1>20, ServedIsCurrent DEF Interrupt
    <2>2. active[target[2]] \in 0 .. MaxRuns
      BY <2>1 DEF IInv, TypeOK
    <2>3. interrupts' \in [Msgs -> 0 .. MaxRuns]
      BY <1>20, <2>2 DEF IInv, TypeOK, Interrupt, Set
    <2>4. asked' \subseteq Runs /\ acked' \subseteq Runs
      BY <1>20, <2>1 DEF IInv, TypeOK, Interrupt
    <2>5. status' \in [Steers -> {"new", "stored", "delivered", "review", "kept"}] /\ mpc' \in MainPcs /\ target' \in (Steers \X Msgs) \cup {None}
      BY <1>20 DEF IInv, TypeOK, Interrupt, MainPcs
    <2>. QED
      BY <1>20, <2>3, <2>4, <2>5 DEF IInv, TypeOK, Interrupt, procs, workers
  <1>21. ASSUME InterruptTooLate
        PROVE  TypeOK'
    <2>. DEFINE r == <<target[2], active[target[2]]>>
    <2>1. target[1] \in Steers /\ target[2] \in Msgs /\ r \in Runs
      BY <1>21, ServedIsCurrent DEF InterruptTooLate
    <2>2. active[target[2]] \in 0 .. MaxRuns
      BY <2>1 DEF IInv, TypeOK
    <2>3. interrupts' \in [Msgs -> 0 .. MaxRuns]
      BY <1>21, <2>2 DEF IInv, TypeOK, InterruptTooLate, Set
    <2>4. asked' \subseteq Runs /\ acked' \subseteq Runs
      BY <1>21, <2>1 DEF IInv, TypeOK, InterruptTooLate
    <2>5. status' \in [Steers -> {"new", "stored", "delivered", "review", "kept"}] /\ mpc' \in MainPcs /\ target' \in (Steers \X Msgs) \cup {None}
      BY <1>21 DEF IInv, TypeOK, InterruptTooLate, Served, Set, MainPcs
    <2>. QED
      BY <1>21, <2>3, <2>4, <2>5 DEF IInv, TypeOK, InterruptTooLate, Served, procs, workers
  <1>22. ASSUME Confirm
        PROVE  TypeOK'
    BY <1>22 DEF IInv, TypeOK, Confirm, Served, Set, registry, procs, workers, history, MainPcs
  <1>23. ASSUME SteerRefused
        PROVE  TypeOK'
    BY <1>23 DEF IInv, TypeOK, SteerRefused, Served, Set, registry, procs, workers, history, MainPcs
  <1>24. ASSUME Stop
        PROVE  TypeOK'
    BY <1>24 DEF IInv, TypeOK, Stop, registry, procs, workers, history, MainPcs
  <1>25. ASSUME BeginShutdown
        PROVE  TypeOK'
    BY <1>25, RunsAreRuns DEF IInv, TypeOK, BeginShutdown, procs, workers, history, MainPcs
  <1>26. ASSUME NEW r \in Runs, KillOne(r)
        PROVE  TypeOK'
    BY <1>26, RunsAreRuns DEF IInv, TypeOK, Ended, KillOne, Without, workers, history
  <1>27. ASSUME Deadline
        PROVE  TypeOK'
    BY <1>27 DEF IInv, TypeOK, Deadline, registry, procs, workers, history
  <1>28. ASSUME ClearRegistry
        PROVE  TypeOK'
    BY <1>28 DEF IInv, TypeOK, ClearRegistry, procs, workers, history, MainPcs
  <1>29. ASSUME Join
        PROVE  TypeOK'
    BY <1>29 DEF IInv, TypeOK, Join, registry, procs, workers, history, MainPcs
  <1>. QED
    BY <1>1, <1>2, <1>3, <1>4, <1>5, <1>6, <1>7, <1>8, <1>9, <1>10, <1>11, <1>12, <1>13, <1>14,
       <1>15, <1>16, <1>17, <1>18, <1>19, <1>20, <1>21, <1>22, <1>23, <1>24, <1>25, <1>26, <1>27,
       <1>28, <1>29 DEF Next, WorkerNext, ProcessNext, MainNext

\* A worker starts its runs in order and leaves a run only when it has ended: an
\* exit, a time limit, a broken gate or the shutdown comes before the next start.
LEMMA OrderedStep ==
    ASSUME IInv, Next
    PROVE  RunsAreOrdered'
  <1>1. CASE UNCHANGED <<leader, outcome, kids, asked, run, wpc>>
    BY <1>1 DEF IInv, RunsAreOrdered, OrderedAt
  <1>2. ASSUME NEW m \in Msgs, Begin(m)
        PROVE  RunsAreOrdered'
    BY <1>2 DEF IInv, Busy, RunsAreOrdered, Begin, At, Goto, registry, procs, mains, history,
       OrderedAt
  <1>3. ASSUME NEW m \in Msgs, Start(m)
        PROVE  RunsAreOrdered'
    <2>1. CASE shuttingDown
      <3>1. UNCHANGED <<run, leader, outcome, kids, asked>>
        BY <1>3, <2>1 DEF Start, mains, history
      <3>2. \A k \in Msgs : wpc'[k] = wpc[k] \/ (wpc[k] \notin Busy /\ wpc'[k] \notin Busy)
        BY <1>3, <2>1 DEF IInv, TypeOK, Start, At, Goto, Busy
      <3>. QED
        BY <3>1, <3>2, RunsAreRuns DEF IInv, RunsAreOrdered, OrderedAt
    <2>2. CASE ~ shuttingDown
      <3>. SUFFICES ASSUME NEW q \in Runs
                    PROVE  OrderedAt(q)'
        BY DEF RunsAreOrdered
      <3>1. OrderedAt(q) /\ q[1] \in Msgs /\ q[2] \in Nat /\ run[q[1]] \in Nat /\ q = <<q[1], q[2]>>
        BY RunsAreRuns DEF IInv, RunsAreOrdered, TypeOK
      <3>2. outcome' = outcome /\ kids' = kids /\ asked' = asked
        BY <1>3 DEF Start, history
      <3>3. CASE q[1] # m
        <4>1. leader'[q] = leader[q] /\ run'[q[1]] = run[q[1]] /\ wpc'[q[1]] = wpc[q[1]]
          BY <1>3, <2>2, <3>1, <3>3 DEF IInv, TypeOK, Start, Set, Goto
        <4>. QED
          BY <3>1, <3>2, <4>1 DEF OrderedAt
      <3>4. CASE q[1] = m
        <4>1. wpc[m] = "start" /\ wpc'[m] = "gate" /\ run'[m] = run[m] + 1
          BY <1>3, <2>2 DEF IInv, TypeOK, Start, At, Goto
        <4>2. CASE q[2] = run[m] + 1
          <5>1. leader'[q] = "gated"
            BY <1>3, <2>2, <3>1, <3>4, <4>1, <4>2 DEF IInv, TypeOK, Start, Set
          <5>. QED
            BY <3>1, <3>2, <3>4, <4>1, <4>2, <5>1 DEF OrderedAt, Busy
        <4>3. CASE q[2] # run[m] + 1
          <5>1. leader'[q] = leader[q]
            BY <1>3, <2>2, <3>1, <3>4, <4>1, <4>3 DEF IInv, TypeOK, Start, Set
          <5>. QED
            BY <3>1, <3>2, <3>4, <4>1, <4>3, <5>1 DEF OrderedAt, Busy
        <4>. QED
          BY <4>2, <4>3
      <3>. QED
        BY <3>3, <3>4
    <2>. QED
      BY <2>1, <2>2
  <1>4. ASSUME NEW m \in Msgs, OpenGate(m)
        PROVE  RunsAreOrdered'
    BY <1>4 DEF IInv, TypeOK, Ended, Busy, RunsAreOrdered, OpenGate, At, Goto, registry, procs,
       mains, history, OrderedAt
  <1>5. ASSUME NEW m \in Msgs, GateBreaks(m)
        PROVE  RunsAreOrdered'
    BY <1>5, RunsAreRuns DEF IInv, TypeOK, Ended, Busy, RunsAreOrdered, GateBreaks, At, Goto, Set,
       Cur, registry, mains, history, OrderedAt
  <1>6. ASSUME NEW m \in Msgs, StartFailed(m)
        PROVE  RunsAreOrdered'
    BY <1>6, RunsAreRuns DEF IInv, TypeOK, Busy, RunsAreOrdered, StartFailed, At, Goto, Set, Cur,
       procs, mains, OrderedAt
  <1>7. ASSUME NEW m \in Msgs, NoticeExit(m)
        PROVE  RunsAreOrdered'
    <2>. SUFFICES ASSUME NEW q \in Runs
                  PROVE  OrderedAt(q)'
      BY DEF RunsAreOrdered
    <2>1. OrderedAt(q) /\ q[1] \in Msgs /\ q[2] \in Nat /\ run[q[1]] \in Nat /\ q = <<q[1], q[2]>>
      BY RunsAreRuns DEF IInv, RunsAreOrdered, TypeOK
    <2>2. leader' = leader /\ outcome' = outcome /\ run' = run /\ asked' = asked /\ kids' = kids \ {Cur(m)}
      BY <1>7 DEF NoticeExit, history
    <2>3. wpc[m] = "wait" /\ wpc'[m] \in {"forget", "unregister"} /\ leader[Cur(m)] \in Ended
      BY <1>7 DEF IInv, TypeOK, NoticeExit, AfterExit, At, Goto, Ended
    <2>4. CASE q[1] # m
      <3>1. wpc'[q[1]] = wpc[q[1]] /\ (q \in kids' <=> q \in kids)
        BY <1>7, <2>1, <2>2, <2>4 DEF IInv, NoticeExit, Goto, Cur
      <3>. QED
        BY <2>1, <2>2, <3>1 DEF OrderedAt
    <2>5. CASE q[1] = m
      <3>1. q[2] = run[m] <=> q = Cur(m)
        BY <2>1, <2>5 DEF Cur
      <3>. QED
        BY <2>1, <2>2, <2>3, <2>5, <3>1 DEF OrderedAt, Busy
    <2>. QED
      BY <2>4, <2>5
  <1>8. ASSUME NEW m \in Msgs, Timeout(m)
        PROVE  RunsAreOrdered'
    BY <1>8, RunsAreRuns DEF IInv, TypeOK, Ended, Busy, RunsAreOrdered, Timeout, At, Goto, Set, Cur,
       registry, mains, history, OrderedAt
  <1>9. ASSUME NEW m \in Msgs, Forget(m)
        PROVE  RunsAreOrdered'
    BY <1>9 DEF IInv, Busy, RunsAreOrdered, Forget, At, Goto, procs, mains, history, OrderedAt
  <1>10. ASSUME NEW m \in Msgs, Unregister(m)
        PROVE  RunsAreOrdered'
    <2>. SUFFICES ASSUME NEW q \in Runs
                  PROVE  OrderedAt(q)'
      BY DEF RunsAreOrdered
    <2>1. OrderedAt(q) /\ q[1] \in Msgs /\ q[2] \in Nat /\ run[q[1]] \in Nat /\ q = <<q[1], q[2]>>
      BY RunsAreRuns DEF IInv, RunsAreOrdered, TypeOK
    <2>2. leader' = leader /\ kids' = kids /\ run' = run /\ asked' = asked
      BY <1>10 DEF Unregister, procs
    <2>3. CASE q[1] # m
      <3>1. outcome'[q] = outcome[q] /\ wpc'[q[1]] = wpc[q[1]]
        BY <1>10, <2>1, <2>3 DEF IInv, Unregister, Set, Cur, Goto
      <3>. QED
        BY <2>1, <2>2, <3>1 DEF OrderedAt
    <2>4. CASE q[1] = m
      <3>1. wpc[m] = "unregister" /\ wpc'[m] = "remove"
        BY <1>10 DEF IInv, TypeOK, Unregister, At, Goto
      <3>2. CASE q = Cur(m)
        <4>1. outcome'[q] # "none"
          BY <1>10, <3>2, ResultIsFinal DEF IInv, TypeOK, Unregister, Set
        <4>. QED
          BY <2>1, <2>2, <2>4, <3>1, <3>2, <4>1 DEF OrderedAt, Cur, Busy
      <3>3. CASE q # Cur(m)
        <4>1. outcome'[q] = outcome[q] /\ q[2] # run[m]
          BY <1>10, <2>1, <2>4, <3>3 DEF IInv, Unregister, Set, Cur
        <4>. QED
          BY <2>1, <2>2, <2>4, <4>1 DEF OrderedAt
      <3>. QED
        BY <3>2, <3>3
    <2>. QED
      BY <2>3, <2>4
  <1>11. ASSUME NEW m \in Msgs, Remove(m)
        PROVE  RunsAreOrdered'
    BY <1>11 DEF IInv, Busy, RunsAreOrdered, Remove, At, Goto, registry, procs, mains, history,
       OrderedAt
  <1>12. ASSUME NEW r \in Runs, PassGate(r)
        PROVE  RunsAreOrdered'
    BY <1>12 DEF IInv, Alive, Ended, RunsAreOrdered, PassGate, Set, registry, workers, mains,
       history, OrderedAt
  <1>13. ASSUME NEW r \in Runs, Exit(r)
        PROVE  RunsAreOrdered'
    BY <1>13 DEF IInv, Ended, RunsAreOrdered, Exit, Set, registry, workers, mains, history,
       OrderedAt
  <1>14. ASSUME NEW r \in Runs, DieAtGate(r)
        PROVE  RunsAreOrdered'
    BY <1>14 DEF IInv, Ended, RunsAreOrdered, DieAtGate, Set, registry, workers, mains, history,
       OrderedAt
  <1>15. ASSUME Interrupt
        PROVE  RunsAreOrdered'
    BY <1>15 DEF IInv, Alive, Ended, RunsAreOrdered, Interrupt, workers, OrderedAt
  <1>16. ASSUME InterruptTooLate
        PROVE  RunsAreOrdered'
    BY <1>16, RunsAreRuns DEF IInv, Ended, RunsAreOrdered, InterruptTooLate, procs, workers,
       OrderedAt
  <1>17. ASSUME NEW r \in Runs, KillOne(r)
        PROVE  RunsAreOrdered'
    BY <1>17 DEF IInv, Alive, Ended, RunsAreOrdered, KillOne, workers, history, OrderedAt
  <1>. QED
    BY <1>1, <1>2, <1>3, <1>4, <1>5, <1>6, <1>7, <1>8, <1>9, <1>10, <1>11, <1>12, <1>13, <1>14,
       <1>15, <1>16, <1>17 DEF Next, WorkerNext, ProcessNext, MainNext, ReadSidecar, Steer,
       SteerPutOff, Append, AppendFails, Confirm, SteerRefused, Stop, BeginShutdown, Deadline,
       ClearRegistry, Join, history, mains, procs, registry, workers

\* No entry of the registry outlives its run: the worker passes Unregister or
\* StartFailed on every way out, or the shutdown has cleared the registry.
LEMMA CurrentStep ==
    ASSUME IInv, Next
    PROVE  RegistryIsCurrent'
  <1>1. CASE UNCHANGED <<wpc, run, active, interrupts, shuttingDown, asked>>
    BY <1>1 DEF IInv, RegistryIsCurrent, CurrentAt
  <1>2. ASSUME NEW m \in Msgs, Begin(m)
        PROVE  RegistryIsCurrent'
    BY <1>2 DEF IInv, Busy, RegistryIsCurrent, Begin, At, Goto, registry, procs, mains, history,
       CurrentAt
  <1>3. ASSUME NEW m \in Msgs, Start(m)
        PROVE  RegistryIsCurrent'
    BY <1>3 DEF IInv, TypeOK, Busy, RegistryIsCurrent, Start, At, Goto, Set, Registered, mains,
       history, CurrentAt
  <1>4. ASSUME NEW m \in Msgs, OpenGate(m)
        PROVE  RegistryIsCurrent'
    BY <1>4 DEF IInv, Busy, RegistryIsCurrent, OpenGate, At, Goto, registry, procs, mains, history,
       CurrentAt
  <1>5. ASSUME NEW m \in Msgs, GateBreaks(m)
        PROVE  RegistryIsCurrent'
    BY <1>5 DEF IInv, Busy, RegistryIsCurrent, GateBreaks, At, Goto, registry, mains, history,
       CurrentAt
  <1>6. ASSUME NEW m \in Msgs, StartFailed(m)
        PROVE  RegistryIsCurrent'
    BY <1>6 DEF IInv, TypeOK, Busy, RegistryIsCurrent, StartFailed, Goto, Cur, Without, procs,
       mains, CurrentAt
  <1>7. ASSUME NEW m \in Msgs, NoticeExit(m)
        PROVE  RegistryIsCurrent'
    BY <1>7 DEF IInv, Busy, RegistryIsCurrent, NoticeExit, At, Goto, AfterExit, registry, mains,
       history, CurrentAt
  <1>8. ASSUME NEW m \in Msgs, Timeout(m)
        PROVE  RegistryIsCurrent'
    BY <1>8 DEF IInv, Busy, RegistryIsCurrent, Timeout, At, Goto, registry, mains, history,
       CurrentAt
  <1>9. ASSUME NEW m \in Msgs, Forget(m)
        PROVE  RegistryIsCurrent'
    BY <1>9 DEF IInv, Busy, RegistryIsCurrent, Forget, At, Goto, Cur, Without, procs, mains,
       history, CurrentAt
  <1>10. ASSUME NEW m \in Msgs, Unregister(m)
        PROVE  RegistryIsCurrent'
    BY <1>10 DEF IInv, TypeOK, Busy, RegistryIsCurrent, Unregister, At, Goto, Cur, Without, procs,
       mains, CurrentAt
  <1>11. ASSUME NEW m \in Msgs, Remove(m)
        PROVE  RegistryIsCurrent'
    <2>. SUFFICES ASSUME NEW k \in Msgs
                  PROVE  CurrentAt(k)'
      BY DEF RegistryIsCurrent
    <2>. QED
      BY <1>11 DEF IInv, Busy, RegistryIsCurrent, Remove, At, Goto, registry, procs, mains, history,
         CurrentAt
  <1>12. ASSUME Interrupt
        PROVE  RegistryIsCurrent'
    BY <1>12 DEF IInv, TypeOK, RegistryIsCurrent, Interrupt, Set, workers, CurrentAt
  <1>13. ASSUME InterruptTooLate
        PROVE  RegistryIsCurrent'
    <2>. SUFFICES ASSUME NEW k \in Msgs
                  PROVE  CurrentAt(k)'
      BY DEF RegistryIsCurrent
    <2>. QED
      BY <1>13 DEF IInv, TypeOK, RegistryIsCurrent, InterruptTooLate, Set, procs, workers,
         CurrentAt, MainIsPlaced
  <1>14. ASSUME BeginShutdown
        PROVE  RegistryIsCurrent'
    BY <1>14 DEF IInv, RegistryIsCurrent, BeginShutdown, procs, workers, history, CurrentAt
  <1>15. ASSUME NEW r \in Runs, KillOne(r)
        PROVE  RegistryIsCurrent'
    BY <1>15 DEF IInv, RegistryIsCurrent, KillOne, Without, workers, history, CurrentAt,
       MainIsPlaced
  <1>16. ASSUME ClearRegistry
        PROVE  RegistryIsCurrent'
    BY <1>16 DEF IInv, RegistryIsCurrent, ClearRegistry, procs, workers, history, CurrentAt,
       MainIsPlaced
  <1>. QED
    BY <1>1, <1>2, <1>3, <1>4, <1>5, <1>6, <1>7, <1>8, <1>9, <1>10, <1>11, <1>12, <1>13, <1>14,
       <1>15, <1>16 DEF Next, WorkerNext, ProcessNext, MainNext, PassGate, ReadSidecar, Exit,
       DieAtGate, Steer, SteerPutOff, Append, AppendFails, Confirm, SteerRefused, Stop, Deadline, Join,
       history, mains, procs, registry, workers

\* The lock keeps the registration the main thread serves, since each step that
\* removes one waits for LockFree.
LEMMA PlacedStep ==
    ASSUME IInv, Next
    PROVE  MainIsPlaced'
  <1>1. CASE UNCHANGED <<mpc, target, active, status, shuttingDown, snapshot>>
    BY <1>1 DEF IInv, MainIsPlaced
  <1>2. ASSUME NEW m \in Msgs, Start(m)
        PROVE  MainIsPlaced'
    BY <1>2 DEF IInv, MainIsPlaced, Start, Up, LockFree, mains, history
  <1>3. ASSUME NEW m \in Msgs, StartFailed(m)
        PROVE  MainIsPlaced'
    BY <1>3 DEF IInv, MainIsPlaced, StartFailed, Up, LockFree, procs, mains
  <1>4. ASSUME NEW m \in Msgs, Forget(m)
        PROVE  MainIsPlaced'
    BY <1>4 DEF IInv, MainIsPlaced, Forget, Up, LockFree, procs, mains, history
  <1>5. ASSUME NEW m \in Msgs, Unregister(m)
        PROVE  MainIsPlaced'
    BY <1>5 DEF IInv, MainIsPlaced, Unregister, Up, LockFree, procs, mains
  <1>6. ASSUME NEW s \in Steers, NEW m \in Msgs, Steer(s, m)
        PROVE  MainIsPlaced'
    BY <1>6, RunsAreRuns DEF IInv, MainIsPlaced, Steer, registry, procs, workers, history
  <1>7. ASSUME SteerPutOff
        PROVE  MainIsPlaced'
    BY <1>7 DEF IInv, MainIsPlaced, SteerPutOff, Served, registry, procs, workers, history
  <1>8. ASSUME Append
        PROVE  MainIsPlaced'
    BY <1>8 DEF IInv, TypeOK, MainIsPlaced, Append, Bounded, Set, registry, procs, workers
  <1>9. ASSUME AppendFails
        PROVE  MainIsPlaced'
    BY <1>9 DEF IInv, MainIsPlaced, AppendFails, Served, registry, procs, workers, history
  <1>10. ASSUME Interrupt
        PROVE  MainIsPlaced'
    BY <1>10 DEF IInv, MainIsPlaced, Interrupt, workers
  <1>11. ASSUME InterruptTooLate
        PROVE  MainIsPlaced'
    BY <1>11 DEF IInv, MainIsPlaced, InterruptTooLate, Served, procs, workers
  <1>12. ASSUME Confirm
        PROVE  MainIsPlaced'
    BY <1>12 DEF IInv, MainIsPlaced, Confirm, Served, registry, procs, workers, history
  <1>13. ASSUME SteerRefused
        PROVE  MainIsPlaced'
    BY <1>13 DEF IInv, MainIsPlaced, SteerRefused, Served, registry, procs, workers, history
  <1>14. ASSUME Stop
        PROVE  MainIsPlaced'
    BY <1>14 DEF IInv, MainIsPlaced, Stop, registry, procs, workers, history
  <1>15. ASSUME BeginShutdown
        PROVE  MainIsPlaced'
    BY <1>15 DEF IInv, MainIsPlaced, BeginShutdown, procs, workers, history
  <1>16. ASSUME NEW r \in Runs, KillOne(r)
        PROVE  MainIsPlaced'
    BY <1>16 DEF IInv, MainIsPlaced, KillOne, workers, history
  <1>17. ASSUME Deadline
        PROVE  MainIsPlaced'
    BY <1>17 DEF IInv, MainIsPlaced, Deadline, registry, procs, workers, history
  <1>18. ASSUME ClearRegistry
        PROVE  MainIsPlaced'
    BY <1>18 DEF IInv, MainIsPlaced, ClearRegistry, procs, workers, history
  <1>19. ASSUME Join
        PROVE  MainIsPlaced'
    BY <1>19 DEF IInv, MainIsPlaced, Join, registry, procs, workers, history
  <1>. QED
    BY <1>1, <1>2, <1>3, <1>4, <1>5, <1>6, <1>7, <1>8, <1>9, <1>10, <1>11, <1>12, <1>13, <1>14,
       <1>15, <1>16, <1>17, <1>18, <1>19 DEF Next, WorkerNext, ProcessNext, MainNext, Begin, OpenGate,
       GateBreaks, NoticeExit, Timeout, Remove, PassGate, ReadSidecar, Exit, DieAtGate, history, mains,
       procs, registry, workers

\* SHUTTING_DOWN is set with the list read, under the lock: no process is
\* registered later, and each that lives until then is on the list.
LEMMA ListedStep ==
    ASSUME IInv, Next
    PROVE  AliveIsListed'
  <1>1. CASE UNCHANGED <<shuttingDown, stopped, leader, kids, snapshot>>
    BY <1>1 DEF IInv, AliveIsListed
  <1>2. ASSUME NEW m \in Msgs, Start(m)
        PROVE  AliveIsListed'
    BY <1>2 DEF IInv, AliveIsListed, Start, mains, history
  <1>3. ASSUME NEW m \in Msgs, GateBreaks(m)
        PROVE  AliveIsListed'
    BY <1>3 DEF IInv, Alive, Ended, AliveIsListed, GateBreaks, Set, registry, mains, history
  <1>4. ASSUME NEW m \in Msgs, NoticeExit(m)
        PROVE  AliveIsListed'
    BY <1>4 DEF IInv, AliveIsListed, NoticeExit, AfterExit, registry, mains, history
  <1>5. ASSUME NEW m \in Msgs, Timeout(m)
        PROVE  AliveIsListed'
    BY <1>5 DEF IInv, AliveIsListed, Timeout, Set, registry, mains, history
  <1>6. ASSUME NEW r \in Runs, PassGate(r)
        PROVE  AliveIsListed'
    BY <1>6 DEF IInv, TypeOK, Ended, AliveIsListed, PassGate, Set, registry, workers, mains, history
  <1>7. ASSUME NEW r \in Runs, Exit(r)
        PROVE  AliveIsListed'
    BY <1>7 DEF IInv, TypeOK, Ended, AliveIsListed, Exit, Set, registry, workers, mains, history
  <1>8. ASSUME NEW r \in Runs, DieAtGate(r)
        PROVE  AliveIsListed'
    BY <1>8 DEF IInv, TypeOK, Ended, AliveIsListed, DieAtGate, Set, registry, workers, mains,
       history
  <1>9. ASSUME BeginShutdown
        PROVE  AliveIsListed'
    <2>. SUFFICES ASSUME NEW q \in Runs, leader[q] \in Alive \/ q \in kids
                  PROVE  q \in snapshot'
      BY <1>9 DEF AliveIsListed, BeginShutdown, procs
    <2>1. q[1] \in Msgs /\ q[2] # 0 /\ q = <<q[1], q[2]>> /\ q[2] \in Nat /\ run[q[1]] \in Nat
      BY RunsAreRuns DEF IInv, TypeOK
    <2>2. q[2] = run[q[1]] /\ wpc[q[1]] \in {"gate", "wait"}
      BY <2>1 DEF IInv, RunsAreOrdered, OrderedAt, Alive, Ended
    <2>3. active[q[1]] = q[2]
      BY <1>9, <2>1, <2>2 DEF IInv, RegistryIsCurrent, CurrentAt, MainIsPlaced, BeginShutdown
    <2>. QED
      BY <1>9, <2>1, <2>3 DEF BeginShutdown
  <1>10. ASSUME NEW r \in Runs, KillOne(r)
        PROVE  AliveIsListed'
    BY <1>10 DEF IInv, TypeOK, Alive, Ended, AliveIsListed, KillOne, workers, history
  <1>11. ASSUME Deadline
        PROVE  AliveIsListed'
    BY <1>11 DEF IInv, AliveIsListed, Deadline, registry, procs, workers, history
  <1>. QED
    BY <1>1, <1>2, <1>3, <1>4, <1>5, <1>6, <1>7, <1>8, <1>9, <1>10, <1>11 DEF Next, WorkerNext,
       ProcessNext, MainNext, Begin, OpenGate, StartFailed, Forget, Unregister, Remove, ReadSidecar,
       Steer, SteerPutOff, Append, AppendFails, Interrupt, InterruptTooLate, Confirm, SteerRefused,
       Stop, ClearRegistry, Join, Served, history, mains, procs, registry, workers

\* An acknowledged interrupt stays noted until its run has an outcome: Forget
\* takes the process from the registry and leaves the interrupt.
LEMMA AckedStep ==
    ASSUME IInv, Next
    PROVE  AckedIsNoted'
  <1>1. CASE UNCHANGED <<acked, outcome, shuttingDown, interrupts>>
    BY <1>1 DEF IInv, AckedIsNoted
  <1>2. ASSUME NEW m \in Msgs, Start(m)
        PROVE  AckedIsNoted'
    BY <1>2, RunsAreRuns DEF IInv, TypeOK, Busy, AckedIsNoted, Start, At, Registered, mains,
       history, RegistryIsCurrent, CurrentAt
  <1>3. ASSUME NEW m \in Msgs, StartFailed(m)
        PROVE  AckedIsNoted'
    BY <1>3, RunsAreRuns DEF IInv, TypeOK, AckedIsNoted, StartFailed, Set, Cur, Without, procs,
       mains
  <1>4. ASSUME NEW m \in Msgs, Unregister(m)
        PROVE  AckedIsNoted'
    <2>. SUFFICES ASSUME NEW q \in acked', outcome'[q] = "none", ~ shuttingDown'
                  PROVE  interrupts'[q[1]] = q[2]
      BY DEF AckedIsNoted
    <2>1. q \in acked /\ q \in Runs /\ ~ shuttingDown
      BY <1>4 DEF IInv, TypeOK, Unregister, mains
    <2>2. Cur(m) \in Runs /\ outcome'[Cur(m)] # "none"
      <3>1. run[m] \in 1 .. MaxRuns
        <4>1. run[m] # 0
          BY <1>4 DEF IInv, RegistryIsCurrent, CurrentAt, Busy, Unregister, At
        <4>2. run[m] \in 0 .. MaxRuns
          BY DEF IInv, TypeOK
        <4>. QED
          BY <4>1, <4>2
      <3>2. Cur(m) \in Runs
        BY <3>1, RunsAreRuns DEF Cur
      <3>3. outcome'[Cur(m)] = Result(m)
        BY <1>4, <3>2 DEF IInv, TypeOK, Unregister, Set
      <3>. QED
        BY <3>2, <3>3, ResultIsFinal
    <2>3. q # Cur(m) /\ outcome[q] = "none"
      BY <1>4, <2>1, <2>2 DEF IInv, Unregister, Set
    <2>4. interrupts[q[1]] = q[2]
      BY <2>1, <2>3 DEF IInv, AckedIsNoted
    <2>5. q[1] # m
      BY <2>1, <2>3, <2>4, RunsAreRuns DEF IInv, RegistryIsCurrent, CurrentAt, Cur
    <2>. QED
      BY <1>4, <2>1, <2>4, <2>5 DEF IInv, Unregister, Without, Cur
  <1>5. ASSUME Interrupt
        PROVE  AckedIsNoted'
    BY <1>5, RunsAreRuns DEF IInv, TypeOK, AckedIsNoted, Interrupt, Set, workers, RegistryIsCurrent,
       CurrentAt, MainIsPlaced
  <1>6. ASSUME InterruptTooLate
        PROVE  AckedIsNoted'
    BY <1>6, RunsAreRuns DEF IInv, TypeOK, AckedIsNoted, InterruptTooLate, Set, procs, workers,
       RegistryIsCurrent, CurrentAt, MainIsPlaced
  <1>7. ASSUME BeginShutdown
        PROVE  AckedIsNoted'
    BY <1>7 DEF IInv, AckedIsNoted, BeginShutdown, procs, workers, history
  <1>8. ASSUME ClearRegistry
        PROVE  AckedIsNoted'
    BY <1>8 DEF IInv, AckedIsNoted, ClearRegistry, procs, workers, history, MainIsPlaced
  <1>. QED
    BY <1>1, <1>2, <1>3, <1>4, <1>5, <1>6, <1>7, <1>8 DEF Next, WorkerNext, ProcessNext, MainNext,
       Begin, OpenGate, GateBreaks, NoticeExit, Timeout, Forget, Remove, PassGate, ReadSidecar, Exit,
       DieAtGate, Steer, SteerPutOff, Append, AppendFails, Confirm, SteerRefused, Stop, KillOne,
       Deadline, Join, history, mains, procs, registry, workers

\* A turn gets the outcome interrupted only from an interrupt of its own run.
LEMMA AskedStep ==
    ASSUME IInv, Next
    PROVE  InterruptedWasAsked'
  <1>1. CASE UNCHANGED <<outcome, asked>>
    BY <1>1 DEF IInv, InterruptedWasAsked
  <1>2. ASSUME NEW m \in Msgs, StartFailed(m)
        PROVE  InterruptedWasAsked'
    BY <1>2 DEF IInv, InterruptedWasAsked, StartFailed, Set, procs, mains
  <1>3. ASSUME NEW m \in Msgs, Unregister(m)
        PROVE  InterruptedWasAsked'
    <2>. SUFFICES ASSUME NEW q \in Runs, outcome'[q] = "interrupted"
                  PROVE  q \in asked'
      BY DEF InterruptedWasAsked
    <2>1. CASE q = Cur(m)
      <3>1. Interrupted(m) /\ run[m] # 0
        BY <1>3, <2>1, ResultIsFinal DEF IInv, TypeOK, RegistryIsCurrent, CurrentAt, Busy,
           Unregister, At, Set
      <3>2. interrupts[m] = run[m]
        BY <3>1 DEF IInv, RegistryIsCurrent, CurrentAt, Interrupted
      <3>. QED
        BY <1>3, <2>1, <3>1, <3>2 DEF IInv, RegistryIsCurrent, CurrentAt, Unregister, Cur
    <2>2. CASE q # Cur(m)
      BY <1>3, <2>2 DEF IInv, InterruptedWasAsked, Unregister, Set
    <2>. QED
      BY <2>1, <2>2
  <1>4. ASSUME Interrupt
        PROVE  InterruptedWasAsked'
    BY <1>4 DEF IInv, InterruptedWasAsked, Interrupt, workers
  <1>5. ASSUME InterruptTooLate
        PROVE  InterruptedWasAsked'
    BY <1>5 DEF IInv, InterruptedWasAsked, InterruptTooLate, procs, workers
  <1>. QED
    BY <1>1, <1>2, <1>3, <1>4, <1>5 DEF Next, WorkerNext, ProcessNext, MainNext, Begin, Start,
       OpenGate, GateBreaks, NoticeExit, Timeout, Forget, Remove, PassGate, ReadSidecar, Exit,
       DieAtGate, Steer, SteerPutOff, Append, AppendFails, Confirm, SteerRefused, Stop, BeginShutdown,
       KillOne, Deadline, ClearRegistry, Join, history, mains, procs, registry, workers

\* A run whose interruption was acknowledged gets no answer but in a shutdown.
LEMMA HonouredStep ==
    ASSUME IInv, Next
    PROVE  InterruptIsHonoured'
  <1>1. CASE UNCHANGED <<acked, outcome, shuttingDown>>
    BY <1>1 DEF IInv, InterruptIsHonoured
  <1>2. ASSUME NEW m \in Msgs, StartFailed(m)
        PROVE  InterruptIsHonoured'
    BY <1>2 DEF IInv, InterruptIsHonoured, StartFailed, Set, procs, mains
  <1>3. ASSUME NEW m \in Msgs, Unregister(m)
        PROVE  InterruptIsHonoured'
    BY <1>3 DEF IInv, TypeOK, Busy, InterruptIsHonoured, Unregister, At, Set, Cur, procs, mains,
       RunsAreOrdered, OrderedAt, AckedIsNoted, Result, Interrupted
  <1>4. ASSUME Interrupt
        PROVE  InterruptIsHonoured'
    <2>. DEFINE r == <<target[2], active[target[2]]>>
    <2>1. r \in Runs /\ leader[r] \in Alive /\ acked' = acked \cup {r} /\ outcome' = outcome /\ shuttingDown' = shuttingDown
      BY <1>4, ServedIsCurrent DEF Interrupt
    <2>2. outcome[r] = "none"
      BY <1>4, <2>1, ServedIsCurrent DEF IInv, RunsAreOrdered, OrderedAt, Interrupt
    <2>. QED
      BY <2>1, <2>2 DEF IInv, InterruptIsHonoured
  <1>5. ASSUME BeginShutdown
        PROVE  InterruptIsHonoured'
    BY <1>5 DEF IInv, InterruptIsHonoured, BeginShutdown, procs, workers, history
  <1>. QED
    BY <1>1, <1>2, <1>3, <1>4, <1>5 DEF Next, WorkerNext, ProcessNext, MainNext, Begin, Start,
       OpenGate, GateBreaks, NoticeExit, Timeout, Forget, Remove, PassGate, ReadSidecar, Exit,
       DieAtGate, Steer, SteerPutOff, Append, AppendFails, InterruptTooLate, Confirm, SteerRefused,
       Stop, KillOne, Deadline, ClearRegistry, Join, history, mains, procs, registry, workers

\* A sidecar holds records of the current run, or of one that was not started,
\* since Remove empties it after every run in which Hermes ran.
LEMMA RecordsStep ==
    ASSUME IInv, Next
    PROVE  RecordsAreCurrent'
  <1>1. CASE UNCHANGED <<sidecar, fedTo, run, wpc, outcome>>
    BY <1>1 DEF IInv, RecordsAreCurrent, RecordAt
  <1>2. ASSUME NEW m \in Msgs, Begin(m)
        PROVE  RecordsAreCurrent'
    BY <1>2 DEF IInv, RecordsAreCurrent, Begin, At, Goto, registry, procs, mains, history, RecordAt
  <1>3. ASSUME NEW m \in Msgs, Start(m)
        PROVE  RecordsAreCurrent'
    BY <1>3 DEF IInv, TypeOK, RecordsAreCurrent, Start, At, Goto, mains, history, RecordAt
  <1>4. ASSUME NEW m \in Msgs, OpenGate(m)
        PROVE  RecordsAreCurrent'
    BY <1>4 DEF IInv, RecordsAreCurrent, OpenGate, Goto, registry, procs, mains, history, RecordAt
  <1>5. ASSUME NEW m \in Msgs, GateBreaks(m)
        PROVE  RecordsAreCurrent'
    BY <1>5 DEF IInv, RecordsAreCurrent, GateBreaks, Goto, registry, mains, history, RecordAt
  <1>6. ASSUME NEW m \in Msgs, StartFailed(m)
        PROVE  RecordsAreCurrent'
    BY <1>6, RunsAreRuns DEF IInv, TypeOK, RecordsAreCurrent, StartFailed, Goto, Set, Cur, procs,
       mains, RecordAt
  <1>7. ASSUME NEW m \in Msgs, NoticeExit(m)
        PROVE  RecordsAreCurrent'
    BY <1>7 DEF IInv, RecordsAreCurrent, NoticeExit, Goto, AfterExit, registry, mains, history,
       RecordAt
  <1>8. ASSUME NEW m \in Msgs, Timeout(m)
        PROVE  RecordsAreCurrent'
    BY <1>8 DEF IInv, RecordsAreCurrent, Timeout, Goto, registry, mains, history, RecordAt
  <1>9. ASSUME NEW m \in Msgs, Forget(m)
        PROVE  RecordsAreCurrent'
    BY <1>9 DEF IInv, RecordsAreCurrent, Forget, Goto, procs, mains, history, RecordAt
  <1>10. ASSUME NEW m \in Msgs, Unregister(m)
        PROVE  RecordsAreCurrent'
    BY <1>10 DEF IInv, RecordsAreCurrent, Unregister, At, Goto, Set, Cur, procs, mains, RecordAt
  <1>11. ASSUME NEW m \in Msgs, Remove(m)
        PROVE  RecordsAreCurrent'
    <2>. SUFFICES ASSUME NEW k \in Msgs, NEW t \in Steers
                  PROVE  RecordAt(k, t)'
      BY DEF RecordsAreCurrent
    <2>. QED
      BY <1>11 DEF IInv, TypeOK, RecordsAreCurrent, Remove, Goto, Set, registry, procs, mains,
         history, RecordAt
  <1>12. ASSUME Append
        PROVE  RecordsAreCurrent'
    <2>. SUFFICES ASSUME NEW k \in Msgs, NEW t \in Steers, t \in sidecar'[k]
                  PROVE  RecordAt(k, t)'
      BY DEF RecordsAreCurrent, RecordAt
    <2>. DEFINE r == <<target[2], active[target[2]]>>
    <2>1. /\ target[1] \in Steers /\ target[2] \in Msgs /\ r \in Runs /\ r # None
          /\ active[target[2]] = run[target[2]] /\ wpc[target[2]] \in Busy
          /\ fedTo[target[1]] = None
      BY <1>12, ServedIsCurrent, RunsAreRuns DEF IInv, MainIsPlaced, FedIsPast, FedAt, Append
    <2>2. UNCHANGED <<run, wpc, outcome>> /\ fedTo' = [fedTo EXCEPT ![target[1]] = r]
      BY <1>12 DEF Append, workers, Set
    <2>3. sidecar' = [sidecar EXCEPT ![target[2]] = sidecar[target[2]] \cup {target[1]}]
      BY <1>12 DEF Append, Bounded, Set
    <2>4. fedTo'[t] = IF t = target[1] THEN r ELSE fedTo[t]
      BY <2>1, <2>2 DEF IInv, TypeOK
    <2>5. sidecar'[k] = IF k = target[2] THEN sidecar[k] \cup {target[1]} ELSE sidecar[k]
      BY <2>1, <2>3 DEF IInv, TypeOK
    <2>6. t # target[1] => t \in sidecar[k]
      BY <2>5
    <2>7. target[1] \notin sidecar[k]
      BY <2>1 DEF IInv, RecordsAreCurrent, RecordAt
    <2>8. CASE t = target[1]
      BY <2>1, <2>2, <2>4, <2>5, <2>7, <2>8 DEF RecordAt, Busy
    <2>9. CASE t # target[1]
      BY <2>2, <2>4, <2>6, <2>9 DEF IInv, RecordsAreCurrent, RecordAt
    <2>. QED
      BY <2>8, <2>9
  <1>. QED
    BY <1>1, <1>2, <1>3, <1>4, <1>5, <1>6, <1>7, <1>8, <1>9, <1>10, <1>11, <1>12 DEF Next,
       WorkerNext, ProcessNext, MainNext, PassGate, ReadSidecar, Exit, DieAtGate, Steer, SteerPutOff,
       AppendFails, Interrupt, InterruptTooLate, Confirm, SteerRefused, Stop, BeginShutdown, KillOne,
       Deadline, ClearRegistry, Join, history, mains, procs, registry, workers

\* A steering message is stored for a run that was started, once.
LEMMA FedStep ==
    ASSUME IInv, Next
    PROVE  FedIsPast'
  <1>1. CASE UNCHANGED <<fedTo, status, run, read>>
    BY <1>1 DEF IInv, FedIsPast, FedAt
  <1>2. ASSUME NEW m \in Msgs, Start(m)
        PROVE  FedIsPast'
    BY <1>2, RunsAreRuns DEF IInv, TypeOK, FedIsPast, Start, mains, history, FedAt
  <1>3. ASSUME NEW r \in Runs, ReadSidecar(r)
        PROVE  FedIsPast'
    BY <1>3, RunsAreRuns DEF IInv, FedIsPast, ReadSidecar, registry, procs, workers, mains, FedAt,
       RecordsAreCurrent, RecordAt
  <1>4. ASSUME SteerPutOff
        PROVE  FedIsPast'
    BY <1>4 DEF IInv, FedIsPast, SteerPutOff, Served, Set, registry, procs, workers, history, FedAt,
       MainIsPlaced
  <1>5. ASSUME Append
        PROVE  FedIsPast'
    <2>. SUFFICES ASSUME NEW t \in Steers
                  PROVE  FedAt(t)'
      BY DEF FedIsPast
    <2>. DEFINE r == <<target[2], active[target[2]]>>
    <2>1. /\ target[1] \in Steers /\ target[2] \in Msgs /\ r \in Runs /\ r # None
          /\ active[target[2]] = run[target[2]] /\ run[target[2]] \in Nat
      BY <1>5, ServedIsCurrent, RunsAreRuns DEF IInv, Append
    <2>2. UNCHANGED <<run, read>> /\ fedTo' = [fedTo EXCEPT ![target[1]] = r]
      BY <1>5 DEF Append, workers, Set
    <2>3. fedTo'[t] = IF t = target[1] THEN r ELSE fedTo[t]
      BY <2>1, <2>2 DEF IInv, TypeOK
    <2>4. status'[t] = IF t = target[1] THEN "stored" ELSE status[t]
      BY <1>5, <2>1 DEF IInv, TypeOK, Append, Set
    <2>5. CASE t = target[1]
      BY <2>1, <2>2, <2>3, <2>4, <2>5 DEF FedAt
    <2>6. CASE t # target[1]
      BY <2>2, <2>3, <2>4, <2>6 DEF IInv, FedIsPast, FedAt
    <2>. QED
      BY <2>5, <2>6
  <1>6. ASSUME AppendFails
        PROVE  FedIsPast'
    BY <1>6 DEF IInv, FedIsPast, AppendFails, Served, Set, registry, procs, workers, history, FedAt
  <1>7. ASSUME InterruptTooLate
        PROVE  FedIsPast'
    BY <1>7 DEF IInv, FedIsPast, InterruptTooLate, Served, Set, procs, workers, FedAt
  <1>8. ASSUME Confirm
        PROVE  FedIsPast'
    BY <1>8 DEF IInv, FedIsPast, Confirm, Served, Set, registry, procs, workers, history, FedAt,
       MainIsPlaced
  <1>9. ASSUME SteerRefused
        PROVE  FedIsPast'
    BY <1>9 DEF IInv, FedIsPast, SteerRefused, Served, Set, registry, procs, workers, history, FedAt
  <1>. QED
    BY <1>1, <1>2, <1>3, <1>4, <1>5, <1>6, <1>7, <1>8, <1>9 DEF Next, WorkerNext, ProcessNext,
       MainNext, Begin, OpenGate, GateBreaks, StartFailed, NoticeExit, Timeout, Forget, Unregister,
       Remove, PassGate, Exit, DieAtGate, Steer, Interrupt, Stop, BeginShutdown, KillOne, Deadline,
       ClearRegistry, Join, history, mains, procs, registry, workers

\* What a run reads is in the sidecar of its origin, hence its own or left by a
\* run that was not started.
LEMMA ReadStep ==
    ASSUME IInv, Next
    PROVE  NoRecordOfAFinishedTurn'
  <1>1. CASE UNCHANGED <<fedTo, read, outcome>>
    BY <1>1 DEF IInv, NoRecordOfAFinishedTurn
  <1>2. ASSUME NEW m \in Msgs, StartFailed(m)
        PROVE  NoRecordOfAFinishedTurn'
    BY <1>2 DEF IInv, NoRecordOfAFinishedTurn, StartFailed, Set, procs, mains
  <1>3. ASSUME NEW m \in Msgs, Unregister(m)
        PROVE  NoRecordOfAFinishedTurn'
    BY <1>3 DEF IInv, TypeOK, Busy, NoRecordOfAFinishedTurn, Unregister, At, Set, Cur, procs, mains,
       RunsAreOrdered, OrderedAt
  <1>4. ASSUME NEW r \in Runs, ReadSidecar(r)
        PROVE  NoRecordOfAFinishedTurn'
    <2>. SUFFICES ASSUME NEW q \in Runs, NEW t \in read'[q]
                  PROVE  fedTo[t] = q \/ (fedTo[t][1] = q[1] /\ outcome[fedTo[t]] = "unstarted")
      BY <1>4 DEF NoRecordOfAFinishedTurn, ReadSidecar
    <2>1. t \in read[q] \/ (q = r /\ t \in sidecar[r[1]])
      BY <1>4 DEF IInv, ReadSidecar
    <2>2. CASE t \in read[q]
      BY <2>2 DEF IInv, NoRecordOfAFinishedTurn
    <2>3. CASE q = r /\ t \in sidecar[r[1]]
      <3>1. r[1] \in Msgs /\ r[2] \in Nat /\ run[r[1]] \in Nat /\ t \in Steers
        BY <2>3, RunsAreRuns DEF IInv, TypeOK
      <3>2. fedTo[t] \in Runs /\ fedTo[t][1] = r[1] /\ (fedTo[t][2] = run[r[1]] \/ outcome[fedTo[t]] = "unstarted")
        BY <2>3, <3>1 DEF IInv, TypeOK, RecordsAreCurrent, RecordAt
      <3>3. leader[r] = "running" /\ OrderedAt(r)
        BY <1>4 DEF IInv, RunsAreOrdered, ReadSidecar
      <3>4. r[2] = run[r[1]]
        BY <3>1, <3>3 DEF OrderedAt, Ended
      <3>. QED
        BY <2>3, <3>2, <3>4, RunsAreRuns
    <2>. QED
      BY <2>1, <2>2, <2>3
  <1>5. ASSUME Append
        PROVE  NoRecordOfAFinishedTurn'
    BY <1>5 DEF IInv, TypeOK, NoRecordOfAFinishedTurn, Append, Bounded, Set, registry, procs,
       workers, FedIsPast, FedAt, MainIsPlaced
  <1>. QED
    BY <1>1, <1>2, <1>3, <1>4, <1>5 DEF Next, WorkerNext, ProcessNext, MainNext, Begin, Start,
       OpenGate, GateBreaks, NoticeExit, Timeout, Forget, Remove, PassGate, Exit, DieAtGate, Steer,
       SteerPutOff, AppendFails, Interrupt, InterruptTooLate, Confirm, SteerRefused, Stop,
       BeginShutdown, KillOne, Deadline, ClearRegistry, Join, history, mains, procs, registry, workers

\* Append adds to the records, and only Remove, after the end of the run, takes
\* any away.
LEMMA StoredStep ==
    ASSUME IInv, Next
    PROVE  StoredIsReadable'
  <1>1. CASE UNCHANGED <<status, leader, fedTo, sidecar>>
    BY <1>1 DEF IInv, StoredIsReadable
  <1>2. ASSUME NEW m \in Msgs, Start(m)
        PROVE  StoredIsReadable'
    BY <1>2 DEF IInv, TypeOK, StoredIsReadable, Start, Set, mains, history, FedIsPast, FedAt
  <1>3. ASSUME NEW m \in Msgs, GateBreaks(m)
        PROVE  StoredIsReadable'
    BY <1>3 DEF IInv, Alive, Ended, StoredIsReadable, GateBreaks, Set, registry, mains, history
  <1>4. ASSUME NEW m \in Msgs, Timeout(m)
        PROVE  StoredIsReadable'
    BY <1>4 DEF IInv, StoredIsReadable, Timeout, Set, registry, mains, history
  <1>5. ASSUME NEW m \in Msgs, Remove(m)
        PROVE  StoredIsReadable'
    <2>. SUFFICES ASSUME NEW t \in Steers, status[t] \in {"stored", "delivered"}, leader[fedTo[t]] \in Alive
                  PROVE  t \in sidecar'[fedTo[t][1]]
      BY <1>5 DEF StoredIsReadable, Remove, procs, mains, history
    <2>1. fedTo[t] \in Runs /\ t \in sidecar[fedTo[t][1]]
      BY DEF IInv, TypeOK, FedIsPast, FedAt, StoredIsReadable
    <2>2. fedTo[t][1] # m
      <3>1. OrderedAt(fedTo[t]) /\ fedTo[t][1] \in Msgs /\ fedTo[t][2] \in Nat /\ run[fedTo[t][1]] \in Nat
        BY <2>1, RunsAreRuns DEF IInv, TypeOK, RunsAreOrdered
      <3>2. wpc[fedTo[t][1]] \in Busy
        BY <3>1 DEF OrderedAt, Alive, Ended
      <3>. QED
        BY <1>5, <3>2 DEF Remove, At, Busy
    <2>. QED
      BY <1>5, <2>1, <2>2 DEF IInv, Remove, Set
  <1>6. ASSUME NEW r \in Runs, PassGate(r)
        PROVE  StoredIsReadable'
    BY <1>6 DEF IInv, TypeOK, Ended, StoredIsReadable, PassGate, Set, registry, workers, mains,
       history
  <1>7. ASSUME NEW r \in Runs, Exit(r)
        PROVE  StoredIsReadable'
    BY <1>7 DEF IInv, TypeOK, Ended, StoredIsReadable, Exit, Set, registry, workers, mains, history
  <1>8. ASSUME NEW r \in Runs, DieAtGate(r)
        PROVE  StoredIsReadable'
    BY <1>8 DEF IInv, TypeOK, Ended, StoredIsReadable, DieAtGate, Set, registry, workers, mains,
       history
  <1>9. ASSUME SteerPutOff
        PROVE  StoredIsReadable'
    BY <1>9 DEF IInv, StoredIsReadable, SteerPutOff, Served, Set, registry, procs, workers, history
  <1>10. ASSUME Append
        PROVE  StoredIsReadable'
    BY <1>10 DEF IInv, TypeOK, StoredIsReadable, Append, Bounded, Set, registry, procs, workers,
       MainIsPlaced
  <1>11. ASSUME AppendFails
        PROVE  StoredIsReadable'
    <2>. SUFFICES ASSUME NEW t \in Steers, status'[t] \in {"stored", "delivered"}, leader'[fedTo'[t]] \in Alive
                  PROVE  t \in sidecar'[fedTo'[t][1]]
      BY DEF StoredIsReadable
    <2>. QED
      BY <1>11 DEF IInv, StoredIsReadable, AppendFails, Served, Set, registry, procs, workers,
         history
  <1>12. ASSUME InterruptTooLate
        PROVE  StoredIsReadable'
    BY <1>12 DEF IInv, StoredIsReadable, InterruptTooLate, Served, Set, procs, workers
  <1>13. ASSUME Confirm
        PROVE  StoredIsReadable'
    BY <1>13 DEF IInv, StoredIsReadable, Confirm, Served, Set, registry, procs, workers, history,
       MainIsPlaced
  <1>14. ASSUME SteerRefused
        PROVE  StoredIsReadable'
    BY <1>14 DEF IInv, StoredIsReadable, SteerRefused, Served, Set, registry, procs, workers,
       history
  <1>15. ASSUME NEW r \in Runs, KillOne(r)
        PROVE  StoredIsReadable'
    BY <1>15 DEF IInv, StoredIsReadable, KillOne, workers, history
  <1>. QED
    BY <1>1, <1>2, <1>3, <1>4, <1>5, <1>6, <1>7, <1>8, <1>9, <1>10, <1>11, <1>12, <1>13, <1>14,
       <1>15 DEF Next, WorkerNext, ProcessNext, MainNext, Begin, OpenGate, StartFailed, NoticeExit,
       Forget, Unregister, ReadSidecar, Steer, Interrupt, Stop, BeginShutdown, Deadline, ClearRegistry,
       Join, history, mains, procs, registry, workers

-----------------------------------------------------------------------------
(***************************************************************************)
(* The theorems.                                                           *)
(***************************************************************************)
\* At the start nothing runs and nothing is registered.
LEMMA InitEstablishes ==
    ASSUME Init
    PROVE  IInv
  <1>1. TypeOK
    <2>1. active \in [Msgs -> 0 .. MaxRuns] /\ interrupts \in [Msgs -> 0 .. MaxRuns] /\ run \in [Msgs -> 0 .. MaxRuns]
      BY DEF Init
    <2>2. leader \in [Runs -> {"none"} \cup Alive \cup Ended] /\ wpc \in [Msgs -> WorkerPcs]
      BY DEF Init, WorkerPcs
    <2>3. fedTo \in [Steers -> Runs \cup {None}] /\ read \in [Runs -> SUBSET Steers] /\ sidecar \in [Msgs -> SUBSET Steers]
      BY DEF Init
    <2>4. mpc \in MainPcs /\ target \in (Steers \X Msgs) \cup {None}
      BY DEF Init, MainPcs
    <2>. QED
      BY <2>1, <2>2, <2>3, <2>4 DEF Init, TypeOK
  <1>2. RunsAreOrdered /\ RegistryIsCurrent
    BY RunsAreRuns DEF Init, RunsAreOrdered, OrderedAt, RegistryIsCurrent, CurrentAt, Busy
  <1>3. MainIsPlaced /\ AliveIsListed /\ AckedIsNoted
    BY DEF Init, MainIsPlaced, AliveIsListed, AckedIsNoted
  <1>4. InterruptedWasAsked /\ InterruptIsHonoured
    BY DEF Init, InterruptedWasAsked, InterruptIsHonoured
  <1>5. RecordsAreCurrent /\ FedIsPast /\ NoRecordOfAFinishedTurn /\ StoredIsReadable
    BY DEF Init, RecordsAreCurrent, RecordAt, FedIsPast, FedAt, NoRecordOfAFinishedTurn,
       StoredIsReadable
  <1>. QED
    BY <1>1, <1>2, <1>3, <1>4, <1>5 DEF IInv

\* A step that changes nothing keeps the invariant.
LEMMA StutterKeeps ==
    ASSUME IInv, UNCHANGED vars
    PROVE  IInv'
  <1>. USE DEF vars, registry, procs, workers, mains, history
  <1>1. TypeOK' /\ MainIsPlaced' /\ AliveIsListed'
    BY DEF IInv, TypeOK, MainIsPlaced, AliveIsListed
  <1>2. RunsAreOrdered' /\ RegistryIsCurrent'
    BY DEF IInv, RunsAreOrdered, OrderedAt, RegistryIsCurrent, CurrentAt
  <1>3. AckedIsNoted' /\ InterruptedWasAsked' /\ InterruptIsHonoured'
    BY DEF IInv, AckedIsNoted, InterruptedWasAsked, InterruptIsHonoured
  <1>4. RecordsAreCurrent' /\ FedIsPast'
    BY DEF IInv, RecordsAreCurrent, RecordAt, FedIsPast, FedAt
  <1>5. NoRecordOfAFinishedTurn' /\ StoredIsReadable'
    BY DEF IInv, NoRecordOfAFinishedTurn, StoredIsReadable
  <1>. QED
    BY <1>1, <1>2, <1>3, <1>4, <1>5 DEF IInv

\* The inductive invariant holds whatever the workers, the processes, the main
\* thread and the shutdown do, for any number of each.
THEOREM ActiveTurnInvariant == Spec => []IInv
  <1>1. Init => IInv
    BY InitEstablishes
  <1>2. ASSUME IInv, [Next]_vars
        PROVE  IInv'
    <2>1. CASE Next
      BY <1>2, <2>1, TypeStep, OrderedStep, CurrentStep, PlacedStep, ListedStep, AckedStep,
         AskedStep,
         HonouredStep, RecordsStep, FedStep, ReadStep, StoredStep DEF IInv
    <2>2. CASE UNCHANGED vars
      BY <1>2, <2>2, StutterKeeps
    <2>. QED
      BY <1>2, <2>1, <2>2
  <1>. QED
    BY <1>1, <1>2, PTL DEF Spec

\* The state stays well typed: no worker starts more runs than it may.
THEOREM TurnsStayValid == Spec => []TypeOK
  <1>1. IInv => TypeOK
    BY DEF IInv
  <1>. QED
    BY <1>1, ActiveTurnInvariant, PTL

\* After a shutdown that met its deadline no process of Hermes and no descendant
\* of one is left, however many there were and whatever the workers were doing.
THEOREM ShutdownKills == Spec => []StoppedMeansDead
  <1>1. IInv => StoppedMeansDead
    BY DEF IInv, TypeOK, MainIsPlaced, AliveIsListed, StoppedMeansDead
  <1>. QED
    BY <1>1, ActiveTurnInvariant, PTL

\* No turn is reported as interrupted unless its own process was asked to stop.
THEOREM InterruptsAreAsked == Spec => []InterruptedWasAsked
  <1>1. IInv => InterruptedWasAsked
    BY DEF IInv
  <1>. QED
    BY <1>1, ActiveTurnInvariant, PTL

\* No answer of a turn is used after its interruption was acknowledged.
THEOREM InterruptsAreHonoured == Spec => []InterruptIsHonoured
  <1>1. IInv => InterruptIsHonoured
    BY DEF IInv
  <1>. QED
    BY <1>1, ActiveTurnInvariant, PTL

\* No run reads the steering of a turn that Hermes has run and ended.
THEOREM TurnsReadTheirOwn == Spec => []NoRecordOfAFinishedTurn
  <1>1. IInv => NoRecordOfAFinishedTurn
    BY DEF IInv
  <1>. QED
    BY <1>1, ActiveTurnInvariant, PTL

\* Steering stored for a live run stays readable for as long as the run lives.
THEOREM StoredStaysReadable == Spec => []StoredIsReadable
  <1>1. IInv => StoredIsReadable
    BY DEF IInv
  <1>. QED
    BY <1>1, ActiveTurnInvariant, PTL

=============================================================================
