------------------------- MODULE ProcessLock_proofs -------------------------
(***************************************************************************)
(* Mutual exclusion of the process lock, for any number of processes and   *)
(* any number of crashes, failed calls and intrusions on the anchor.       *)
(***************************************************************************)
EXTENDS ProcessLock, TLAPS

USE LockAssumption

\* The lock directory is empty and nobody has asked.
LEMMA InitInv == Init => IInv
BY DEF Init, IInv, TypeOK, FilesAreLocked, HolderIsGuarded, HasFlock, Inodes, Pcs, Ended, Holding

\* Closing a descriptor takes a process out of every part of the invariant.
LEMMA CloseKeeps ==
    ASSUME IInv, NEW p \in Procs, NEW there \in {"start", "open", "missing", "unavailable", "failed"},
           Close(p, there), ends' \in 0 .. MaxEnds, UNCHANGED intrusions
    PROVE  IInv'
<1>1. TypeOK'
  BY DEF Close, Goto, IInv, TypeOK, Inodes, Pcs, Ended, Holding
<1>2. \A q \in Procs : q # p => pc'[q] = pc[q] /\ fd'[q] = fd[q] /\ (q \in locked' <=> q \in locked)
  BY DEF Close, Goto, IInv, TypeOK
<1>3. pc'[p] = there /\ fd'[p] = 0 /\ p \notin locked'
  BY DEF Close, Goto, IInv, TypeOK
<1>4. FilesAreLocked'
  BY <1>2, <1>3 DEF Close, IInv, TypeOK, FilesAreLocked, HasFlock, Holding, Inodes
<1>5. HolderIsGuarded'
  BY <1>2, <1>3 DEF Close, IInv, HolderIsGuarded, Holding
<1>6. QED
  BY <1>1, <1>4, <1>5 DEF IInv

\* A process moves on with the files it has: it locks nothing and releases nothing.
LEMMA GotoKeeps ==
    ASSUME IInv, NEW p \in Procs, NEW there \in Pcs, Goto(p, there),
           UNCHANGED <<anchor, guard, fd, locked, inode, ends, intrusions>>,
           there \in {"opened", "lock"} => fd[p] # 0,
           HasFlock(p) <=> there \in {"guard", "link", "check", "publish", "protect", "taken"} \cup Holding,
           there \in Holding => guard = fd[p]
    PROVE  IInv'
<1>1. TypeOK'
  BY DEF Goto, IInv, TypeOK
<1>2. \A q \in Procs : pc'[q] = IF q = p THEN there ELSE pc[q]
  BY DEF Goto, IInv, TypeOK
<1>3. FilesAreLocked'
  BY <1>2 DEF IInv, TypeOK, FilesAreLocked, HasFlock
<1>4. HolderIsGuarded'
  BY <1>2 DEF IInv, HolderIsGuarded
<1>5. QED
  BY <1>1, <1>3, <1>4 DEF IInv

\* The guard is only written while it does not exist, so nobody has the lock yet.
LEMMA GuardKeeps ==
    ASSUME IInv, NEW p \in Procs, NEW there \in {"check", "taken"}, HasFlock(p), Goto(p, there),
           guard = 0, guard' \in Inodes,
           UNCHANGED <<anchor, fd, locked, inode, ends, intrusions>>
    PROVE  IInv'
<1>1. TypeOK'
  BY DEF Goto, IInv, TypeOK, Pcs
<1>2. \A q \in Procs : pc'[q] = IF q = p THEN there ELSE pc[q]
  BY DEF Goto, IInv, TypeOK
<1>3. FilesAreLocked'
  BY <1>2 DEF IInv, TypeOK, FilesAreLocked, HasFlock, Holding
<1>4. \A q \in Procs : pc[q] \notin Holding
  BY DEF IInv, FilesAreLocked, HolderIsGuarded, HasFlock
<1>5. HolderIsGuarded'
  BY <1>2, <1>4 DEF HolderIsGuarded, Holding
<1>6. QED
  BY <1>1, <1>3, <1>5 DEF IInv

\* Opening the anchor: a file that exists, not locked by the process.
LEMMA OpenKeeps == ASSUME IInv, NEW p \in Procs, Open(p) PROVE IInv'
<1>1. CASE anchor = 0
  BY <1>1, GotoKeeps DEF Open, Same, Pcs, HasFlock, Holding
<1>2. CASE anchor # 0
  <2>1. TypeOK'
    BY <1>2 DEF Open, Same, Goto, IInv, TypeOK, Pcs
  <2>2. \A q \in Procs : /\ pc'[q] = IF q = p THEN "opened" ELSE pc[q]
                         /\ fd'[q] = IF q = p THEN anchor ELSE fd[q]
    BY <1>2 DEF Open, Goto, IInv, TypeOK
  <2>3. p \notin locked
    BY DEF Open, IInv, FilesAreLocked, HasFlock, Holding
  <2>4. FilesAreLocked'
    BY <1>2, <2>2, <2>3 DEF Open, IInv, TypeOK, FilesAreLocked, HasFlock, Holding
  <2>5. HolderIsGuarded'
    BY <2>2 DEF Open, IInv, HolderIsGuarded, Holding
  <2>6. QED
    BY <2>1, <2>4, <2>5 DEF IInv
<1>3. QED
  BY <1>1, <1>2

\* flock: only a file that nobody else has locked.
LEMMA FlockKeeps == ASSUME IInv, NEW p \in Procs, Flock(p) PROVE IInv'
<1>1. CASE Contended(p) /\ Close(p, "unavailable")
  BY <1>1, CloseKeeps DEF Flock, Same, IInv, TypeOK
<1>2. CASE ~Contended(p) /\ locked' = locked \cup {p} /\ Goto(p, "guard")
           /\ UNCHANGED <<anchor, guard, fd, inode>>
  <2>1. TypeOK'
    BY <1>2 DEF Flock, Same, Goto, IInv, TypeOK, Pcs
  <2>2. \A q \in Procs : pc'[q] = IF q = p THEN "guard" ELSE pc[q]
    BY <1>2 DEF Goto, IInv, TypeOK
  <2>3. fd[p] # 0
    BY DEF Flock, IInv, FilesAreLocked
  <2>4. FilesAreLocked'
    BY <1>2, <2>2, <2>3 DEF IInv, TypeOK, FilesAreLocked, HasFlock, Holding, Contended
  <2>5. HolderIsGuarded'
    BY <1>2, <2>2 DEF IInv, HolderIsGuarded, Holding
  <2>6. QED
    BY <2>1, <2>4, <2>5 DEF IInv
<1>3. QED
  BY <1>1, <1>2 DEF Flock

\* A new file has an inode that nobody has open.
LEMMA CreateKeeps == ASSUME IInv, NEW p \in Procs, Create(p) PROVE IInv'
<1>1. TypeOK'
  BY DEF Create, Same, Goto, IInv, TypeOK, Pcs, Inodes
<1>2. \A q \in Procs : /\ pc'[q] = IF q = p THEN "publish" ELSE pc[q]
                       /\ fd'[q] = IF q = p THEN inode + 1 ELSE fd[q]
  BY DEF Create, Goto, IInv, TypeOK
<1>3. inode' = inode + 1 /\ locked' = locked \cup {p} /\ anchor' = anchor /\ guard' = guard
  BY DEF Create
<1>4. inode \in Nat /\ anchor \in Nat /\ locked \subseteq Procs /\ \A q \in Procs : fd[q] \in Nat
  BY DEF IInv, TypeOK, Inodes
<1>5. FilesAreLocked'
  BY <1>2, <1>3, <1>4 DEF IInv, FilesAreLocked, HasFlock, Holding
<1>6. HolderIsGuarded'
  BY <1>2, <1>3 DEF IInv, HolderIsGuarded, Holding
<1>7. QED
  BY <1>1, <1>5, <1>6 DEF IInv

\* Publishing the anchor changes the directory, not what is locked.
LEMMA PublishKeeps == ASSUME IInv, NEW p \in Procs, PublishAnchor(p) PROVE IInv'
<1>1. CASE anchor # 0 /\ Close(p, "open")
  BY <1>1, CloseKeeps DEF PublishAnchor, Same, IInv, TypeOK
<1>2. CASE anchor' = fd[p] /\ Goto(p, "protect") /\ UNCHANGED <<guard, fd, locked, inode>>
  <2>1. TypeOK'
    BY <1>2 DEF PublishAnchor, Same, Goto, IInv, TypeOK, Pcs
  <2>2. \A q \in Procs : pc'[q] = IF q = p THEN "protect" ELSE pc[q]
    BY <1>2 DEF Goto, IInv, TypeOK
  <2>3. FilesAreLocked'
    BY <1>2, <2>2 DEF PublishAnchor, IInv, FilesAreLocked, HasFlock, Holding
  <2>4. HolderIsGuarded'
    BY <1>2, <2>2 DEF PublishAnchor, IInv, HolderIsGuarded, Holding
  <2>5. QED
    BY <2>1, <2>3, <2>4 DEF IInv
<1>3. QED
  BY <1>1, <1>2 DEF PublishAnchor

\* An intruder changes the anchor only; the guard keeps naming the old file.
LEMMA IntrudeKeeps == ASSUME IInv, Intrude PROVE IInv'
<1>1. inode \in Nat /\ inode' \in Inodes /\ inode' >= inode /\ anchor' \in 0 .. inode'
  BY DEF Intrude, IInv, TypeOK, Inodes
<1>2. TypeOK'
  BY <1>1 DEF Intrude, IInv, TypeOK, Inodes
<1>3. \A q \in Procs : fd[q] \in Nat
  BY DEF IInv, TypeOK, Inodes
<1>4. FilesAreLocked'
  BY <1>1, <1>3 DEF Intrude, IInv, FilesAreLocked, HasFlock, Inodes
<1>5. HolderIsGuarded'
  BY DEF Intrude, IInv, HolderIsGuarded
<1>6. QED
  BY <1>2, <1>4, <1>5 DEF IInv

\* The steps that only read: what they find decides where the process goes.
LEMMA LookKeeps ==
    ASSUME IInv, NEW p \in Procs,
           \/ Ask(p) \/ ValidateOpened(p) \/ CompareGuard(p) \/ CheckGuard(p)
           \/ LookGuard(p) \/ LookAnchor(p) \/ Yield(p) \/ Handoff(p)
    PROVE  IInv'
<1> USE DEF Same, Pcs, Ended, Holding, HasFlock
<1>0. IInv /\ ends \in 0 .. MaxEnds
  BY DEF IInv, TypeOK
<1>1. CASE Ask(p)
  BY <1>0, <1>1, GotoKeeps DEF Ask
<1>2. CASE ValidateOpened(p)
  <2>1. CASE anchor = fd[p]
    <3>1. fd[p] # 0
      BY <1>2 DEF ValidateOpened, IInv, FilesAreLocked
    <3>2. Goto(p, "lock") /\ UNCHANGED <<anchor, guard, fd, locked, inode, ends, intrusions>>
      BY <1>2, <2>1, <3>1 DEF ValidateOpened
    <3>3. QED
      BY <1>2, <3>1, <3>2, GotoKeeps DEF ValidateOpened
  <2>2. CASE Close(p, "missing") \/ Close(p, "failed")
    BY <1>0, <1>2, <2>2, CloseKeeps DEF ValidateOpened
  <2>3. QED
    BY <1>2, <2>1, <2>2 DEF ValidateOpened
<1>3. CASE CompareGuard(p)
  BY <1>0, <1>3, GotoKeeps, CloseKeeps DEF CompareGuard
<1>4. CASE CheckGuard(p)
  BY <1>0, <1>4, GotoKeeps, CloseKeeps DEF CheckGuard
<1>5. CASE LookGuard(p)
  BY <1>0, <1>5, GotoKeeps DEF LookGuard
<1>6. CASE LookAnchor(p)
  BY <1>0, <1>6, GotoKeeps, CloseKeeps DEF LookAnchor
<1>7. CASE Yield(p)
  BY <1>0, <1>7, GotoKeeps, CloseKeeps DEF Yield, Valid
<1>8. CASE Handoff(p)
  BY <1>0, <1>8, GotoKeeps, CloseKeeps DEF Handoff, Valid
<1>9. QED
  BY <1>1, <1>2, <1>3, <1>4, <1>5, <1>6, <1>7, <1>8

\* The two steps that write the guard.
LEMMA LinkKeeps == ASSUME IInv, NEW p \in Procs, LinkGuard(p) \/ PublishGuard(p) PROVE IInv'
<1>0. ends \in 0 .. MaxEnds /\ anchor \in Inodes /\ fd[p] \in Inodes
  BY DEF IInv, TypeOK
<1>1. CASE LinkGuard(p)
  BY <1>0, <1>1, GuardKeeps, CloseKeeps DEF LinkGuard, Same, HasFlock
<1>2. CASE PublishGuard(p)
  BY <1>0, <1>2, GuardKeeps, CloseKeeps DEF PublishGuard, Same, HasFlock
<1>3. QED
  BY <1>1, <1>2

\* A process ends, as it should or not.
LEMMA EndKeeps == ASSUME IInv, NEW p \in Procs, Release(p) \/ Crash(p) \/ LinkFails(p) PROVE IInv'
<1>1. ends' \in 0 .. MaxEnds /\ UNCHANGED intrusions
  BY DEF Release, Crash, LinkFails, IInv, TypeOK
<1>2. Close(p, "start") \/ Close(p, "failed")
  BY DEF Release, Crash, LinkFails
<1>3. QED
  BY <1>1, <1>2, CloseKeeps

\* Every step of Next keeps the invariant.
LEMMA StepInv == IInv /\ [Next]_vars => IInv'
<1> SUFFICES ASSUME IInv, [Next]_vars PROVE IInv'
  OBVIOUS
<1>1. CASE UNCHANGED vars
  BY <1>1 DEF vars, IInv, TypeOK, FilesAreLocked, HolderIsGuarded, HasFlock
<1>2. CASE Intrude
  BY <1>2, IntrudeKeeps
<1>3. ASSUME NEW p \in Procs, Acquire(p) PROVE IInv'
  BY <1>3, OpenKeeps, FlockKeeps, CreateKeeps, PublishKeeps, LinkKeeps, LookKeeps DEF Acquire
<1>4. ASSUME NEW p \in Procs, Ask(p) \/ Handoff(p) PROVE IInv'
  BY <1>4, LookKeeps
<1>5. ASSUME NEW p \in Procs, Release(p) \/ Crash(p) \/ LinkFails(p) PROVE IInv'
  BY <1>5, EndKeeps
<1>6. QED
  BY <1>1, <1>2, <1>3, <1>4, <1>5 DEF Next

\* Two processes that have the lock have the file of the guard locked: the same one.
LEMMA InvImpliesExclusion == IInv => MutualExclusion
BY DEF IInv, TypeOK, FilesAreLocked, HolderIsGuarded, HasFlock, MutualExclusion

\* At most one process has the lock of a state file, even while the anchor is
\* removed or replaced: process_lock and HeldProcessLock.validate.
THEOREM Exclusion == Spec => []MutualExclusion
<1>1. Init => IInv
  BY InitInv
<1>2. IInv /\ [Next]_vars => IInv'
  BY StepInv
<1>3. IInv => MutualExclusion
  BY InvImpliesExclusion
<1>4. QED
  BY <1>1, <1>2, <1>3, PTL DEF Spec

\* The lock of the state file is what the invariant says of it, at every moment:
\* the flocks of _lock_visible_anchor and _acquire_anchor, and the guard.
THEOREM LockInvariant == Spec => []IInv
<1>1. Init => IInv
  BY InitInv
<1>2. IInv /\ [Next]_vars => IInv'
  BY StepInv
<1>3. QED
  BY <1>1, <1>2, PTL DEF Spec

-----------------------------------------------------------------------------
(***************************************************************************)
(* The cold start.  As long as nobody interferes and nobody ends, whoever  *)
(* has an anchor open has the one there is, the guard is missing exactly   *)
(* while the one who has the anchor locked is about to publish it, and an  *)
(* anchor that is published is locked by somebody.                         *)
(***************************************************************************)
Cold == intrusions = 0 /\ ends = 0

WithAnchor == {"opened", "lock", "guard", "link", "check", "protect", "taken"} \cup Holding
BeforeGuard == {"link", "protect"}
AfterGuard == {"check", "taken"} \cup Holding
WithFlock == {"guard", "link", "check", "publish", "protect", "taken"} \cup Holding

\* What a process may find where it is.
Placed(p) ==
    /\ pc[p] \in WithAnchor => fd[p] = anchor
    /\ pc[p] \in BeforeGuard => guard = 0
    /\ pc[p] \in AfterGuard => guard = anchor
    /\ pc[p] = "look" => guard # 0
    /\ pc[p] = "publish" => fd[p] # anchor
    /\ pc[p] # "failed"
    /\ pc[p] = "unavailable" => anchor # 0

ColdFacts ==
    /\ guard \in {0, anchor}
    /\ \A p \in Procs : Placed(p)
    /\ anchor # 0 => \E p \in Procs : HasFlock(p) /\ fd[p] = anchor

ColdInv == Cold => ColdFacts

\* A process moves on with the files it has, to a place it may be in.
LEMMA ColdMove ==
    ASSUME IInv, ColdFacts, NEW p \in Procs, NEW there \in Pcs, Goto(p, there),
           UNCHANGED <<anchor, guard, fd>>,
           there \in WithAnchor => fd[p] = anchor,
           there \in BeforeGuard => guard = 0,
           there \in AfterGuard => guard = anchor,
           there = "look" => guard # 0,
           there \notin {"failed", "publish"},
           there = "unavailable" => anchor # 0,
           HasFlock(p) => there \in WithFlock
    PROVE  ColdFacts'
<1>1. \A q \in Procs : pc'[q] = IF q = p THEN there ELSE pc[q]
  BY DEF Goto, IInv, TypeOK
<1>2. \A q \in Procs : Placed(q)'
  BY <1>1 DEF ColdFacts, Placed
<1>3. \A q \in Procs : HasFlock(q) => HasFlock(q)'
  BY <1>1 DEF HasFlock, WithFlock
<1>4. QED
  BY <1>2, <1>3 DEF ColdFacts

\* A process without the flock gives up what it has open.
LEMMA ColdClose ==
    ASSUME IInv, ColdFacts, NEW p \in Procs, NEW there \in {"open", "missing", "unavailable"},
           Close(p, there), ~(HasFlock(p) /\ fd[p] = anchor),
           there = "unavailable" => anchor # 0
    PROVE  ColdFacts'
<1>1. \A q \in Procs : /\ pc'[q] = IF q = p THEN there ELSE pc[q]
                       /\ fd'[q] = IF q = p THEN 0 ELSE fd[q]
  BY DEF Close, Goto, IInv, TypeOK
<1>2. UNCHANGED <<anchor, guard>>
  BY DEF Close
<1>3. \A q \in Procs : Placed(q)'
  BY <1>1, <1>2 DEF ColdFacts, Placed, WithAnchor, BeforeGuard, AfterGuard, Holding
<1>4. \A q \in Procs : HasFlock(q) /\ fd[q] = anchor => HasFlock(q)' /\ fd'[q] = anchor
  BY <1>1 DEF HasFlock
<1>5. QED
  BY <1>2, <1>3, <1>4 DEF ColdFacts

\* The steps that only look.
LEMMA ColdLook ==
    ASSUME IInv, ColdFacts, NEW p \in Procs,
           \/ Ask(p) \/ ValidateOpened(p) \/ CompareGuard(p) \/ CheckGuard(p)
           \/ LookGuard(p) \/ LookAnchor(p) \/ Yield(p) \/ Handoff(p)
    PROVE  ColdFacts'
<1> USE DEF Pcs, Ended, Holding, HasFlock, WithAnchor, BeforeGuard, AfterGuard, WithFlock
<1>0. Placed(p) /\ guard \in {0, anchor}
  BY DEF ColdFacts
<1>1. CASE Ask(p)
  BY <1>1, ColdMove DEF Ask
<1>2. CASE ValidateOpened(p)
  <2>1. fd[p] = anchor /\ fd[p] # 0 /\ pc[p] = "opened"
    BY <1>0, <1>2 DEF ValidateOpened, Placed, IInv, FilesAreLocked
  <2>2. Goto(p, "lock") /\ UNCHANGED <<anchor, guard, fd>>
    BY <1>2, <2>1 DEF ValidateOpened
  <2>3. QED
    BY <2>1, <2>2, ColdMove
<1>3. CASE CompareGuard(p)
  <2>1. fd[p] = anchor /\ pc[p] = "guard" /\ UNCHANGED <<anchor, guard, fd>>
    BY <1>0, <1>3 DEF CompareGuard, Placed
  <2>2. CASE guard = 0 /\ Goto(p, "link")
    BY <2>1, <2>2, ColdMove
  <2>3. CASE guard = fd[p] /\ Goto(p, "taken")
    BY <2>1, <2>3, ColdMove
  <2>4. QED
    BY <1>0, <1>3, <2>1, <2>2, <2>3 DEF CompareGuard
<1>4. CASE CheckGuard(p)
  <2>1. fd[p] = anchor /\ guard = anchor /\ pc[p] = "check"
    BY <1>0, <1>4 DEF CheckGuard, Placed
  <2>2. Goto(p, "taken") /\ UNCHANGED <<anchor, guard, fd>>
    BY <1>4, <2>1 DEF CheckGuard
  <2>3. QED
    BY <2>1, <2>2, ColdMove
<1>5. CASE LookGuard(p)
  BY <1>5, ColdMove DEF LookGuard
<1>6. CASE LookAnchor(p)
  <2>1. pc[p] = "look" /\ anchor # 0
    BY <1>0, <1>6 DEF LookAnchor, Placed
  <2>2. Goto(p, "open") /\ UNCHANGED <<anchor, guard, fd>>
    BY <1>6, <2>1 DEF LookAnchor
  <2>3. QED
    BY <2>1, <2>2, ColdMove
<1>7. ASSUME pc[p] \in {"taken", "held"}
      PROVE  Valid(p) /\ fd[p] = anchor /\ guard = anchor
  <2>1. fd[p] = anchor /\ guard = anchor
    BY <1>0, <1>7 DEF Placed
  <2>2. p \in locked /\ ~Contended(p)
    BY <1>7 DEF IInv, FilesAreLocked, Contended
  <2>3. QED
    BY <2>1, <2>2 DEF Valid
<1>8. CASE Yield(p)
  <2>1. pc[p] = "taken" /\ Goto(p, "held") /\ UNCHANGED <<anchor, guard, fd>>
    BY <1>7, <1>8 DEF Yield
  <2>2. QED
    BY <1>7, <2>1, ColdMove
<1>9. CASE Handoff(p)
  <2>1. pc[p] = "held" /\ Goto(p, "serving") /\ UNCHANGED <<anchor, guard, fd>>
    BY <1>7, <1>9 DEF Handoff
  <2>2. QED
    BY <1>7, <2>1, ColdMove
<1>10. QED
  BY <1>1, <1>2, <1>3, <1>4, <1>5, <1>6, <1>8, <1>9

\* Opening the anchor, and creating a file for one.
LEMMA ColdOpen ==
    ASSUME IInv, ColdFacts, NEW p \in Procs, Open(p) \/ Create(p)
    PROVE  ColdFacts'
<1> USE DEF Holding, HasFlock, WithAnchor, BeforeGuard, AfterGuard, WithFlock
<1>1. UNCHANGED <<anchor, guard>> /\ ~HasFlock(p)
  BY DEF Open, Create
<1>2. PICK file \in Nat, there \in {"missing", "opened", "publish"} :
        /\ \A q \in Procs : /\ pc'[q] = IF q = p THEN there ELSE pc[q]
                            /\ fd'[q] = IF q = p THEN file ELSE fd[q]
        /\ there = "opened" => file = anchor
        /\ there = "publish" => file # anchor
  <2>1. anchor \in Nat /\ fd[p] \in Nat /\ inode \in Nat
    BY DEF IInv, TypeOK, Inodes
  <2>2. CASE Open(p) /\ anchor = 0
    BY <2>1, <2>2 DEF Open, Goto, IInv, TypeOK
  <2>3. CASE Open(p) /\ anchor # 0
    BY <2>1, <2>3 DEF Open, Goto, IInv, TypeOK
  <2>4. CASE Create(p)
    <3>1. /\ inode + 1 \in Nat /\ inode + 1 # anchor
          /\ \A q \in Procs : /\ pc'[q] = IF q = p THEN "publish" ELSE pc[q]
                              /\ fd'[q] = IF q = p THEN inode + 1 ELSE fd[q]
      BY <2>1, <2>4 DEF Create, Goto, IInv, TypeOK, FilesAreLocked
    <3>2. QED
      BY <3>1
  <2>5. QED
    BY <2>2, <2>3, <2>4
<1>3. \A q \in Procs : Placed(q)'
  BY <1>1, <1>2 DEF ColdFacts, Placed
<1>4. \A q \in Procs : HasFlock(q) => q # p /\ HasFlock(q)' /\ fd'[q] = fd[q]
  BY <1>1, <1>2
<1>5. QED
  BY <1>1, <1>3, <1>4 DEF ColdFacts

\* flock: whoever is refused knows of an anchor, and its holder.
LEMMA ColdFlock == ASSUME IInv, ColdFacts, NEW p \in Procs, Flock(p) PROVE ColdFacts'
<1> USE DEF Holding, HasFlock, WithAnchor, BeforeGuard, AfterGuard, WithFlock
<1>1. pc[p] = "lock" /\ fd[p] = anchor /\ anchor # 0
  BY DEF Flock, ColdFacts, Placed, IInv, FilesAreLocked
<1>2. CASE Close(p, "unavailable")
  BY <1>1, <1>2, ColdClose
<1>3. CASE Goto(p, "guard") /\ UNCHANGED <<anchor, guard, fd>>
  BY <1>1, <1>3, ColdMove DEF Pcs
<1>4. QED
  BY <1>2, <1>3 DEF Flock

\* The anchor is published once, by one who has it locked.
LEMMA ColdPublish == ASSUME IInv, ColdFacts, NEW p \in Procs, PublishAnchor(p) PROVE ColdFacts'
<1> USE DEF Holding, HasFlock, WithAnchor, BeforeGuard, AfterGuard, WithFlock
<1>1. CASE anchor # 0 /\ Close(p, "open")
  <2>1. fd[p] # anchor
    BY DEF PublishAnchor, ColdFacts, Placed
  <2>2. QED
    BY <1>1, <2>1, ColdClose
<1>2. CASE anchor = 0 /\ anchor' = fd[p] /\ Goto(p, "protect") /\ UNCHANGED <<guard, fd, locked, inode>>
  <2>1. \A q \in Procs : pc'[q] = IF q = p THEN "protect" ELSE pc[q]
    BY <1>2 DEF Goto, IInv, TypeOK
  <2>2. guard = 0 /\ guard' = 0
    BY <1>2 DEF ColdFacts
  <2>3. \A q \in Procs : pc[q] \notin WithAnchor
    BY <1>2 DEF ColdFacts, Placed, IInv, FilesAreLocked
  <2>4. fd[p] # 0
    BY DEF PublishAnchor, IInv, FilesAreLocked
  <2>5. \A q \in Procs : pc'[q] = "publish" => fd[q] # fd[p]
    <3>1. \A q \in Procs : pc'[q] = "publish" => q # p /\ pc[q] = "publish"
      BY <2>1
    <3>2. pc[p] = "publish" /\ \A q \in Procs : pc[q] = "publish" => q \in locked
      BY DEF PublishAnchor, IInv, FilesAreLocked
    <3>3. QED
      BY <3>1, <3>2 DEF IInv, FilesAreLocked
  <2>8. \A q \in Procs : Placed(q)'
    BY <1>2, <2>1, <2>2, <2>3, <2>4, <2>5 DEF ColdFacts, Placed
  <2>6. HasFlock(p)' /\ fd'[p] = anchor'
    BY <1>2, <2>1
  <2>7. QED
    BY <2>2, <2>6, <2>8 DEF ColdFacts
<1>3. QED
  BY <1>1, <1>2 DEF PublishAnchor

\* The guard is published once, by the one who has the anchor locked.
LEMMA ColdGuard ==
    ASSUME IInv, ColdFacts, NEW p \in Procs, LinkGuard(p) \/ PublishGuard(p)
    PROVE  ColdFacts'
<1> USE DEF Holding, HasFlock, WithAnchor, BeforeGuard, AfterGuard, WithFlock
<1>1. pc[p] \in BeforeGuard /\ guard = 0 /\ fd[p] = anchor /\ anchor # 0
  BY DEF LinkGuard, PublishGuard, ColdFacts, Placed, IInv, FilesAreLocked
<1>2. PICK there \in {"check", "taken"} :
        /\ Goto(p, there) /\ guard' = anchor /\ UNCHANGED <<anchor, fd>>
  BY <1>1 DEF LinkGuard, PublishGuard
<1>3. \A q \in Procs : pc'[q] = IF q = p THEN there ELSE pc[q]
  BY <1>2 DEF Goto, IInv, TypeOK
<1>4. \A q \in Procs \ {p} : pc[q] \notin BeforeGuard
  <2> SUFFICES ASSUME NEW q \in Procs, pc[q] \in BeforeGuard PROVE q = p
    OBVIOUS
  <2>1. fd[q] = anchor /\ p \in locked /\ q \in locked
    BY <1>1 DEF ColdFacts, Placed, IInv, FilesAreLocked
  <2>2. QED
    BY <1>1, <2>1 DEF IInv, FilesAreLocked
<1>5. \A q \in Procs : Placed(q)'
  BY <1>1, <1>2, <1>3, <1>4 DEF ColdFacts, Placed
<1>6. HasFlock(p)' /\ fd'[p] = anchor'
  BY <1>1, <1>2, <1>3
<1>7. QED
  BY <1>1, <1>2, <1>5, <1>6 DEF ColdFacts

LEMMA ColdInit == Init => ColdInv
BY DEF Init, ColdInv, ColdFacts, Placed, WithAnchor, BeforeGuard, AfterGuard, Holding

LEMMA ColdStep == IInv /\ ColdInv /\ [Next]_vars => ColdInv'
<1> SUFFICES ASSUME IInv, ColdInv, [Next]_vars, Cold' PROVE ColdFacts'
  BY DEF ColdInv
<1>0. ends \in Nat /\ intrusions \in Nat
  BY DEF IInv, TypeOK
<1>1. CASE UNCHANGED vars
  BY <1>1 DEF vars, ColdInv, Cold, ColdFacts, Placed, HasFlock
<1>2. CASE Intrude
  BY <1>0, <1>2 DEF Intrude, Cold
<1>3. ASSUME NEW p \in Procs, Release(p) \/ Crash(p) \/ LinkFails(p) PROVE FALSE
  BY <1>0, <1>3 DEF Release, Crash, LinkFails, Cold
<1>4. ASSUME NEW p \in Procs, Ask(p) \/ Acquire(p) \/ Handoff(p) PROVE ColdFacts'
  <2>1. Cold
    BY <1>4 DEF Cold, Ask, Acquire, Handoff, Open, ValidateOpened, Flock, CompareGuard, LinkGuard,
                CheckGuard, LookGuard, LookAnchor, Create, PublishAnchor, PublishGuard, Yield, Same
  <2>2. ColdFacts
    BY <2>1 DEF ColdInv
  <2>3. QED
    BY <1>4, <2>2, ColdLook, ColdOpen, ColdFlock, ColdPublish, ColdGuard DEF Acquire
<1>5. QED
  BY <1>1, <1>2, <1>3, <1>4 DEF Next

\* In the end somebody has the anchor locked, and that is the one who has the lock.
LEMMA ColdEnd == IInv /\ ColdInv => ColdStart
<1> SUFFICES ASSUME IInv, ColdInv, Cold PROVE /\ \A p \in Procs : pc[p] # "failed"
                                              /\ (\A p \in Procs : pc[p] \in Ended \cup Holding)
                                                   => \E p \in Procs : pc[p] \in Holding
  BY DEF ColdStart, Cold
<1>1. ColdFacts
  BY DEF ColdInv
<1>2. \A p \in Procs : pc[p] # "failed"
  BY <1>1 DEF ColdFacts, Placed
<1>3. ASSUME \A p \in Procs : pc[p] \in Ended \cup Holding
      PROVE  \E p \in Procs : pc[p] \in Holding
  <2>1. PICK p \in Procs : TRUE
    OBVIOUS
  <2>2. CASE pc[p] = "unavailable"
    <3>1. PICK q \in Procs : HasFlock(q)
      BY <1>1, <2>2 DEF ColdFacts, Placed
    <3>2. pc[q] \in Holding
      BY <1>3, <3>1 DEF HasFlock, Ended, Holding
    <3>3. QED
      BY <3>2
  <2>3. QED
    BY <1>2, <1>3, <2>2 DEF Ended
<1>4. QED
  BY <1>2, <1>3

\* A cold start never tells a process that the lock cannot be secured, and leaves
\* it with one of them: the links of _acquire_anchor, in whatever order they come.
THEOREM ColdStartWorks == Spec => []ColdStart
<1>1. Init => IInv /\ ColdInv
  BY InitInv, ColdInit
<1>2. IInv /\ ColdInv /\ [Next]_vars => (IInv /\ ColdInv)'
  BY StepInv, ColdStep
<1>3. IInv /\ ColdInv => ColdStart
  BY ColdEnd
<1>4. QED
  BY <1>1, <1>2, <1>3, PTL DEF Spec
=============================================================================
