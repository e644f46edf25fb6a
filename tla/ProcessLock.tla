---------------------------- MODULE ProcessLock ----------------------------
(***************************************************************************)
(* The lock of a state file, src/src/hermes_zulip_bridge/locking.py.  The  *)
(* bridge, the notifier and the smoke test take it as separate processes.  *)
(* The lock is an flock on the inode of an anchor; the anchor is published *)
(* as a hard link, and a second link, the guard, remembers which inode it  *)
(* was, so that an anchor that is removed or replaced is noticed.          *)
(*                                                                         *)
(* Every system call that reads or changes an entry of the lock directory  *)
(* is a step, but for two lstat calls that CheckGuard merges: the guard    *)
(* is written once, so reading it earlier or later tells the same.         *)
(* Owners, modes and file types are left out: they do not change here.     *)
(* The public .lock path is repaired by the holder and read by nobody, so  *)
(* it is left out too.                                                     *)
(***************************************************************************)
EXTENDS Integers, FiniteSets

CONSTANTS
    Procs,         \* the processes
    MaxInode,      \* bound on the files created in the lock directory
    MaxEnds,       \* bound on releases, crashes and failed link calls together
    MaxIntrusions  \* how often somebody else removes or replaces the anchor

ASSUME LockAssumption ==
    /\ Procs # {}
    /\ MaxInode \in Nat
    /\ MaxEnds \in Nat
    /\ MaxIntrusions \in Nat

VARIABLES
    anchor,      \* inode of the anchor, 0 if there is none
    guard,       \* inode of the guard, 0 if there is none
    pc,          \* where each process is
    fd,          \* the inode each process has open, 0 if none
    locked,      \* the processes that hold the flock on the inode they have open
    inode,       \* the last inode created
    ends,        \* releases, crashes and failed link calls so far
    intrusions   \* removals and replacements of the anchor so far

vars == <<anchor, guard, pc, fd, locked, inode, ends, intrusions>>

Inodes == 0 .. MaxInode

\* How an attempt to take the lock ends, and the two stages of having it.
Ended == {"unavailable", "failed"}
Holding == {"held", "serving"}

Pcs ==
    {"start", "open", "opened", "lock", "guard", "link", "check", "missing",
     "look", "create", "publish", "protect", "taken"} \cup Ended \cup Holding

Init ==
    /\ anchor = 0
    /\ guard = 0
    /\ pc = [p \in Procs |-> "start"]
    /\ fd = [p \in Procs |-> 0]
    /\ locked = {}
    /\ inode = 0
    /\ ends = 0
    /\ intrusions = 0

Goto(p, there) == pc' = [pc EXCEPT ![p] = there]

\* The descriptor is closed, and with it the flock released.
Close(p, there) ==
    /\ Goto(p, there)
    /\ fd' = [fd EXCEPT ![p] = 0]
    /\ locked' = locked \ {p}
    /\ UNCHANGED <<anchor, guard, inode>>

Same == UNCHANGED <<ends, intrusions>>

\* A process is started, or started again, and asks for the lock.
Ask(p) ==
    /\ pc[p] \in {"start"} \cup Ended
    /\ Goto(p, "open")
    /\ UNCHANGED <<anchor, guard, fd, locked, inode>> /\ Same

-----------------------------------------------------------------------------
(* _lock_visible_anchor *)

Open(p) ==
    /\ pc[p] = "open"
    /\ IF anchor = 0
       THEN Goto(p, "missing") /\ UNCHANGED fd
       ELSE Goto(p, "opened") /\ fd' = [fd EXCEPT ![p] = anchor]
    /\ UNCHANGED <<anchor, guard, locked, inode>> /\ Same

\* _validate_open_anchor; an anchor that vanished counts as one not found.
ValidateOpened(p) ==
    /\ pc[p] = "opened"
    /\ \/ anchor = fd[p] /\ Goto(p, "lock") /\ UNCHANGED <<anchor, guard, fd, locked, inode>>
       \/ anchor = 0 /\ Close(p, "missing")
       \/ anchor \notin {0, fd[p]} /\ Close(p, "failed")
    /\ Same

Contended(p) == \E q \in locked \ {p} : fd[q] = fd[p]

Flock(p) ==
    /\ pc[p] = "lock"
    /\ \/ Contended(p) /\ Close(p, "unavailable")
       \/ /\ ~Contended(p)
          /\ locked' = locked \cup {p}
          /\ Goto(p, "guard")
          /\ UNCHANGED <<anchor, guard, fd, inode>>
    /\ Same

-----------------------------------------------------------------------------
(* _acquire_anchor, with the anchor locked *)

\* Mutation: a missing guard is not restored.
MutNoRepair(p) ==
    /\ pc[p] = "guard"
    /\ \/ guard = fd[p] /\ Goto(p, "taken") /\ UNCHANGED <<anchor, guard, fd, locked, inode>>
       \/ guard # fd[p] /\ Close(p, "failed")
    /\ Same

CompareGuard(p) ==
    /\ pc[p] = "guard"
    /\ \/ guard = 0 /\ Goto(p, "link") /\ UNCHANGED <<anchor, guard, fd, locked, inode>>
       \/ guard = fd[p] /\ Goto(p, "taken") /\ UNCHANGED <<anchor, guard, fd, locked, inode>>
       \/ guard \notin {0, fd[p]} /\ Close(p, "failed")
    /\ Same

\* The guard that a dead creator did not publish: a link to whatever the anchor is.
LinkGuard(p) ==
    /\ pc[p] = "link"
    /\ \/ /\ anchor # 0 /\ guard = 0
          /\ guard' = anchor
          /\ Goto(p, "check")
          /\ UNCHANGED <<anchor, fd, locked, inode>>
       \/ (anchor = 0 \/ guard # 0) /\ Close(p, "failed")
    /\ Same

CheckGuard(p) ==
    /\ pc[p] = "check"
    /\ \/ anchor = fd[p] /\ guard = fd[p] /\ Goto(p, "taken")
          /\ UNCHANGED <<anchor, guard, fd, locked, inode>>
       \/ ~(anchor = fd[p] /\ guard = fd[p]) /\ Close(p, "failed")
    /\ Same

-----------------------------------------------------------------------------
(* _acquire_anchor, without an anchor *)

\* Mutation: an anchor that appeared in the meantime is not looked for.
MutLookAnchor(p) == pc[p] = "look" /\ Close(p, "failed") /\ Same

LookGuard(p) ==
    /\ pc[p] = "missing"
    /\ Goto(p, IF guard = 0 THEN "create" ELSE "look")
    /\ UNCHANGED <<anchor, guard, fd, locked, inode>> /\ Same

\* The guard exists: either the anchor was published since, or it was removed.
LookAnchor(p) ==
    /\ pc[p] = "look"
    /\ \/ anchor = 0 /\ Close(p, "failed")
       \/ anchor # 0 /\ Goto(p, "open") /\ UNCHANGED <<anchor, guard, fd, locked, inode>>
    /\ Same

\* A new file under a temporary name, locked before it is published.
Create(p) ==
    /\ pc[p] = "create"
    /\ inode < MaxInode
    /\ inode' = inode + 1
    /\ fd' = [fd EXCEPT ![p] = inode']
    /\ locked' = locked \cup {p}
    /\ Goto(p, "publish")
    /\ UNCHANGED <<anchor, guard>> /\ Same

PublishAnchor(p) ==
    /\ pc[p] = "publish"
    /\ \/ anchor # 0 /\ Close(p, "open")
       \/ /\ anchor = 0
          /\ anchor' = fd[p]
          /\ Goto(p, "protect")
          /\ UNCHANGED <<guard, fd, locked, inode>>
    /\ Same

\* Mutation: the guard of somebody else is overwritten.
MutPublishGuard(p) ==
    /\ pc[p] = "protect"
    /\ guard' = fd[p]
    /\ Goto(p, "taken")
    /\ UNCHANGED <<anchor, fd, locked, inode>> /\ Same

PublishGuard(p) ==
    /\ pc[p] = "protect"
    /\ \/ guard # 0 /\ Close(p, "failed")
       \/ /\ guard = 0
          /\ guard' = fd[p]
          /\ Goto(p, "taken")
          /\ UNCHANGED <<anchor, fd, locked, inode>>
    /\ Same

-----------------------------------------------------------------------------
(* process_lock, and the one who has the lock *)

\* HeldProcessLock.validate: the flock is asserted again, and the descriptor,
\* the anchor and the guard are still one file.
Valid(p) == ~Contended(p) /\ anchor = fd[p] /\ guard = fd[p]

Yield(p) ==
    /\ pc[p] = "taken"
    /\ \/ Valid(p) /\ Goto(p, "held") /\ UNCHANGED <<anchor, guard, fd, locked, inode>>
       \/ ~Valid(p) /\ Close(p, "failed")
    /\ Same

\* main of the bridge and run of the smoke test validate a lock handed to them.
Handoff(p) ==
    /\ pc[p] = "held"
    /\ \/ Valid(p) /\ Goto(p, "serving") /\ UNCHANGED <<anchor, guard, fd, locked, inode>>
       \/ ~Valid(p) /\ Close(p, "failed")
    /\ Same

\* The body ends.
Release(p) ==
    /\ pc[p] \in Holding
    /\ ends < MaxEnds
    /\ ends' = ends + 1
    /\ Close(p, "start")
    /\ UNCHANGED intrusions

\* The process dies anywhere.
Crash(p) ==
    /\ pc[p] \notin {"start"} \cup Ended
    /\ ends < MaxEnds
    /\ ends' = ends + 1
    /\ Close(p, "start")
    /\ UNCHANGED intrusions

\* A link call fails for a reason of its own.
LinkFails(p) ==
    /\ pc[p] \in {"link", "publish", "protect"}
    /\ ends < MaxEnds
    /\ ends' = ends + 1
    /\ Close(p, "failed")
    /\ UNCHANGED intrusions

\* Somebody removes the anchor, or puts another file in its place.
Intrude ==
    /\ intrusions < MaxIntrusions
    /\ intrusions' = intrusions + 1
    /\ \/ anchor' = 0 /\ UNCHANGED inode
       \/ inode < MaxInode /\ inode' = inode + 1 /\ anchor' = inode'
    /\ UNCHANGED <<guard, pc, fd, locked, ends>>

-----------------------------------------------------------------------------
Acquire(p) ==
    \/ Open(p) \/ ValidateOpened(p) \/ Flock(p)
    \/ CompareGuard(p) \/ LinkGuard(p) \/ CheckGuard(p)
    \/ LookGuard(p) \/ LookAnchor(p) \/ Create(p) \/ PublishAnchor(p) \/ PublishGuard(p)
    \/ Yield(p)

Next ==
    \/ \E p \in Procs :
        Ask(p) \/ Acquire(p) \/ Handoff(p) \/ Release(p) \/ Crash(p) \/ LinkFails(p)
    \/ Intrude

Spec == Init /\ [][Next]_vars

\* A process that asks goes on, and a service that failed to start is started again.
FairSpec == Spec /\ \A p \in Procs : WF_vars(Ask(p) \/ Acquire(p))

-----------------------------------------------------------------------------
(* Properties *)

TypeOK ==
    /\ anchor \in Inodes
    /\ guard \in Inodes
    /\ pc \in [Procs -> Pcs]
    /\ fd \in [Procs -> Inodes]
    /\ locked \subseteq Procs
    /\ inode \in Inodes
    /\ ends \in 0 .. MaxEnds
    /\ intrusions \in 0 .. MaxIntrusions

\* Two processes never have the lock of one state file together, whenever others
\* ask, die and start again, and even if the anchor is removed or replaced while
\* one of them has it or is about to take it.
MutualExclusion ==
    \A p, q \in Procs : pc[p] \in Holding /\ pc[q] \in Holding => p = q

\* The processes of a cold start: as long as nobody interferes and no call fails
\* no process is told that the lock cannot be secured, and when all of them
\* have their answer one has the lock.
ColdStart ==
    intrusions = 0 /\ ends = 0 =>
        /\ \A p \in Procs : pc[p] # "failed"
        /\ (\A p \in Procs : pc[p] \in Ended \cup Holding) => \E p \in Procs : pc[p] \in Holding

\* A crash at any point, between the two links included, leaves a lock that the
\* next processes can take: nobody has to clean up, unless somebody has interfered
\* with the anchor, which makes every process fail.
LockIsTaken == []<>(intrusions > 0 \/ \E p \in Procs : pc[p] \in Holding)

-----------------------------------------------------------------------------
(* The inductive invariant behind MutualExclusion *)

\* A process between its flock and the end of its attempt or its body.
HasFlock(p) == pc[p] \in {"guard", "link", "check", "publish", "protect", "taken"} \cup Holding

\* An open file has been created, and no two processes have the same one locked.
FilesAreLocked ==
    /\ anchor <= inode
    /\ \A p \in Procs : fd[p] <= inode
    /\ \A p \in Procs : p \in locked <=> HasFlock(p)
    /\ \A p \in Procs : pc[p] \in {"opened", "lock"} \/ HasFlock(p) => fd[p] # 0
    /\ \A p, q \in locked : fd[p] = fd[q] => p = q

\* Whoever has the lock has the file open that the guard names.
HolderIsGuarded == \A p \in Procs : pc[p] \in Holding => guard = fd[p]

\* Together: the guard is written once, so there is one file to hold a lock on.
IInv == TypeOK /\ FilesAreLocked /\ HolderIsGuarded
=============================================================================
