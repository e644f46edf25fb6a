------------------------------ MODULE Notifier ------------------------------
(***************************************************************************)
(* The Kanban notifier, src/src/hermes_zulip_bridge/notifier.py: one       *)
(* process under its process lock.  A scan reads the board, plans the      *)
(* durable outbox, and delivers the jobs that are due: a job is marked     *)
(* post_started and saved before its POST, and one whose POST is uncertain *)
(* is looked up in Zulip, never posted again.  The state is saved as a     *)
(* whole; a save may raise although the file was replaced, and memory is   *)
(* not rolled back when it does.                                           *)
(*                                                                         *)
(* A notification is a task at a revision; its signature, marker and       *)
(* content are functions of the two.  Retry times are abstracted: any      *)
(* part of the outbox may be due.                                          *)
(***************************************************************************)
EXTENDS Integers, Sequences, FiniteSets

CONSTANTS
    Tasks,         \* the identities of the tasks of the board
    MaxRev,        \* bound on the revisions of a task: 1 .. MaxRev
    Terminal,      \* the revisions whose status is in TERMINAL_STATUSES
    Modes,         \* how main is started: subset of {"serve", "prime"}
    MaxOutbox,     \* MAX_OUTBOX
    MaxDead,       \* MAX_DEAD_LETTERS
    MaxNotified,   \* MAX_NOTIFIED
    MaxAttempts,   \* MAX_ATTEMPTS
    MaxWork,       \* MAX_WORK_PER_SCAN
    MaxFaults      \* bound on crashes and failed saves together

ASSUME NotifierAssumption ==
    /\ IsFiniteSet(Tasks)
    /\ MaxRev \in Nat \ {0}
    /\ Terminal \subseteq 1 .. MaxRev
    /\ Modes \subseteq {"serve", "prime"}
    /\ MaxOutbox \in Nat
    /\ MaxDead \in Nat
    /\ MaxNotified \in Nat
    /\ MaxAttempts \in Nat \ {0}
    /\ MaxWork \in Nat \ {0}
    /\ MaxFaults \in Nat

VARIABLES
    board,    \* the current revision of every task, 0 for one that is not there yet
    mem,      \* state, in memory
    disk,     \* the state file
    pc,       \* where the process is
    due,      \* the jobs of the scan that are still to be delivered
    current,  \* the job being delivered
    sent,     \* how many messages of every notification are in Zulip
    primed,   \* history: the notifications that --prime marked
    faults    \* crashes and failed saves so far

vars == <<board, mem, disk, pc, due, current, sent, primed, faults>>

Revs == 1 .. MaxRev
NoJob == [rev |-> 0, stage |-> "none", attempts |-> 0]
Uncertain == {"post_started", "posted"}

Jobs ==
    {NoJob} \cup
    [rev : Revs,
     stage : {"admitted", "operator_review"} \cup Uncertain,
     attempts : 0 .. MaxAttempts]

\* What _validate_state accepts; save_state raises for everything else.
ValidStates ==
    {st \in [revision : [Tasks -> 0 .. MaxRev],
             notified : [Tasks -> 0 .. MaxRev],
             outbox   : [Tasks -> Jobs],
             dead     : UNION {[1 .. n -> Tasks \X Revs] : n \in 0 .. MaxDead}] :
        /\ \A t \in Tasks : st.outbox[t].rev <= st.revision[t]
        /\ \A t \in Tasks : st.notified[t] # 0 => st.revision[t] # 0
        /\ Cardinality({t \in Tasks : st.outbox[t] # NoJob}) <= MaxOutbox
        /\ Cardinality({t \in Tasks : st.revision[t] # 0}) <= MaxNotified}

EmptyState ==
    [revision |-> [t \in Tasks |-> 0],
     notified |-> [t \in Tasks |-> 0],
     outbox   |-> [t \in Tasks |-> NoJob],
     dead     |-> <<>>]

JobsOf(st) == {t \in Tasks : st.outbox[t] # NoJob}

NewJob(r) == [rev |-> r, stage |-> "admitted", attempts |-> 0]

-----------------------------------------------------------------------------
(* The outbox *)

\* Mutation: a job that does not fit into the dead letters is dropped.
MutDeadLetter(st, t) ==
    LET emptied == [st EXCEPT !.outbox[t] = NoJob]
    IN  IF Len(st.dead) >= MaxDead
        THEN emptied
        ELSE [emptied EXCEPT !.dead = Append(@, <<t, st.outbox[t].rev>>)]

\* A job ends without a delivery; when the dead letters are full it stays.
DeadLetter(st, t) ==
    IF Len(st.dead) >= MaxDead
    THEN [st EXCEPT !.outbox[t].stage = "operator_review"]
    ELSE [st EXCEPT !.dead = Append(@, <<t, st.outbox[t].rev>>),
                    !.outbox[t] = NoJob]

\* Mutation: the attempts are not bounded by a dead letter.
MutFailed(st, t) ==
    [st EXCEPT !.outbox[t].attempts = IF @ < MaxAttempts THEN @ + 1 ELSE @]

\* An attempt is accounted for; the last one ends the job.
Failed(st, t) ==
    LET attempts == IF st.outbox[t].attempts < MaxAttempts
                    THEN st.outbox[t].attempts + 1
                    ELSE MaxAttempts
        counted == [st EXCEPT !.outbox[t].attempts = attempts]
    IN  IF attempts >= MaxAttempts THEN DeadLetter(counted, t) ELSE counted

\* Mutation: the delivery is not recorded.
MutDelivered(st, t) == [st EXCEPT !.outbox[t] = NoJob]

\* The job was delivered.
Delivered(st, t) ==
    [st EXCEPT !.notified[t] = st.outbox[t].rev, !.outbox[t] = NoJob]

-----------------------------------------------------------------------------
(* The plan of a scan that sees the revisions of view, 0 for an absent task *)

\* Mutation: the revision of the registry is not compared.
MutFresh(st, view) ==
    {t \in Tasks : view[t] # 0 /\ view[t] >= st.outbox[t].rev}

\* The tasks that are not skipped as older than what is known.
Fresh(st, view) ==
    {t \in Tasks :
        /\ view[t] # 0
        /\ view[t] >= st.revision[t]
        /\ view[t] >= st.outbox[t].rev}

\* Mutation: an uncertain job is replaced as well.
MutReplaced(st, view) ==
    {t \in Fresh(st, view) :
        /\ st.outbox[t] # NoJob
        /\ view[t] > st.outbox[t].rev}

\* A newer revision takes the place of a job that was not posted yet.
Replaced(st, view) ==
    {t \in Fresh(st, view) :
        /\ st.outbox[t].stage = "admitted"
        /\ view[t] > st.outbox[t].rev}

\* The notifications to admit, or to mark as notified by --prime.
Wanted(st, view) ==
    {t \in Fresh(st, view) :
        /\ view[t] \in Terminal
        /\ st.outbox[t] = NoJob \/ t \in Replaced(st, view)
        /\ st.notified[t] # view[t]}

HasCapacity(st, view) ==
    Cardinality({t \in Tasks : st.revision[t] # 0 \/ view[t] # 0}) <= MaxNotified

OutboxFits(st, view, admitted) ==
    Cardinality((JobsOf(st) \ Replaced(st, view)) \cup admitted) <= MaxOutbox

\* Mutation: the revision of an admitted job is not recorded.
MutPlanned(st, view, admitted, marked) ==
    [st EXCEPT
        !.notified = [t \in Tasks |-> IF t \in marked THEN view[t] ELSE @[t]],
        !.outbox = [t \in Tasks |->
            CASE t \in admitted -> NewJob(view[t])
              [] t \in Replaced(st, view) \ admitted -> NoJob
              [] OTHER -> @[t]]]

\* The state after the plan: revisions are recorded, jobs replaced and admitted.
Planned(st, view, admitted, marked) ==
    [st EXCEPT
        !.revision = [t \in Tasks |-> IF t \in Fresh(st, view) THEN view[t] ELSE @[t]],
        !.notified = [t \in Tasks |-> IF t \in marked THEN view[t] ELSE @[t]],
        !.outbox = [t \in Tasks |->
            CASE t \in admitted -> NewJob(view[t])
              [] t \in Replaced(st, view) \ admitted -> NoJob
              [] OTHER -> @[t]]]

-----------------------------------------------------------------------------
Init ==
    /\ board = [t \in Tasks |-> 0]
    /\ mem = EmptyState
    /\ disk = EmptyState
    /\ pc = "down"
    /\ due = {}
    /\ current \in Tasks
    /\ sent = [t \in Tasks |-> [r \in Revs |-> 0]]
    /\ primed = {}
    /\ faults = 0

\* The workflow changes a task.
Touch(t) ==
    /\ board[t] < MaxRev
    /\ board' = [board EXCEPT ![t] = @ + 1]
    /\ UNCHANGED <<mem, disk, pc, due, current, sent, primed, faults>>

\* main takes the lock and loads the state.
Start(mode) ==
    /\ pc = "down"
    /\ mem' = disk
    /\ pc' = mode
    /\ UNCHANGED <<board, disk, due, current, sent, primed, faults>>

\* The process dies between two steps: only the file and Zulip remain.
Crash ==
    /\ pc # "down"
    /\ faults < MaxFaults
    /\ faults' = faults + 1
    /\ mem' = EmptyState
    /\ pc' = "down"
    /\ due' = {}
    /\ UNCHANGED <<board, disk, current, sent, primed>>

\* What the board may show: the current revision of a task, an older one, none.
Views == {view \in [Tasks -> 0 .. MaxRev] : \A t \in Tasks : view[t] <= board[t]}

\* scan_once, up to its first persist.
Scan(view) ==
    /\ pc = "serve"
    /\ HasCapacity(mem, view)
    /\ OutboxFits(mem, view, Wanted(mem, view))
    /\ mem' = Planned(mem, view, Wanted(mem, view), {})
    /\ pc' = IF mem' = mem THEN "due" ELSE "planned"
    /\ UNCHANGED <<board, disk, due, current, sent, primed, faults>>

\* The single scan of main --prime.
Prime(view) ==
    /\ pc = "prime"
    /\ HasCapacity(mem, view)
    /\ OutboxFits(mem, view, {})
    /\ mem' = Planned(mem, view, {}, Wanted(mem, view))
    /\ primed' = primed \cup {<<t, view[t]>> : t \in Wanted(mem, view)}
    /\ pc' = "priming"
    /\ UNCHANGED <<board, disk, due, current, sent, faults>>

\* The jobs whose time has come, no more than one scan may take.
TakeDue(D) ==
    /\ pc = "due"
    /\ D \subseteq {t \in JobsOf(mem) : mem.outbox[t].stage # "operator_review"}
    /\ Cardinality(D) <= MaxWork
    /\ due' = D
    /\ pc' = "deliver"
    /\ UNCHANGED <<board, mem, disk, current, sent, primed, faults>>

EndScan ==
    /\ pc = "deliver"
    /\ due = {}
    /\ pc' = "serve"
    /\ UNCHANGED <<board, mem, disk, due, current, sent, primed, faults>>

\* persist, and where the program goes from it.
AfterPersist == [planned |-> "due", priming |-> "down", starting |-> "posting",
                 answered |-> "confirm", settled |-> "deliver"]
AfterError == [planned |-> "serve", priming |-> "down", starting |-> "deliver",
               answered |-> "deliver", settled |-> "deliver"]

Persist ==
    /\ pc \in DOMAIN AfterPersist
    /\ disk' = mem
    /\ pc' = AfterPersist[pc]
    /\ UNCHANGED <<board, mem, due, current, sent, primed, faults>>

\* save_state raises, before or after it replaced the file.
PersistFails ==
    /\ pc \in DOMAIN AfterError
    /\ faults < MaxFaults
    /\ faults' = faults + 1
    /\ disk' \in {disk, mem}
    /\ pc' = AfterError[pc]
    /\ UNCHANGED <<board, mem, due, current, sent, primed>>

-----------------------------------------------------------------------------
(* _deliver_job *)

\* The next job of the scan.
Take(t) ==
    /\ pc = "deliver"
    /\ t \in due
    /\ due' = due \ {t}
    /\ current' = t

\* Mutation: any message that carries the marker will do.
MutFound(t) == TRUE

\* _reconcile finds the message: by its identifier once that is known,
\* otherwise by the marker, which must not occur twice.
Found(t) ==
    LET job == mem.outbox[t]
    IN  IF job.stage = "posted" THEN sent[t][job.rev] > 0 ELSE sent[t][job.rev] = 1

\* The route of the job is unavailable, or its message is not found.
AttemptFails(t) ==
    /\ Take(t)
    /\ mem' = Failed(mem, t)
    /\ pc' = "settled"
    /\ UNCHANGED <<board, disk, sent, primed, faults>>

Reconcile(t) ==
    /\ Take(t)
    /\ mem.outbox[t].stage \in Uncertain
    /\ Found(t)
    /\ mem' = Delivered(mem, t)
    /\ pc' = "settled"
    /\ UNCHANGED <<board, disk, sent, primed, faults>>

\* Mutation: the POST is not preceded by a save.
MutStartPost(t) ==
    /\ Take(t)
    /\ mem.outbox[t].stage = "admitted"
    /\ mem.outbox[t].attempts < MaxAttempts
    /\ mem' = [mem EXCEPT !.outbox[t] =
                [rev |-> @.rev, stage |-> "post_started", attempts |-> @.attempts + 1]]
    /\ pc' = "posting"
    /\ UNCHANGED <<board, disk, sent, primed, faults>>

\* The POST is marked in memory; it follows its save.
StartPost(t) ==
    /\ Take(t)
    /\ mem.outbox[t].stage = "admitted"
    /\ mem.outbox[t].attempts < MaxAttempts
    /\ mem' = [mem EXCEPT !.outbox[t] =
                [rev |-> @.rev, stage |-> "post_started", attempts |-> @.attempts + 1]]
    /\ pc' = "starting"
    /\ UNCHANGED <<board, disk, sent, primed, faults>>

Arrives == sent' = [sent EXCEPT ![current][mem.outbox[current].rev] = @ + 1]

\* Zulip accepts the message and answers with its identifier.
PostAnswered ==
    /\ pc = "posting"
    /\ Arrives
    /\ mem' = [mem EXCEPT !.outbox[current].stage = "posted"]
    /\ pc' = "answered"
    /\ UNCHANGED <<board, disk, due, current, primed, faults>>

\* The answer is lost or names no message; the message may be there or not.
PostUncertain ==
    /\ pc = "posting"
    /\ Arrives \/ UNCHANGED sent
    /\ pc' = "deliver"
    /\ UNCHANGED <<board, mem, disk, due, current, primed, faults>>

Confirm ==
    /\ pc = "confirm"
    /\ Found(current)
    /\ mem' = Delivered(mem, current)
    /\ pc' = "settled"
    /\ UNCHANGED <<board, disk, due, current, sent, primed, faults>>

\* The message just posted cannot be read back: a later scan reconciles it.
ConfirmLater ==
    /\ pc = "confirm"
    /\ pc' = "deliver"
    /\ UNCHANGED <<board, mem, disk, due, current, sent, primed, faults>>

-----------------------------------------------------------------------------
Deliver ==
    \/ \E t \in due : AttemptFails(t) \/ Reconcile(t) \/ StartPost(t)
    \/ PostAnswered \/ PostUncertain \/ Confirm \/ ConfirmLater

Next ==
    \/ \E t \in Tasks : Touch(t)
    \/ \E mode \in Modes : Start(mode)
    \/ Crash
    \/ \E view \in Views : Scan(view) \/ Prime(view)
    \/ \E D \in SUBSET Tasks : TakeDue(D)
    \/ EndScan
    \/ Persist \/ PersistFails
    \/ Deliver

Spec == Init /\ [][Next]_vars

\* The process is started again, its steps and requests end, it reads the
\* board as it is again and again, and the retry time of every job passes.
Fairness ==
    /\ WF_vars(Start("serve"))
    /\ WF_vars(Persist \/ PersistFails)
    /\ WF_vars(Deliver)
    /\ WF_vars(EndScan)
    /\ WF_vars(\E D \in SUBSET Tasks : TakeDue(D))
    /\ SF_vars(\E view \in {board} : Scan(view))
    /\ \A t \in Tasks : SF_vars(\E D \in {S \in SUBSET Tasks : t \in S} : TakeDue(D))

FairSpec == Spec /\ Fairness

-----------------------------------------------------------------------------
(* Properties *)

\* What is in memory can always be saved, and what is in the file be loaded:
\* _validate_state accepts both after every step.  An admitted job has attempts
\* left, so its retry limit is reached by a failed route only.
TypeOK ==
    /\ board \in [Tasks -> 0 .. MaxRev]
    /\ mem \in ValidStates
    /\ disk \in ValidStates
    /\ pc \in {"down", "serve", "prime", "due", "deliver", "posting", "confirm"} \cup DOMAIN AfterPersist
    /\ due \in SUBSET JobsOf(mem)
    /\ current \in Tasks
    /\ sent \in [Tasks -> [Revs -> Nat]]
    /\ primed \subseteq Tasks \X Revs
    /\ faults \in 0 .. MaxFaults
    /\ \A t \in Tasks : mem.outbox[t].stage = "admitted" => mem.outbox[t].attempts < MaxAttempts

Reviews(st, t, r) == {i \in 1 .. Len(st.dead) : st.dead[i] = <<t, r>>}

\* What the code does promise: a notification is in Zulip twice only if a dead
\* letter in the file asks an operator to review the earlier one, whatever
\* crashes and failed saves happened between its POST and its delivery.
RepeatIsReviewed ==
    \A t \in Tasks, r \in Revs : sent[t][r] <= 1 + Cardinality(Reviews(disk, t, r))

\* A notification that counts as delivered, in memory or in the file, is in Zulip
\* or was suppressed by --prime.
NotifiedWasSent ==
    \A st \in {mem, disk}, t \in Tasks :
        st.notified[t] # 0 => sent[t][st.notified[t]] > 0 \/ <<t, st.notified[t]>> \in primed

\* Once a revision was announced no older one is, although boards are read late,
\* jobs wait for their retry, and a restart forgets what was not saved.
NoOldNews ==
    [][\A t \in Tasks, r \in Revs :
        sent'[t][r] > sent[t][r] => \A q \in Revs : q > r => sent[t][q] = 0]_sent

\* A saved job whose POST is uncertain leaves the file only as a delivery or as a
\* dead letter: no newer revision, save or restart makes it disappear.
UncertainIsKept ==
    [][\A t \in Tasks :
        LET job == disk.outbox[t]
            left == disk'.outbox[t]
        IN  job.stage \in Uncertain =>
                \/ left.rev = job.rev /\ left.stage \in Uncertain \cup {"operator_review"}
                \/ disk'.notified[t] = job.rev
                \/ Cardinality(Reviews(disk', t, job.rev)) > Cardinality(Reviews(disk, t, job.rev))]_disk

\* A terminal revision that stays the current one is in the end announced,
\* suppressed, or left to an operator, as a dead letter or in the outbox.
TerminalIsSettled ==
    \A t \in Tasks, r \in Terminal :
        board[t] = r ~>
            \/ board[t] # r
            \/ mem.notified[t] = r
            \/ Reviews(mem, t, r) # {}
            \/ mem.outbox[t].stage = "operator_review"

-----------------------------------------------------------------------------
(***************************************************************************)
(* The inductive invariant.                                                *)
(***************************************************************************)
Open == Uncertain \cup {"operator_review"}

\* How often an operator was asked to review the notification.
Count(st, t, r) == Cardinality(Reviews(st, t, r))

\* From st the notification may still be posted (again).
MayPost(st, t, r) ==
    /\ st.revision[t] <= r
    /\ st.notified[t] # r
    /\ st.outbox[t].rev = r => st.outbox[t].stage = "admitted"

\* The outbox holds one revision of a task, newer than the one notified.
OrderedAt(st, t) ==
    /\ st.outbox[t].stage = "admitted"
        => st.outbox[t].attempts < MaxAttempts /\ st.outbox[t].rev = st.revision[t]
    /\ st.notified[t] <= st.revision[t]
    /\ st.outbox[t] # NoJob => st.notified[t] < st.outbox[t].rev

OutboxOrdered(st) == \A t \in Tasks : OrderedAt(st, t)

\* What st says of the messages in Zulip, and of the notifications marked.
TellsAt(st, messages, marks, t, r) ==
    /\ messages[t][r] <= Count(st, t, r) + 1
    /\ MayPost(st, t, r) => messages[t][r] <= Count(st, t, r)
    /\ messages[t][r] > 0 => r <= st.revision[t]
    /\ st.outbox[t] # NoJob /\ r > st.outbox[t].rev => messages[t][r] = 0
    /\ st.notified[t] = r => messages[t][r] > 0 \/ <<t, r>> \in marks

Tells(st, messages, marks) ==
    \A t \in Tasks, r \in Revs : TellsAt(st, messages, marks, t, r)

\* Memory st follows the file: what the file has under way is in it, or was settled,
\* and what it has under way beyond the file was not posted.
FollowsAt(file, st, messages, t) ==
    /\ \A r \in Revs : Count(file, t, r) <= Count(st, t, r)
    /\ file.outbox[t].stage \in Open =>
        \/ st.outbox[t].rev = file.outbox[t].rev /\ st.outbox[t].stage \in Open
        \/ /\ st.notified[t] = file.outbox[t].rev
           /\ messages[t][file.outbox[t].rev] > 0
        \/ Count(st, t, file.outbox[t].rev) > Count(file, t, file.outbox[t].rev)
    /\ st.outbox[t].stage \in Open =>
        \/ file.outbox[t].rev = st.outbox[t].rev /\ file.outbox[t].stage \in Open
        \/ messages[t][st.outbox[t].rev] <= Count(st, t, st.outbox[t].rev)

Follows(file, st, messages) == \A t \in Tasks : FollowsAt(file, st, messages, t)

Sound(st) == OutboxOrdered(st) /\ Tells(st, sent, primed)

\* Where the program is in the delivery of a job.
DeliveryFollows ==
    /\ pc \notin {"deliver", "starting", "posting", "answered", "confirm", "settled"} => due = {}
    /\ \A t \in due : mem.outbox[t].stage \in {"admitted"} \cup Uncertain
    /\ pc \in {"starting", "posting", "answered", "confirm", "settled"} => current \notin due
    /\ pc \in {"starting", "posting"} =>
        /\ mem.outbox[current].stage = "post_started"
        /\ mem.outbox[current].rev = mem.revision[current]
        /\ sent[current][mem.outbox[current].rev]
                <= Count(mem, current, mem.outbox[current].rev)
    /\ pc \in {"answered", "confirm"} => mem.outbox[current].stage = "posted"
    /\ pc \in {"posting", "prime"} => mem = disk

\* The file is sound, and so is memory that is in use: what they say of the
\* messages in Zulip is true; memory has settled, or still has under way, whatever
\* the file has; the job of a POST is the one that the file was told of.
IInv ==
    /\ TypeOK
    /\ Sound(disk)
    /\ Sound(mem) \/ (pc = "down" /\ mem = EmptyState)
    /\ pc # "down" => Follows(disk, mem, sent)
    /\ DeliveryFollows

-----------------------------------------------------------------------------
(***************************************************************************)
(* The abstract specification.                                             *)
(***************************************************************************)
Notices == Tasks \X Revs

OpenNotices ==
    {n \in Notices : disk.outbox[n[1]].rev = n[2] /\ disk.outbox[n[1]].stage \in Open}
Posted == [n \in Notices |-> sent[n[1]][n[2]]]
Reviewed == [n \in Notices |-> Count(disk, n[1], n[2])]

Announced == INSTANCE Announcement
    WITH open <- OpenNotices, posted <- Posted, reviews <- Reviewed

\* Through crashes, failed saves, late boards and full queues the notifier posts
\* what the file has open, again only after a review, and closes an uncertain
\* POST only when the message is there or is left to an operator.
AnnouncesWithReview == Announced!Spec
=============================================================================
