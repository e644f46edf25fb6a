------------------------------- MODULE Routes -------------------------------
(***************************************************************************)
(* Where answers go: the main loop of bridge.py resolves the conversation  *)
(* of each new message and reconciles the replies that were posted, while  *)
(* one worker per turn checks and reserves the destination of its reply,   *)
(* posts it and publishes the route.  Zulip users move messages and rename *)
(* topics at any moment.  A look at Zulip and at the registry is one step  *)
(* and its use under STATE_LOCK another one: in between the registry may   *)
(* change, which its generation number has to reveal.                      *)
(***************************************************************************)
EXTENDS Ownership, Sequences, SequencesExt, FiniteSetsExt

CONSTANTS
    Away,            \* a topic of another stream, which the bridge must not enter
    MaxAttempts,     \* MAX_DURABLE_ATTEMPTS of a reconciliation job
    MaxTried,        \* MAX_ATTEMPTED_ROUTES
    RequireMention,  \* REQUIRE_MENTION
    MaxTroubles      \* bound on what users move, what fails, and crashes

ASSUME RoutesAssumption ==
    /\ Away \notin Topics \cup {NoTopic}
    /\ MaxAttempts \in Nat \ {0}
    /\ MaxTried \in Nat \ {0}
    /\ RequireMention \in BOOLEAN
    /\ MaxTroubles \in Nat

VARIABLES
    where,     \* the topic that each message is in
    at,        \* the topic that the reply to each message is in
    mem,       \* the state in memory: registry, jobs and the stage of the origins
    disk,      \* the state file
    gen,       \* STATE_GENERATIONS[id(state)]
    rsv,       \* STATE_RESERVATIONS[id(state)]
    view,      \* what an actor saw last, before it takes the lock
    pc,        \* where the main thread is
    todo,      \* the origins of the due jobs
    cur,       \* the message the main thread is at
    saved,     \* the copy of mem and gen for the rollback of an admission
    job,       \* the job under reconciliation
    attached,  \* the due jobs are still the objects of the state
    step,      \* where each message is: in admission, in its turn, or at rest
    conv,      \* the conversation that each message carries
    notice,    \* the turns that post an error notice
    strayed,   \* history: replies that users moved, a PATCH without a record did,
               \* or that were posted a second time
    leftover,  \* history: topics with a session that they still lead to after the
               \* name was taken, under another spelling, from its owner
    sessions,  \* how many sessions Hermes has created
    troubles   \* moves, faults and crashes so far

zulip   == <<where, at>>
shared  == <<mem, gen, rsv>>
mains   == <<pc, todo, cur, saved, job, attached>>
workers == <<step, conv, notice, sessions>>
vars    == <<zulip, shared, disk, view, mains, workers, strayed, leftover, troubles>>

(***************************************************************************)
(* Types.                                                                  *)
(***************************************************************************)
Main == 0
Places == Topics \cup {Away}

\* The holders of reservations; one whose holder is lost is nobody's.
Admission(m) == <<"admission", m>>
Turn(m) == <<"turn", m>>
Reconciliation(m) == <<"reconciliation", m>>
Nobody == <<"nobody">>
Holders ==
    {Nobody} \cup UNION {{Admission(m), Turn(m), Reconciliation(m)} : m \in Msgs}

Jobs ==
    [topic : Topics, thread : Threads, sess : Sessions \cup {NoSession},
     tried : {s \in BoundedSeq(Topics, MaxTried) : IsInjective(s)}, attempts : 0 .. MaxAttempts - 1]
NoJob == [topic |-> NoTopic, thread |-> NoThread, sess |-> NoSession,
          tried |-> <<>>, attempts |-> 0]

\* "new" stands for an origin that is unseen or in the retry queue.
Stages == {"new", "admitted", "hermes_may_start", "done", "dead"}
States == [reg : Registries, jobs : [Msgs -> Jobs \cup {NoJob}], stage : [Msgs -> Stages]]

NoConv == [msg |-> 0, topic |-> NoTopic, thread |-> NoThread, sess |-> NoSession]
NoView == [gen |-> 0, ok |-> FALSE, topic |-> NoTopic, owner |-> NoOwner,
           stale |-> NoOwner]

TurnSteps ==
    {"refresh", "look", "claim", "ready", "run",
     "origin", "replyLook", "replyClaim", "post", "publish", "save",
     "ok", "unsaved", "failed", "retry", "broken"}

Steps ==
    TurnSteps \cup {"idle", "fetched", "resolved", "prepared", "noted",
                   "ignored", "refused", "deferred"}

Pcs ==
    {"finish", "reconcile", "sent", "stayClaim", "moveClaim", "recSave", "patch",
     "recNote", "page", "resolve", "claim", "mention", "note", "submit"}

TypeOK ==
    /\ where \in [Msgs -> Places \cup {NoTopic}]
    /\ at \in [Msgs -> Topics \cup {NoTopic}]
    /\ \A st \in {mem, disk, saved.mem} :
        /\ st \in States
        /\ \A x \in Threads : (st.reg.last[x] = 0) <=> (st.reg.display[x] = NoTopic)
    /\ gen \in Nat
    /\ rsv \subseteq [by : Holders, topic : Topics, owner : Owners]
    /\ job \in Jobs \cup {NoJob}
    /\ pc \in Pcs
    /\ step \in [Msgs -> Steps]
    /\ conv \in [Msgs -> Conversations \cup {NoConv}]

EmptyState ==
    [reg |-> EmptyRegistry, jobs |-> [m \in Msgs |-> NoJob], stage |-> [m \in Msgs |-> "new"]]

InitMain ==
    /\ pc = "finish"
    /\ todo = {}
    /\ cur = 0
    /\ saved = [mem |-> EmptyState, gen |-> 0]
    /\ job = NoJob
    /\ attached = TRUE

Init ==
    /\ where = [m \in Msgs |-> NoTopic]
    /\ at = [m \in Msgs |-> NoTopic]
    /\ mem = EmptyState
    /\ disk = EmptyState
    /\ gen = 0
    /\ rsv = {}
    /\ view = [a \in Msgs \cup {Main} |-> NoView]
    /\ InitMain
    /\ step = [m \in Msgs |-> "idle"]
    /\ conv = [m \in Msgs |-> NoConv]
    /\ notice = {}
    /\ strayed = {}
    /\ leftover = {}
    /\ sessions = 0
    /\ troubles = 0

(***************************************************************************)
(* Zulip and its users.                                                    *)
(***************************************************************************)
Trouble ==
    /\ troubles < MaxTroubles
    /\ troubles' = troubles + 1

\* Messages are posted in the order of their identifiers.
PostMessage(m, t) ==
    /\ where[m] = NoTopic
    /\ \A n \in Msgs : n < m => where[n] # NoTopic
    /\ where' = [where EXCEPT ![m] = t]
    /\ UNCHANGED <<at, shared, disk, view, mains, workers, strayed, leftover, troubles>>

MoveMessage(m, t) ==
    /\ where[m] \in Topics
    /\ where[m] # t
    /\ Trouble
    /\ where' = [where EXCEPT ![m] = t]
    /\ UNCHANGED <<at, shared, disk, view, mains, workers, strayed, leftover>>

\* A topic is renamed, or merged into another one: all that Zulip takes for the
\* same topic moves, the replies too.
Rename(t, u) ==
    /\ t # u
    /\ \E m \in Msgs : where[m] = t
    /\ Trouble
    /\ where' = [m \in Msgs |-> IF SameTopic(where[m], t) THEN u ELSE where[m]]
    /\ at' = [m \in Msgs |-> IF SameTopic(at[m], t) THEN u ELSE at[m]]
    /\ strayed' = strayed \cup {m \in Msgs : SameTopic(at[m], t)}
    /\ UNCHANGED <<shared, disk, view, mains, workers, leftover>>

(***************************************************************************)
(* The registry in memory, its generation and its reservations.            *)
(***************************************************************************)
\* _bump_ownership_generation, when the ownership changes to reg.
Bump(reg) == IF reg # mem.reg THEN 1 ELSE 0

\* The note of a thread and the note of its session each count their change.
NoteBumps(reg) ==
    Bump([reg EXCEPT !.topicSess = mem.reg.topicSess])
    + Bump([mem.reg EXCEPT !.topicSess = reg.topicSess])

SetRegistry(reg) ==
    /\ mem' = [mem EXCEPT !.reg = reg]
    /\ gen' = gen + Bump(reg)

Held(by) == {r \in rsv : r.by = by}
Release(by) == rsv' = rsv \ Held(by)

(***************************************************************************)
(* ensure_reply_destination_owner, by actor a for the conversation c and   *)
(* the topic t: first the registry and the live anchors, then the lock.    *)
(***************************************************************************)
LookAt(a, c, t) ==
    view' = [view EXCEPT ![a] =
        [gen |-> gen, ok |-> MayAnswerIn(mem.reg, where, c, t), topic |-> t,
         owner |-> SourceOwner(mem.reg, c), stale |-> NoOwner]]

\* A GET of the origin told a its topic.
Heard(a, t) == view' = [view EXCEPT ![a].topic = t]

Forget(a) == view' = [view EXCEPT ![a] = NoView]

\* Under the lock nothing has changed that the look relied on.
Confirmed(a) ==
    /\ view[a].ok
    /\ view[a].gen = gen
    /\ StillFree(mem.reg, view[a].owner, view[a].topic)

\* _reserve_destination_owner succeeds.
Reservable(a) == ~ ReservationConflicts(rsv, view[a].topic, view[a].owner)

Reserve(by, a) ==
    rsv' = rsv \cup {[by |-> by, topic |-> view[a].topic, owner |-> view[a].owner]}

(***************************************************************************)
(* The workers: handle_message.  Every failure of a check below ends the   *)
(* turn; only a transient one before Hermes is retried.                    *)
(***************************************************************************)
Go(m, s) == step' = [step EXCEPT ![m] = s]

\* _validated_generation_origin: the message must be where it was admitted.
Refresh(m) ==
    /\ step[m] = "refresh"
    /\ IF where[m] = conv[m].topic THEN Go(m, "look") ELSE Go(m, "failed")
    /\ UNCHANGED <<zulip, shared, disk, view, mains, conv, notice, sessions, strayed, leftover, troubles>>

Look(m) ==
    /\ step[m] = "look"
    /\ LookAt(m, conv[m], conv[m].topic)
    /\ Go(m, "claim")
    /\ UNCHANGED <<zulip, shared, disk, mains, conv, notice, sessions, strayed, leftover, troubles>>

ClaimRoute(m, next) ==
    /\ IF Confirmed(m) /\ Reservable(m)
       THEN Reserve(Turn(m), m) /\ Go(m, next)
       ELSE UNCHANGED rsv /\ Go(m, "failed")
    /\ Forget(m)
    /\ UNCHANGED <<zulip, mem, gen, disk, mains, notice, sessions, strayed, leftover, troubles>>

Claim(m) == step[m] = "claim" /\ ClaimRoute(m, "ready") /\ UNCHANGED conv

\* A transient failure while attachments or the history are read.
NotReady(m) ==
    /\ step[m] = "ready"
    /\ Trouble
    /\ Release(Turn(m))
    /\ Go(m, "retry")
    /\ UNCHANGED <<zulip, mem, gen, disk, view, mains, conv, notice, sessions, strayed, leftover>>

\* The reservation ends, the origin is marked and saved, and Hermes starts.
Launch(m) ==
    /\ step[m] = "ready"
    /\ Release(Turn(m))
    /\ mem' = [mem EXCEPT !.stage[m] = "hermes_may_start"]
    /\ disk' = mem'
    /\ Go(m, "run")
    /\ UNCHANGED <<zulip, gen, view, mains, conv, notice, sessions, strayed, leftover, troubles>>

\* That save fails, before or after it replaced the file: the turn ends the bridge.
LaunchFails(m) ==
    /\ step[m] = "ready"
    /\ Trouble
    /\ Release(Turn(m))
    /\ mem' = [mem EXCEPT !.stage[m] = "hermes_may_start"]
    /\ disk' \in {disk, mem'}
    /\ Go(m, "broken")
    /\ UNCHANGED <<zulip, gen, view, mains, conv, notice, sessions, strayed, leftover>>

\* Hermes answers, in a session of its own when there was none.
Answers(m) ==
    /\ step[m] = "run"
    /\ IF conv[m].sess # NoSession
       THEN UNCHANGED <<conv, sessions>>
       ELSE /\ sessions + 1 \in Sessions
            /\ sessions' = sessions + 1
            /\ conv' = [conv EXCEPT ![m].sess = sessions']
    /\ Go(m, "origin")
    /\ UNCHANGED <<zulip, shared, disk, view, mains, notice, strayed, leftover, troubles>>

\* Hermes fails: an error notice is posted the same way, without a session.
Errs(m) ==
    /\ step[m] = "run"
    /\ Trouble
    /\ notice' = notice \cup {m}
    /\ Go(m, "origin")
    /\ UNCHANGED <<zulip, shared, disk, view, mains, conv, sessions, strayed, leftover>>

\* reply: the origin is fetched again, wherever it is now.
Fetch(m) ==
    /\ step[m] = "origin"
    /\ IF where[m] \in Topics
       THEN Go(m, "replyLook") /\ Heard(m, where[m])
       ELSE Go(m, "failed") /\ UNCHANGED view
    /\ UNCHANGED <<zulip, shared, disk, mains, conv, notice, sessions, strayed, leftover, troubles>>

ReplyLook(m) ==
    /\ step[m] = "replyLook"
    /\ LookAt(m, conv[m], view[m].topic)
    /\ Go(m, "replyClaim")
    /\ UNCHANGED <<zulip, shared, disk, mains, conv, notice, sessions, strayed, leftover, troubles>>

\* The reservation of the destination, which becomes the turn's topic.
ReplyClaim(m) ==
    /\ step[m] = "replyClaim"
    /\ conv' = [conv EXCEPT ![m].topic = view[m].topic]
    /\ ClaimRoute(m, "post")

\* The POST is confirmed: the reply is in the topic of that name.
Post(m) ==
    /\ step[m] = "post"
    /\ at' = [at EXCEPT ![m] = conv[m].topic]
    /\ strayed' = IF at[m] = NoTopic THEN strayed ELSE strayed \cup {m}
    /\ Go(m, "publish")
    /\ UNCHANGED <<where, shared, disk, view, mains, conv, notice, sessions, leftover, troubles>>

\* The POST is rejected, or its outcome is uncertain.
PostFails(m) ==
    /\ step[m] = "post"
    /\ Trouble
    /\ Release(Turn(m))
    /\ Go(m, "failed")
    /\ UNCHANGED <<zulip, mem, gen, disk, view, mains, conv, notice, sessions, strayed, leftover>>

\* _publish_confirmed_reply
Publish(m) ==
    /\ step[m] = "publish"
    /\ CanNote(mem.reg, rsv, conv[m])
    /\ mem' = [mem EXCEPT !.reg = Note(@, conv[m]),
                         !.jobs[m] = [topic |-> conv[m].topic, thread |-> conv[m].thread,
                                      sess |-> conv[m].sess, tried |-> <<>>, attempts |-> 0]]
    /\ gen' = gen + NoteBumps(Note(mem.reg, conv[m]))
    /\ Go(m, "save")
    /\ UNCHANGED <<zulip, rsv, disk, view, mains, conv, notice, sessions, strayed, leftover, troubles>>

\* The note of conversation c adds to the tables of the registry, which are limited.
Adds(c) ==
    \/ mem.reg.alias[Name[c.topic]] = NoThread
    \/ mem.reg.display[c.thread] # c.topic
    \/ c.sess # NoSession /\ mem.reg.topicSess[c.topic] = NoSession

\* The note is refused, or reaches a limit.
NoteFails(c) ==
    \/ ~ CanNote(mem.reg, rsv, c) /\ UNCHANGED troubles
    \/ Adds(c) /\ Trouble

\* The reply is posted but not published; a copy of the state is restored.
PublishFails(m) ==
    /\ step[m] = "publish"
    /\ NoteFails(conv[m])
    /\ Release(Turn(m))
    /\ attached' = FALSE
    /\ Go(m, "failed")
    /\ UNCHANGED <<zulip, mem, gen, disk, view, pc, todo, cur, saved, job,
                   conv, notice, sessions, strayed, leftover>>

SaveReply(m) ==
    /\ step[m] = "save"
    /\ disk' = mem
    /\ Release(Turn(m))
    /\ Go(m, IF m \in notice THEN "failed" ELSE "ok")
    /\ UNCHANGED <<zulip, mem, gen, view, mains, conv, notice, sessions, strayed, leftover, troubles>>

\* The save fails: the published reply of an answer is saved by finish_pending.
SaveReplyFails(m) ==
    /\ step[m] = "save"
    /\ Trouble
    /\ disk' \in {disk, mem}
    /\ Release(Turn(m))
    /\ Go(m, IF m \in notice THEN "failed" ELSE "unsaved")
    /\ UNCHANGED <<zulip, mem, gen, view, mains, conv, notice, sessions, strayed, leftover>>

(***************************************************************************)
(* finish_pending: the turns that ended, one after the other.  A turn that *)
(* could not save its mark ends the bridge.                                *)
(***************************************************************************)
Ended == {m \in Msgs : step[m] \in {"ok", "unsaved", "failed", "retry"}}
Broken == {m \in Msgs : step[m] = "broken"}

\* An answered turn notes its conversation once more; the notes may be refused.
NotedAgain(c) ==
    IF c.sess = NoSession \/ ~ CanNoteThread(mem.reg, rsv, c) THEN mem.reg
    ELSE LET reg == NoteThread(mem.reg, c)
         IN  IF CanNoteSession(reg, rsv, c) THEN NoteSession(reg, c) ELSE reg

Outcome(m) == CASE step[m] \in {"ok", "unsaved"} -> "done" [] step[m] = "retry" -> "new" [] OTHER -> "dead"

Retired(m) ==
    [mem EXCEPT !.reg = IF step[m] = "ok" THEN NotedAgain(conv[m]) ELSE @,
                !.stage[m] = Outcome(m)]

\* The turn is forgotten before the save that follows, which may fail; the saves
\* of a published reply come before.
Finish(m) ==
    /\ pc = "finish"
    /\ m \in Ended
    /\ mem' = Retired(m)
    /\ gen' = gen + NoteBumps(mem'.reg)
    /\ \/ disk' = mem' /\ UNCHANGED troubles
       \/ step[m] # "unsaved" /\ Trouble /\ disk' \in {disk, mem'}
    /\ Go(m, "idle")
    /\ conv' = [conv EXCEPT ![m] = NoConv]
    /\ notice' = notice \ {m}
    /\ UNCHANGED <<zulip, rsv, view, mains, sessions, strayed, leftover>>

\* finish_post_commit and finish_rejected_post save twice and forget the turn after
\* that; when a save fails, they are called again.
FinishLater(m) ==
    /\ pc = "finish"
    /\ step[m] \in {"unsaved", "failed"}
    /\ Trouble
    /\ mem' \in {mem, Retired(m)}
    /\ disk' \in {disk, mem, mem'}
    /\ UNCHANGED <<zulip, gen, rsv, view, mains, workers, strayed, leftover>>

QueuedJobs == {m \in Msgs : mem.jobs[m] # NoJob}

FinishEnds ==
    /\ pc = "finish"
    /\ Ended \cup Broken = {}
    /\ IF QueuedJobs = {} THEN pc' = "page" /\ disk' = mem ELSE pc' = "reconcile" /\ UNCHANGED disk
    /\ todo' = QueuedJobs
    /\ attached' = TRUE
    /\ UNCHANGED <<zulip, shared, view, cur, saved, job,
                   workers, strayed, leftover, troubles>>

(***************************************************************************)
(* reconcile_pending_replies: the due jobs, oldest origin first.  The jobs *)
(* are objects of the list in the state; when a failed publication puts a  *)
(* copy of the state in its place, they no longer are (attached is FALSE). *)
(***************************************************************************)
First(S) == CHOOSE m \in S : \A n \in S : m <= n

\* The job under reconciliation equals one of the list.
Queued == mem.jobs[cur] = job

\* _remove_reconciliation_job and _terminalize_reconciliation.
JobEnds == mem' = [mem EXCEPT !.jobs[cur] = IF Queued THEN NoJob ELSE @]

NextJob ==
    /\ pc' = "reconcile"
    /\ cur' = 0
    /\ job' = NoJob

JobIsOwned(m) ==
    LET j == mem.jobs[m]
    IN  /\ j.thread \in Known(mem.reg)
        /\ mem.reg.sess[j.thread] = j.sess
        /\ ClaimsAgree(mem.reg, j.topic)
        /\ StoredOwner(mem.reg, j.topic) = [thread |-> j.thread, sess |-> j.sess]

\* _validate_reconciliation_provenance, and the origin is fetched.
TakeJob(m) ==
    /\ pc = "reconcile"
    /\ m \in todo
    /\ m = First(todo)
    /\ todo' = todo \ {m}
    /\ IF JobIsOwned(m) /\ where[m] \in Topics
       THEN /\ cur' = m
            /\ job' = mem.jobs[m]
            /\ Heard(Main, where[m])
            /\ pc' = "sent"
            /\ UNCHANGED mem
       ELSE /\ mem' = [mem EXCEPT !.jobs[m] = NoJob]
            /\ UNCHANGED <<cur, job, view, pc>>
    /\ UNCHANGED <<zulip, gen, rsv, disk, saved, attached,
                   workers, strayed, leftover, troubles>>

target == view[Main].topic

JobConversation == [msg |-> cur, topic |-> target, thread |-> job.thread, sess |-> job.sess]

\* _verified_reconciliation_sent_message, and the look at the destination.
CheckSent ==
    /\ pc = "sent"
    /\ IF at[cur] \in {job.topic, target} \cup Range(job.tried)
       THEN /\ LookAt(Main, JobConversation, target)
            /\ pc' = IF target # job.topic /\ at[cur] # target THEN "moveClaim" ELSE "stayClaim"
            /\ UNCHANGED <<mem, cur, job>>
       ELSE JobEnds /\ NextJob /\ Forget(Main)
    /\ UNCHANGED <<zulip, gen, rsv, disk, todo, saved, attached,
                   workers, strayed, leftover, troubles>>

\* The reply is where it belongs: only the owner is checked.
StayClaim ==
    /\ pc = "stayClaim"
    /\ IF Confirmed(Main)
       THEN pc' = "recNote" /\ UNCHANGED <<mem, cur, job, view>>
       ELSE JobEnds /\ NextJob /\ Forget(Main)
    /\ UNCHANGED <<zulip, gen, rsv, disk, todo, saved, attached,
                   workers, strayed, leftover, troubles>>

\* The list without a topic, which it has at most once.
Without(tried, t) ==
    LET at_t == {i \in DOMAIN tried : tried[i] = t}
    IN  IF at_t = {} THEN tried ELSE RemoveAt(tried, CHOOSE i \in at_t : TRUE)

\* _record_attempted_route
Tried(j, t) ==
    LET tried == Append(Without(j.tried, t), t)
    IN  [j EXCEPT !.tried = IF Len(tried) > MaxTried THEN Tail(tried) ELSE tried]

\* Otherwise the destination is reserved, and the attempt recorded in the job.
MoveClaim ==
    /\ pc = "moveClaim"
    /\ IF Confirmed(Main) /\ Reservable(Main)
       THEN /\ Reserve(Reconciliation(cur), Main)
            /\ job' = Tried(job, target)
            /\ mem' = IF attached THEN [mem EXCEPT !.jobs[cur] = Tried(job, target)] ELSE mem
            /\ pc' = "recSave"
            /\ UNCHANGED <<cur, view>>
       ELSE JobEnds /\ NextJob /\ Forget(Main) /\ UNCHANGED rsv
    /\ UNCHANGED <<zulip, gen, disk, todo, saved, attached,
                   workers, strayed, leftover, troubles>>

\* Mutation: the PATCH is sent before the attempt is saved.
MutSaveAttempt ==
    /\ pc = "recSave"
    /\ pc' = "patch"
    /\ UNCHANGED <<zulip, shared, disk, view, todo, cur, saved, job, attached,
                   workers, strayed, leftover, troubles>>

SaveAttempt ==
    /\ pc = "recSave"
    /\ disk' = mem
    /\ pc' = "patch"
    /\ UNCHANGED <<zulip, shared, view, todo, cur, saved, job, attached,
                   workers, strayed, leftover, troubles>>

\* The save fails, before or after it replaced the file; the iteration ends.
SaveAttemptFails ==
    /\ pc = "recSave"
    /\ Trouble
    /\ disk' \in {disk, mem}
    /\ Release(Reconciliation(cur))
    /\ pc' = "finish"
    /\ todo' = {}
    /\ cur' = 0
    /\ job' = NoJob
    /\ Forget(Main)
    /\ UNCHANGED <<zulip, mem, gen, saved, attached, workers, strayed, leftover>>

\* The PATCH moves the reply; a detached job leaves no durable trace of it.
MoveReply ==
    /\ at' = [at EXCEPT ![cur] = target]
    /\ strayed' = IF Queued THEN strayed ELSE strayed \cup {cur}

Patch ==
    /\ pc = "patch"
    /\ MoveReply
    /\ pc' = "recNote"
    /\ UNCHANGED <<where, shared, disk, view, todo, cur, saved, job,
                   attached, workers, leftover, troubles>>

\* Mutation: one attempt too many.
MutRescheduled ==
    IF ~ Queued THEN mem
    ELSE [mem EXCEPT !.jobs[cur] =
            IF job.attempts + 1 > MaxAttempts THEN NoJob
            ELSE [job EXCEPT !.attempts = job.attempts + 1]]

\* _reschedule_reconciliation_job, or the end of the last attempt.
Rescheduled ==
    IF ~ Queued THEN mem
    ELSE [mem EXCEPT !.jobs[cur] =
            IF job.attempts + 1 >= MaxAttempts THEN NoJob
            ELSE [job EXCEPT !.attempts = job.attempts + 1]]

\* The PATCH is uncertain, or failed in a way that may pass, or for good.
PatchFails ==
    /\ pc = "patch"
    /\ Trouble
    /\ \/ MoveReply /\ mem' = Rescheduled /\ UNCHANGED where
       \/ mem' = Rescheduled /\ UNCHANGED <<zulip, strayed>>
       \/ JobEnds /\ UNCHANGED <<zulip, strayed>>
    /\ Release(Reconciliation(cur))
    /\ NextJob
    /\ Forget(Main)
    /\ UNCHANGED <<gen, disk, todo, saved, attached, workers, leftover>>

\* A GET of the reconciliation fails in a way that may pass.
ReconcileLater ==
    /\ pc \in {"sent", "stayClaim", "moveClaim"}
    /\ Trouble
    /\ mem' = Rescheduled
    /\ NextJob
    /\ Forget(Main)
    /\ UNCHANGED <<zulip, gen, rsv, disk, todo, saved, attached,
                   workers, strayed, leftover>>

\* The route is published and the job removed.
PublishRoute ==
    /\ pc = "recNote"
    /\ CanNote(mem.reg, rsv, JobConversation)
    /\ mem' = [mem EXCEPT !.reg = Note(@, JobConversation),
                         !.jobs[cur] = IF Queued THEN NoJob ELSE @]
    /\ gen' = gen + NoteBumps(Note(mem.reg, JobConversation))
    /\ Release(Reconciliation(cur))
    /\ NextJob
    /\ Forget(Main)
    /\ UNCHANGED <<zulip, disk, todo, saved, attached, workers, strayed, leftover, troubles>>

\* Otherwise a copy of the state takes its place, and the job is given up.
PublishRouteFails ==
    /\ pc = "recNote"
    /\ NoteFails(JobConversation)
    /\ JobEnds
    /\ gen' \in {gen, gen + Bump(NoteThread(mem.reg, JobConversation))}
    /\ attached' = FALSE
    /\ Release(Reconciliation(cur))
    /\ NextJob
    /\ Forget(Main)
    /\ UNCHANGED <<zulip, disk, todo, saved, workers, strayed, leftover>>

ReconcileEnds ==
    /\ pc = "reconcile"
    /\ todo = {}
    /\ disk' = mem
    /\ pc' = "page"
    /\ UNCHANGED <<zulip, shared, view, todo, cur, saved, job, attached,
                   workers, strayed, leftover, troubles>>

\* The save of an iteration without reconciliations, or after them, fails: the
\* iteration ends.
LoopSaveFails ==
    /\ \/ pc = "finish" /\ Ended \cup Broken = {} /\ QueuedJobs = {}
       \/ pc = "reconcile" /\ todo = {}
    /\ Trouble
    /\ disk' \in {disk, mem}
    /\ pc' = "finish"
    /\ UNCHANGED <<zulip, shared, view, todo, cur, saved, job, attached,
                   workers, strayed, leftover>>

(***************************************************************************)
(* admit_messages.  A page holds messages with the topics they were        *)
(* fetched in; they are resolved one by one, in the order of their age.    *)
(***************************************************************************)
Waiting == {m \in Msgs : where[m] \in Topics /\ mem.stage[m] = "new" /\ step[m] = "idle"}
At(s) == {m \in Msgs : step[m] = s}

FetchPage(M) ==
    /\ pc = "page"
    /\ M \subseteq Waiting
    /\ step' = [m \in Msgs |-> IF m \in M THEN "fetched" ELSE step[m]]
    /\ conv' = [m \in Msgs |-> IF m \in M THEN [NoConv EXCEPT !.msg = m, !.topic = where[m]]
                               ELSE conv[m]]
    /\ pc' = IF M = {} THEN "finish" ELSE "resolve"
    /\ UNCHANGED <<zulip, shared, disk, view, todo, cur, saved, job, attached,
                   notice, sessions, strayed, leftover, troubles>>

\* resolve_session up to its lock.
Resolve(m) ==
    /\ pc = "resolve"
    /\ m \in At("fetched")
    /\ m = First(At("fetched"))
    /\ LET t     == conv[m].topic
           ok    == CanResolve(mem.reg, where, m, t)
           owner == IF ok THEN OwnerOf(Resolved(mem.reg, where, m, t)) ELSE NoOwner
           stale == IF ok /\ StaleOwner(mem.reg, where, t) THEN StoredOwner(mem.reg, t) ELSE NoOwner
       IN  view' = [view EXCEPT ![Main] =
                        [gen |-> gen, ok |-> ok, topic |-> t, owner |-> owner, stale |-> stale]]
    /\ cur' = m
    /\ pc' = "claim"
    /\ UNCHANGED <<zulip, shared, disk, todo, saved, job, attached, workers, strayed, leftover, troubles>>

\* Under the lock a stale owner loses the name, whatever becomes of the message.
Unchanged ==
    /\ view[Main].ok
    /\ view[Main].gen = gen
    /\ view[Main].stale # NoOwner =>
        ClaimsAgree(mem.reg, target) /\ StoredOwner(mem.reg, target) = view[Main].stale

Cleared ==
    IF Unchanged /\ view[Main].stale # NoOwner
    THEN Expire(mem.reg, target, view[Main].stale) ELSE mem.reg

Admissible == Unchanged /\ StillFree(Cleared, view[Main].owner, target) /\ Reservable(Main)

\* The route is reserved for the message, or refused.
ResolveClaim(m) ==
    /\ pc = "claim"
    /\ m = cur
    /\ SetRegistry(Cleared)
    /\ leftover' = leftover \cup
            (IF Cleared = mem.reg THEN {} ELSE Leftovers(mem.reg, target, view[Main].stale))
    /\ IF Admissible
       THEN /\ Reserve(Admission(m), Main)
            /\ conv' = [conv EXCEPT ![m].thread = view[Main].owner.thread,
                                    ![m].sess = view[Main].owner.sess]
            /\ Go(m, "resolved")
            /\ pc' = "mention"
            /\ UNCHANGED cur
       ELSE /\ Go(m, "refused")
            /\ pc' = "resolve"
            /\ cur' = 0
            /\ UNCHANGED <<rsv, conv>>
    /\ Forget(Main)
    /\ UNCHANGED <<zulip, disk, todo, saved, job, attached, notice, sessions, strayed, troubles>>

\* The anchors cannot be read for the moment: the origin is retried.
ResolveLater(m) ==
    /\ pc = "claim"
    /\ m = cur
    /\ Trouble
    /\ Go(m, "deferred")
    /\ pc' = "resolve"
    /\ cur' = 0
    /\ Forget(Main)
    /\ UNCHANGED <<zulip, shared, disk, todo, saved, job, attached, conv, notice, sessions, strayed, leftover>>

(***************************************************************************)
(* With the route reserved, a message that joins no turn must mention the  *)
(* bot: verify_live_direct_mention reads it again, twice.                  *)
(***************************************************************************)
\* The thread has a turn, in active_keys until the turn is finished.
Active(x) == \E n \in Msgs : step[n] \in TurnSteps /\ conv[n].thread = x

ReadAgain(m) == RequireMention /\ ~ Active(conv[m].thread)

NextMessage ==
    /\ pc' = "resolve"
    /\ cur' = 0

\* The message activates a turn or steers one.
Activate(m) ==
    /\ pc = "mention"
    /\ m = cur
    /\ ReadAgain(m) => where[m] = conv[m].topic
    /\ Go(m, "prepared")
    /\ NextMessage
    /\ UNCHANGED <<zulip, shared, disk, view, todo, saved, job, attached, conv, notice, sessions,
                   strayed, leftover, troubles>>

\* Mutation: an ignored message keeps its reservation.
MutIgnore(m) ==
    /\ pc = "mention"
    /\ m = cur
    /\ ReadAgain(m) => where[m] = conv[m].topic
    /\ Go(m, "ignored")
    /\ NextMessage
    /\ UNCHANGED <<zulip, shared, disk, view, todo, saved, job, attached, conv, notice, sessions,
                   strayed, leftover, troubles>>

\* It has no mention, or its sender may not activate or steer a turn.
Ignore(m) ==
    /\ pc = "mention"
    /\ m = cur
    /\ ReadAgain(m) => where[m] = conv[m].topic
    /\ Release(Admission(m))
    /\ Go(m, "ignored")
    /\ NextMessage
    /\ UNCHANGED <<zulip, mem, gen, disk, view, todo, saved, job, attached, conv, notice, sessions,
                   strayed, leftover, troubles>>

\* It was edited or moved, or cannot be read.  The exception passes by the release
\* of the reservation, which is not in prepared either: nobody will release it.
MentionFails(m) ==
    /\ pc = "mention"
    /\ m = cur
    /\ ReadAgain(m)
    /\ \/ where[m] # conv[m].topic /\ Go(m, "deferred") /\ UNCHANGED troubles
       \/ Trouble /\ \E s \in {"deferred", "refused"} : Go(m, s)
    /\ rsv' = {[r EXCEPT !.by = IF @ = Admission(m) THEN Nobody ELSE @] : r \in rsv}
    /\ NextMessage
    /\ UNCHANGED <<zulip, mem, gen, disk, view, todo, saved, job, attached, conv, notice, sessions,
                   strayed, leftover>>

\* The copy for the rollback, and the fate of what is not admitted.
BeginAdmission ==
    /\ pc = "resolve"
    /\ At("fetched") = {}
    /\ saved' = [mem |-> mem, gen |-> gen]
    /\ mem' = [mem EXCEPT !.stage = [m \in Msgs |->
                    CASE step[m] = "ignored" -> "done"
                      [] step[m] = "refused" -> "dead"
                      [] OTHER -> @[m]]]
    /\ pc' = "note"
    /\ UNCHANGED <<zulip, gen, rsv, disk, view, todo, cur, job, attached, workers,
                   strayed, leftover, troubles>>

\* Everything that the page admitted is undone, and its reservations end.
InAdmission == At("prepared") \cup At("noted") \cup At("ignored") \cup At("refused") \cup At("deferred")

EndAdmission(stays) ==
    /\ rsv' = {r \in rsv : r.by[1] # "admission"}
    /\ step' = [m \in Msgs |-> IF m \in InAdmission \ stays THEN "idle" ELSE step[m]]
    /\ conv' = [m \in Msgs |-> IF m \in InAdmission \ stays THEN NoConv ELSE conv[m]]
    /\ saved' = [mem |-> EmptyState, gen |-> 0]

Undo ==
    /\ mem' = saved.mem
    /\ gen' = saved.gen
    /\ EndAdmission({})
    /\ pc' = "finish"

NoteAdmitted(m) ==
    /\ pc = "note"
    /\ m \in At("prepared")
    /\ m = First(At("prepared"))
    /\ CanNote(mem.reg, rsv, conv[m])
    /\ mem' = [mem EXCEPT !.reg = Note(@, conv[m]), !.stage[m] = "admitted"]
    /\ gen' = gen + NoteBumps(Note(mem.reg, conv[m]))
    /\ Go(m, "noted")
    /\ UNCHANGED <<zulip, rsv, disk, view, mains, conv, notice, sessions, strayed, leftover, troubles>>

NoteAdmittedFails(m) ==
    /\ pc = "note"
    /\ m \in At("prepared")
    /\ m = First(At("prepared"))
    /\ NoteFails(conv[m])
    /\ Undo
    /\ UNCHANGED <<zulip, disk, view, todo, cur, job, attached, notice, sessions, strayed, leftover>>

SaveAdmission ==
    /\ pc = "note"
    /\ At("prepared") = {}
    /\ \/ /\ disk' = mem
          /\ EndAdmission(At("noted"))
          /\ pc' = "submit"
          /\ UNCHANGED <<mem, gen, troubles>>
       \/ /\ Trouble
          /\ disk' \in {disk, mem}
          /\ Undo
    /\ UNCHANGED <<zulip, view, todo, cur, job, attached, notice, sessions, strayed, leftover>>

\* Mutation: a turn is looked for by its topic.
MutSteers(m) == \E n \in Msgs : step[n] \in TurnSteps /\ conv[n].topic = conv[m].topic

\* The conversation of m has a turn under way.
Steers(m) == Active(conv[m].thread)

Submit(m) ==
    /\ pc = "submit"
    /\ m \in At("noted")
    /\ m = First(At("noted"))
    /\ ~ Steers(m)
    /\ Go(m, "refresh")
    /\ UNCHANGED <<zulip, shared, disk, view, mains, conv, notice, sessions, strayed, leftover, troubles>>

SteeredStages == {"done", "new", "dead", "hermes_may_start"}
Steered(m, stage) == [mem EXCEPT !.stage[m] = stage]

\* The message is handed to that turn or answered, deferred until the turn has
\* ended, dead-lettered, or left for the next start when its fate is uncertain.
Steer(m) ==
    /\ pc = "submit"
    /\ m \in At("noted")
    /\ m = First(At("noted"))
    /\ Steers(m)
    /\ \E stage \in SteeredStages : mem' = Steered(m, stage)
    /\ disk' = mem'
    /\ Go(m, "idle")
    /\ conv' = [conv EXCEPT ![m] = NoConv]
    /\ UNCHANGED <<zulip, gen, rsv, view, mains, notice, sessions, strayed, leftover, troubles>>

\* One of its saves fails: the iteration ends, and what it has not submitted stays
\* admitted until the next start.
SteerFails(m) ==
    /\ pc = "submit"
    /\ m \in At("noted")
    /\ m = First(At("noted"))
    /\ Steers(m)
    /\ Trouble
    /\ \E stage \in SteeredStages \cup {"admitted"} : mem' = Steered(m, stage)
    /\ disk' \in {disk, mem', Steered(m, "hermes_may_start")}
    /\ step' = [n \in Msgs |-> IF step[n] = "noted" THEN "idle" ELSE step[n]]
    /\ conv' = [n \in Msgs |-> IF step[n] = "noted" THEN NoConv ELSE conv[n]]
    /\ pc' = "finish"
    /\ UNCHANGED <<zulip, gen, rsv, view, todo, cur, saved, job, attached, notice, sessions,
                   strayed, leftover>>

SubmitEnds ==
    /\ pc = "submit"
    /\ At("noted") = {}
    /\ pc' = "finish"
    /\ UNCHANGED <<zulip, shared, disk, view, todo, cur, saved, job, attached,
                   workers, strayed, leftover, troubles>>

(***************************************************************************)
(* A crash, and the start from the state file: an admitted origin is       *)
(* retried, one that Hermes may have seen is not.                          *)
(***************************************************************************)
Recovered(st) ==
    [st EXCEPT !.stage = [m \in Msgs |->
        CASE @[m] = "admitted" -> "new"
          [] @[m] = "hermes_may_start" -> IF st.jobs[m] # NoJob THEN "done" ELSE "dead"
          [] OTHER -> @[m]]]

\* The main thread cannot pass by a broken turn.
Crash ==
    /\ IF pc = "finish" /\ Broken # {} THEN UNCHANGED troubles ELSE Trouble
    /\ mem' = Recovered(disk)
    /\ disk' = mem'
    /\ gen' = 0
    /\ rsv' = {}
    /\ view' = [a \in Msgs \cup {Main} |-> NoView]
    /\ pc' = "finish"
    /\ todo' = {}
    /\ cur' = 0
    /\ saved' = [mem |-> EmptyState, gen |-> 0]
    /\ job' = NoJob
    /\ attached' = TRUE
    /\ step' = [m \in Msgs |-> "idle"]
    /\ conv' = [m \in Msgs |-> NoConv]
    /\ notice' = {}
    /\ UNCHANGED <<zulip, sessions, strayed, leftover>>

(***************************************************************************)
(* The specification.                                                      *)
(***************************************************************************)
MainNext ==
    \/ FinishEnds \/ CheckSent \/ StayClaim \/ MoveClaim \/ SaveAttempt \/ SaveAttemptFails
    \/ Patch \/ PatchFails \/ ReconcileLater \/ PublishRoute \/ PublishRouteFails \/ ReconcileEnds
    \/ LoopSaveFails
    \/ BeginAdmission \/ SaveAdmission \/ SubmitEnds
    \/ \E M \in SUBSET Msgs : FetchPage(M)
    \/ \E m \in Msgs :
        \/ Finish(m) \/ FinishLater(m) \/ TakeJob(m) \/ Resolve(m) \/ ResolveClaim(m) \/ ResolveLater(m)
        \/ Activate(m) \/ Ignore(m) \/ MentionFails(m)
        \/ NoteAdmitted(m) \/ NoteAdmittedFails(m) \/ Submit(m)
        \/ Steer(m) \/ SteerFails(m)

WorkerNext(m) ==
    \/ Refresh(m) \/ Look(m) \/ Claim(m) \/ NotReady(m) \/ Launch(m) \/ LaunchFails(m)
    \/ Answers(m) \/ Errs(m) \/ Fetch(m) \/ ReplyLook(m) \/ ReplyClaim(m)
    \/ Post(m) \/ PostFails(m) \/ Publish(m) \/ PublishFails(m)
    \/ SaveReply(m) \/ SaveReplyFails(m)

Users ==
    \/ \E m \in Msgs, t \in Topics : PostMessage(m, t)
    \/ \E m \in Msgs, t \in Places : MoveMessage(m, t)
    \/ \E t, u \in Topics : Rename(t, u)

Next == MainNext \/ (\E m \in Msgs : WorkerNext(m)) \/ Users \/ Crash

Spec == Init /\ [][Next]_vars

(***************************************************************************)
(* Safety.                                                                 *)
(***************************************************************************)
\* Whatever the order of notes, expiries and rollbacks, in memory and in the
\* state file no topic has claims that disagree (such a topic is refused to
\* every message from then on), and no session belongs to two threads.  Only a
\* claim that was left over when the name was taken under another spelling may
\* contradict the new owner.
OwnersAgree ==
    \A st \in {mem, disk} :
        /\ \A t \in Topics :
            <<t, st.reg.topicSess[t]>> \notin leftover => ClaimsAgree(st.reg, t)
        /\ \A s \in Sessions : \A x, y \in ThreadsOf(st.reg, s) : x = y

\* What a name that is taken from its owner should mean: no claim of that owner
\* on the name stays behind to contradict the next owner.
EveryClaimAgrees == \A t \in Topics : ClaimsAgree(mem.reg, t)

\* A reserved destination is not given to another conversation and not
\* reserved for two, so what was checked for a message stays true until it is
\* admitted, or answered and published: the other actors, a rollback included,
\* cannot cause the publication to be refused.
ReservationHolds ==
    /\ \A r \in rsv :
        /\ ~ OwnersConflict(r.owner, StoredOwner(mem.reg, r.topic))
        /\ ~ ReservationConflicts(rsv, r.topic, r.owner)
    /\ \A m \in At("resolved") \cup At("prepared") \cup At("publish") : CanNote(mem.reg, rsv, conv[m])

\* A reservation ends with what it was made for, however that ends: the admission
\* of its message, its turn, or the reconciliation of its reply.  Otherwise its
\* topic would be refused to all other conversations until a restart.  Only a
\* failed look at the mention of a message loses its reservation (MentionFails).
HasActor(r) ==
    \E m \in Msgs :
        \/ r.by = Admission(m) /\ step[m] \in {"resolved", "prepared", "noted"}
        \/ r.by = Turn(m) /\ step[m] \in {"ready", "post", "publish", "save"}
        \/ r.by = Reconciliation(m) /\ m = cur

ReservationsEnd == \A r \in rsv : r.by # Nobody => HasActor(r)

\* Two turns that Hermes has started never work on one thread or one session
\* at the same time, even when the topics were moved and merged meanwhile.
UnderWay ==
    At("run") \cup At("origin") \cup At("replyLook") \cup At("replyClaim") \cup At("post")
        \cup At("publish") \cup At("save")

OneTurnPerSession ==
    \A m, n \in UnderWay :
        m # n => /\ conv[m].thread # conv[n].thread
                 /\ conv[m].sess # NoSession => conv[m].sess # conv[n].sess

\* Where the bridge put a reply can be told from its job, in memory and after
\* a crash, until the list of attempted routes is full: otherwise the
\* reconciliation takes the reply for a foreign message.
Found(j, t) == t = j.topic \/ t \in Range(j.tried) \/ Len(j.tried) = MaxTried

WhereaboutsKnown ==
    \A st \in {mem, disk}, m \in Msgs :
        st.jobs[m] # NoJob /\ m \notin strayed => Found(st.jobs[m], at[m])
=============================================================================
