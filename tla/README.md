# Verification of the Hermes Zulip bridge

TLA+ models of `hermes-zulip-bridge`, checked with TLC on small instances and,
for the properties that matter most, proved with TLAPS for every value of the
constants. Paths below are relative to the repository; `bridge.py`,
`notifier.py` and `locking.py` are under `src/hermes_zulip_bridge/`.

    tlc -workers 2 -config bridge_faults.cfg MCBridge    # one run
    tlapm Bridge_proofs.tla                              # one proof module

`PROJECT.json` lists the runs, what each shows, the mutation that each property
detects, the source lines of every definition, and the hazards of the code.

## 1. The system

The bridge polls Zulip, admits messages ("origins") that ask for a Hermes turn,
runs one Hermes process per origin in a worker thread and posts the answer. The
notifier is a second program that announces finished Kanban tasks. Both keep one
state file, replaced as a whole on every save, and both run under a process lock.

| part | state | operations | interacts with |
|---|---|---|---|
| durable origin state (`bridge.py` 4217-4492) | `origin_in_flight` with a stage, `origin_retries`, `dead_letters`, `reply_reconciliations`, `seen_ids` | admit, mark, retry, terminalize, recover | main loop and workers, under `STATE_LOCK` |
| main loop (`_main` 6722-7401) | `seen`, `pending`, active keys, `active_steering`, the rollback copies | fetch, admit, submit, steer, answer inline, finish, save, shut down | everything below |
| workers (`handle_message`, `hermes_reply`, `reply`) | a future and an `execution` record per origin | mark, start, answer, post, publish the proof | durable state, Hermes, Zulip |
| reply reconciliation (5095-5440) | signed jobs | publish, verify, move, retire | main loop, workers |
| Hermes processes (2741-3151) | `ACTIVE_PROCESSES`, `ACTIVE_INTERRUPTS`, `SHUTTING_DOWN` | register, open the gate, interrupt, time out, unregister, stop all | workers and main loop, under `ACTIVE_LOCK` |
| steering sidecar (1742-2080) | one JSON-lines file per active origin | append, bound, remove | main loop writes, Hermes reads, worker removes |
| topic ownership (3193-4170, 4495-4960, 6448-6632) | threads, aliases, sessions, reservations | resolve, reserve, refresh, migrate | main loop and workers |
| goal loop, slash commands (5608-6007) | the goal of a session (Hermes) | answer locally, continue after an answer | workers, main loop |
| state file and signing key (1137-1715) | the file, its MAC key | load, validate, save | everybody |
| seen window (6796-6831) | the last 500 identifiers | cut at every save, read at start | main loop |
| notifier | `outbox`, `notified`, `dead_letters` | scan, post, reconcile, dead-letter | Kanban board, Zulip |
| process lock | anchor and guard files, `flock` | acquire, validate, release | bridge, notifier, smoke test |
| launcher, configuration, smoke test, Kanban helper, deployment | - | - | start the bridge |

What is hard to get right: the state file lags behind memory, and a save may
fail after it has replaced the file; main thread and workers mutate the same
dictionary between saves; a POST or a started process cannot be taken back, so
each needs a durable mark before and a proof after it; steering hands a message
to a turn that may be over; and everything may stop between any two of these.

What makes each part correct:

- *durable state*: an origin is in one queue at most, nothing that was accepted
  is forgotten, limits hold in memory and on disk;
- *main loop and workers*: Hermes gets an origin once, a reply is posted once,
  what runs is recorded first, everything admitted is retired in the end;
- *seen window*: a handled message is not new after a restart;
- *Hermes processes*: an interruption hits the run it was meant for and is
  honoured, a shutdown leaves no process behind, every turn ends;
- *topic ownership and routes*: a topic has one owner, a session one thread; what
  was checked for a destination stays true until it is used; one session never
  has two turns; a reply that was moved can be found again;
- *sidecar*: a live run can read what was stored for it, and nothing else;
- *notifier*: no notification is repeated without a review, none is out of
  order, no uncertain POST disappears, every terminal task is settled;
- *lock*: one holder, even when files are removed, and no permanent lock-out.

## 2. Modules

| module | models | state and actions |
|---|---|---|
| `DurableState` | the origin queues as one record and the operations on it | pure operators: `AdmitOrigins`, `MarkMayStart`, `UpsertRetry`, `Terminalize`, ... |
| `Bridge` | main loop, workers, state file, crash and restart | `state` and `seen` in memory, `disk`; `pc`, `round`, `batch`, `target` for the main thread; `phase`, `result` per worker |
| `ExecutionRecord` | what the state file promises, abstractly: a write-ahead record of executions | `closed`, `given`; `Commit`, `Give` |
| `Ownership` | the ownership registry: aliases, keyed by name, topic sessions, keyed by spelling, threads, reservations | pure operators: `NoteThread`, `StoredOwner`, `MayAnswerIn`, `Resolved`, `Expire`, ... |
| `Routes` | resolution, mention check and admission, generation routes of turns, reply reconciliation, Zulip's users | `mem`, `disk`, `gen`, `rsv`; `view` per actor; `where`, `at` in Zulip; `pc` and `step` |
| `SeenWindow` | the window of identifiers | `Persist` computes the list saved, `Restart` reads it, `Handle` takes a page |
| `ActiveTurn` | process registry, start gate, sidecar, shutdown | `active`, `interrupts`, `leader`, `sidecar`; `wpc` per worker, `mpc` for the main thread |
| `Notifier` | the Kanban notifier | `mem`, `disk`, `board`, `sent`; one action per step between two saves |
| `Announcement` | what the notifier promises of every notification, abstractly | `open`, `posted`, `reviews`; `Record`, `Post` |
| `ProcessLock` | `_acquire_anchor` and the hand-off | one step per system call that touches the lock directory, but for the two `lstat` of the guard in `CheckGuard`, which is written once |
| `MCBridge`, `MCRoutes`, `MCSeenWindow`, `MCActiveTurn`, `MCNotifier`, `MCProcessLock` | instances for TLC | - |
| `Bridge_proofs`, `Queues_proofs`, `Durability_proofs`, `SeenWindow_proofs`, `Routes_proofs`, `ActiveTurn_proofs`, `Notifier_proofs`, `ProcessLock_proofs` | proofs | - |

`Bridge` extends `DurableState` and implements `ExecutionRecord` (`Record`, with
the origins that the file excludes as `closed`). `Routes` extends `Ownership`; it
has the same two kinds of threads as `Bridge` and the same saves, but keeps of an
origin only its stage and looks at where messages, turns and replies are, which
in `Bridge` never changes. `ActiveTurn` refines one piece of `Bridge`'s
worker (its phases `gate` and `run`), `SeenWindow` the set that `Bridge` leaves
uncut; the modules share no variables.

### Bridge

Each mutation of the shared dictionary is a step and each save is another, so
two threads interleave as they do in the code: `Mark` (set
`hermes_may_start`), `MarkSave`, `Register`, `StartHermes`, `HermesEnds`,
`PostAnswer`, `Publish`, `PublishSave` are the successive steps of a worker.
The main thread's loop is the sequence finish (`FinishNext`), reconcile and
save, fetch the due retries (`Fetch`, `FetchSave`), take the page, admit
(`Admit`, `AdmitSave`), and submit (`SubmitNext`, `SteerNext`, `InlineNext`),
twice per iteration: for the retries and for the page (`round`). `PersistOk` and
`PersistFails` are the outcomes of `persist_state`: a failed save leaves the old
file or the new one. `Undo` is the restoration of the copies (7198-7205,
7075-7082). The handler at 7198 also runs when no save failed: for a note that a
limit of the registry refuses (7192-7195), and for a queue that turns out to be
full inside the block. The model has these as the failure of the admission's save
that leaves the file as it was, since what follows is the same; a refusal before
the copies are taken (7154-7158) changes nothing (`Admit`). The two saves of
`finish_post_commit` and of `finish_rejected_post` both precede the removal of the
turn from `pending`, so the second one (`PostCommitRetire`) may fail and be repeated
while the turn is still there. `Crash` loses the memory at any point, `RequestShutdown` is SIGTERM,
`Restart` loads the file and recovers what was in flight.

Left out: times (a queued origin may be due whenever the loop looks), the 500
window, further replies of a goal loop, signatures, reasons and counters that
only limit retries of a save; the order within a batch is arbitrary. Whether an
origin is a goal query is fixed (`GoalQueries`): a message that is edited into or
out of one between its admission and the refresh of its content (4908-4917) is not
modelled.

### Ownership and Routes

One stream of one realm. A topic is a spelling, and stands for "T" and the resolved
"✔ T". The code has three notions of when two spellings are the same topic, and so
has the model: the aliases, the thread identifiers and the reservations ignore case
and spacing (`Name`, bridge.py:3335), `topic_sessions` does not (`topicSess` is keyed
by spelling, bridge.py:3193), and Zulip ignores case (`ZulipName`). Taking a name
from a stale owner (`Expire`) therefore leaves the session of another spelling
behind; the history variable `leftover` has these claims.

Each look at Zulip and at the registry (`Look`, `ReplyLook`, `Resolve`,
`CheckSent`) is one step that leaves a `view` with the generation number it saw,
and its use under `STATE_LOCK` (`Claim`, `ReplyClaim`, `ResolveClaim`,
`StayClaim`, `MoveClaim`) is another one: what happens in between has to show in
the generation (`Confirmed`, `Unchanged`). Users post, move and rename between
any two steps. A page is resolved message by message, with reservations. A
message that joins no running turn is then read again for its mention: it goes
on (`Activate`), is ignored and gives its reservation back (`Ignore`), or the
request fails, and the reservation is lost (`MentionFails`, its holder becomes
`Nobody`). The page is then noted and saved as a whole (`NoteAdmitted`,
`SaveAdmission`) or undone, generation included (`Undo`). A turn refreshes its
origin, reserves, releases and starts Hermes, fetches the origin again,
reserves, posts, publishes and saves. The main thread then reconciles the reply:
it checks provenance and the sent message, records and saves the attempted
topic, sends the PATCH, and publishes the new route. Hermes gives a turn without
a session a new one (`Answers`); an error notice is posted without one (`Errs`).

Each save may fail, before or after it replaced the file. A failed save of the mark
ends the bridge (`LaunchFails`: the turn is `broken`, and only `Crash` follows); that
of a published reply is repeated by the main thread (`SaveReplyFails`,
`FinishLater`); the others end the iteration (`SaveAttemptFails`, `LoopSaveFails`,
`SteerFails`, `Finish`) or undo the page.

Left out: realm migration, native thread identifiers, the alias manifest and its
repairs, the change of a session in a goal loop, goal queries that the main thread
answers itself on an active conversation (their reservation and POST, 7225-7230),
and how a steered message ends up where it does (`Steer` chooses the outcome;
`Bridge` has the steps). The limits of the registry are refusals that may happen
when a note would add to it (`NoteFails`); those of the queues are in `Bridge` only.

### ActiveTurn

The n-th process of origin m is the run `<<m, n>>`: a start that fails before
Hermes is retried with the same message identifier, and an answered turn may
continue a goal. The main thread holds `ACTIVE_LOCK` over several steps
(`append`, `signal`, `confirm`), because `store_active_steering_if_live` calls
Zulip and saves the state while it holds it; every critical section of a worker
is one step guarded by `LockFree`. Left out: PID reuse, descendants beyond "has
one", output readers, a crash of the bridge (an origin past its durable mark is
not run again: that is `Bridge`), the sidecar's permissions and its repair.

One observation has no property, since no document says what should happen: when
a process exits between the check and the signal of `interrupt_active_message`,
the steering message is put aside as not acknowledged *and* the turn is reported
as interrupted, so that its finished answer is dropped (`InterruptTooLate`).

### Notifier

A notification is a task at a revision. `Scan` reads a board that may be old and
plans; `StartPost` and its save precede the POST; an answer that does not arrive
makes the job uncertain, and `Reconcile` looks for the marker in Zulip.
`Persist` may fail with the file replaced, and memory is not rolled back. Left
out: migration of the legacy format, incomparable revisions, payload sizes.

It implements `Announcement` (`Announced`): `open` are the jobs of the file with a
POST under way or under review, `posted` the messages in Zulip and `reviews` the
dead letters of the file. `Post` is the arrival of a message, `Record` a save.

### ProcessLock

The lock is an `flock` on the inode that both links name. `Intrude` removes or
replaces the anchor a bounded number of times. Left out: owners, modes and file
types, and the public path that nobody reads.

## 3. Runs

Bounds are chosen so that each scenario a property is about occurs. Two or three
origins suffice for the bridge because its rules relate one origin to itself, to
the turn it steers, or to the batch it is in. `bridge_faults` has three, so that a save may
fail while one is running, one steers it and one is still to be submitted; a goal query
would make the run too long, so that one is in `bridge_rollback`, and that its answer is
recorded and posted once is what the theorems say.

| run | bounds | shows |
|---|---|---|
| `bridge_faults` | 3 origins, 1 conversation, 1 failed save without a rollback, 1 crash | `HermesAtMostOnce`, `UncertainSteeringKept`, `RunIsRecorded`, `ReplyAtMostOnce`, `NoSaveForgets`, `TerminalIsRetained`, `IInv`, the invariant of the proof, and the refinement `WritesAhead` |
| `bridge_rollback` | 2 origins, one a goal query, failed saves everywhere, room for 1 dead letter, 2 jobs and 2 retries | `TypeOK`, `PendingIsDurable`, `QueuesDisjoint`, `QueuesBounded`; a full dead-letter queue stops the bridge for good, so deadlock is not checked |
| `bridge_live` | 2 origins, 2 conversations, a local slash command, 1 crash, fair | `AdmittedIsRetired` |
| `routes` | 2 origins, 2 topics, one of them with 2 spellings, and another stream, 3 sessions, 2 moves, faults or crashes in all | `TypeOK`, `OwnersAgree`, `ReservationHolds`, `ReservationsEnd`, `OneTurnPerSession`, `WhereaboutsKnown` |
| `seen_window` | 5 identifiers, window and page of 3 | `HandledOnce`, `ListIsLoadable`, `RequiredKept` |
| `turn_hard` | 2 origins with 2 runs each, interrupting steering, shutdown anywhere | `TypeOK`, `StoppedMeansDead`, `InterruptedWasAsked`, `InterruptIsHonoured`; the bridge exits, so deadlock is not checked |
| `turn_soft` | 1 origin with 3 runs, 2 steering messages, room for 1, fair | `NoRecordOfAFinishedTurn`, `StoredIsReadable`, `TurnEnds` |
| `notifier_safe` | 2 tasks, 2 revisions, 1 fault | `TypeOK`, `RepeatIsReviewed`, `NotifiedWasSent`, `NoOldNews`, `UncertainIsKept`, `IInv`, the invariant of the proof, and the refinement `AnnouncesWithReview` |
| `notifier_live` | 1 task, 2 revisions, 2 faults, fair | `TerminalIsSettled` |
| `lock` | 3 processes, 1 intrusion, 2 crashes or releases, fair | `MutualExclusion`, `ColdStart`, `LockIsTaken` |

Two messages suffice for `routes`: its rules relate two conversations that meet in
a topic, and each message may open, join or take one; the other topic lets each
move away while the other takes its name, in the same spelling or the other one.
Only the two spellings are interchangeable (symmetry): they have the same name, and
Zulip's users may do anything with either. `RequireMention` is TRUE; without it
`MentionFails` never happens, and the proofs cover both. Two turns give
out two sessions; the third is for a turn that the undo race repeats.

Runs in which the code does not do what the repository says:

| run | property | what happens |
|---|---|---|
| `bridge_undo_race` | `HermesAtMostOnce` | a failed admission save puts back a copy of the state in which a worker's origin is not yet marked; after a crash Hermes gets the origin again (README.md:173) |
| `routes_spelling` | `EveryClaimAgrees` | "Foo" is renamed and its name reused as "foo": the alias is removed by name, the session of "Foo" is not (bridge.py:3962, 6199), contradicts the session of the new conversation, and every message in "Foo" is refused from then on (README.md:11, tests/test_bridge.py:2259) |

More disagreements came up. They have no run of their own; the properties
above are stated, or their bounds chosen, so that they say what does hold:

- Identifiers that the window cut off stay in `seen`, the next save appends them
  as new, and they push out newer ones, which a restart takes for new origins
  (bridge.py:6820, README.md:173). `HandledOnce` says "while the window holds
  every identifier"; without that condition `seen_window` refutes it.
- A slash command that the bridge answers itself is never marked, so a crash
  between its reply and the save of its completion repeats the reply
  (bridge.py:5983, README.md:185). `bridge_faults` has no such command.
- A start that fails after the process was registered leaves the sidecar to the
  next run of the same origin (bridge.py:3081, README.md:187).
  `NoRecordOfAFinishedTurn` excepts runs whose start failed.
- A dead letter does not keep the next scan from admitting the task again, so a
  notification whose POST was uncertain is posted a second time (notifier.py:1033,
  while README.md:175 has "never blindly resent"). `RepeatIsReviewed` says that
  each repetition has its review.
- When the topic of a conversation is renamed and another message takes the old
  name before the bridge has noted the rename, the first conversation's thread
  still shows that name, and the new message joins it (bridge.py:6530, 7130,
  README.md:11). The same happens to two messages of a page whose admission is
  undone. `OwnersAgree` says that the claims on a topic agree, but for those left
  over, not that they are right.
- A failed publication replaces the state by a copy while a reconciliation pass
  holds the job objects of the old one (bridge.py:5200, 5363). The attempt that
  `_record_attempted_route` then records is not in the state that is saved, and
  the job is neither removed nor rescheduled; the next pass may take the moved
  reply for a foreign message. `WhereaboutsKnown` excepts these replies
  (`strayed`), those that users move, and those posted twice after the undo race
  above.
- The route of a new message is reserved before its mention is checked. When that
  check raises (a failed GET, or the message was edited or moved), the handler records
  a route failure, and nobody releases the reservation (bridge.py:7114, 7132, 7143,
  7207), while the tests assert of all other users of reservations that none is left
  (tests/test_bridge.py:5365). In a reused name the retried message no longer resolves
  to the thread it reserved, and its own reservation refuses it and all others until
  a restart. `ReservationsEnd` excepts these reservations (`Nobody`), and
  `ReservationHolds` is about them too.
- The list of attempted topics keeps the newest 8 while a job has 16 attempts
  (bridge.py:264, 5278): after more than 8 destinations, the one in which a lost
  PATCH left the reply may be cut off. `WhereaboutsKnown` speaks of a job until
  its list is full (`Found`).
- `finish_pending` notes the conversation of an answered turn again with the topic
  it was answered in, after the reconciliation may have moved on
  (bridge.py:6962): the thread shows an older topic until its next message.
- An admission that races any change of ownership, of whatever topic, is refused
  as "ownership changed" and the origin dead-lettered, since the refusal does not
  count as one that may pass (bridge.py:6582, 7167). No document promises a retry.
- A board that does not fit into the outbox ends every scan before its
  deliveries, so an uncertain POST is never settled (notifier.py:1060,
  README.md:175). The one task of `notifier_live` always fits.

### Fairness

- `Bridge`: the service template says `Restart=always`, so `Restart` is weakly
  fair; the main thread and each worker keep moving (their network calls have
  timeouts). Due retries are taken in the order of their times, which are
  bounded, so a loop that runs on fetches each: strong fairness of `FetchOf`.
  Nothing makes a save fail or the process crash.
- `ActiveTurn`: a worker's steps are weakly fair, those that need the lock
  strongly, since the main thread sleeps between polls with the lock free. A
  Hermes process has no fairness at all: its time limit ends it.
- `Notifier`: scans repeat and deliveries proceed; a job that stays in the outbox
  becomes due, as its delay is at most 900 seconds. Requests are not assumed to
  succeed.
- `ProcessLock`: a process that asks proceeds through the acquisition. Nothing
  makes a holder release. After an interference every process fails, which is
  what the code intends; `LockIsTaken` speaks of the behaviours without one.

## 4. Proofs

`Bridge_proofs` proves `TypeCorrect == Spec => []TypeOK`. Its first part says once
what each operation on the queues does to an entry; the type proof has one lemma
per group of variables, each split by action.

It then proves `BridgeInvariant` (`IInv`), `AtMostOnce` (`HermesAtMostOnce`) and
`Refinement`, that `Bridge` implements `ExecutionRecord`, for every set of origins,
every limit and any number of crashes and failed saves, from one assumption,
`ReliableAdmission`: neither of the two blocks that can put an old copy of the state
back (7198-7205, 7076-7082) does so, be it for a failed save, a refused note or a
full queue. `bridge_undo_race` shows that the assumption is needed. `HermesAtMostOnce` is not inductive; the
invariant `IInv` adds

- `FedIsKnown`: an origin given to Hermes is marked, seen or under review, in the
  file and, while the process is up, in memory, so that neither admission nor
  recovery takes it for new;
- `BatchIsFresh`: what the main thread is about to submit or feed was never fed,
  and is in flight;
- `WorkersAreStaged`: the phase of a worker fixes the stage of its origin in
  memory and, from the saved mark on, in the file;
- `SteeringIsFed`, `NothingRunsYet`: bindings of steering messages, and an empty
  process after a restart.

Each step gets a lemma that says what it does to each entry (`EntryStep`), from
which the parts of `IInv` follow separately (`DisjointStep`, `KnownStep`,
`StagedStep`, `BatchStep`, ...). For the refinement, a step that gives an origin
to Hermes leaves the file alone and finds it marked there (`FeedingKeepsFile`),
and every other step keeps what was given excluded (`FedIsKnown`).

`Queues_proofs` assumes nothing of the saves: a rollback may restore an old copy at
any time. It proves `QueuesStayDisjoint` (`QueuesDisjoint`), `PoolIsDurable`
(`PendingIsDurable`) and `QueuesStayBounded` (`QueuesBounded`). Its invariant `QInv`
speaks of the copy kept for a rollback as it does of memory and file:

- `OriginsOK`: in memory an origin with a worker, or fed to a running turn, has its
  entry or is seen, and is not uncertain steering; the file has it too;
- `CopiesOK`: while an admission may be undone, all this holds of the copy as well, and
  jobs are only added, so that undoing loses none;
- `BatchWaits`: what is prepared and not submitted yet has an entry and no worker,
  and the turn of a rejected POST has ended;
- `LimitsOK`: memory, file and copy are within the limits, and so are the jobs
  together with those that the replies under way may still need (`Claimed`).

`Durability_proofs` has three invariants, one on top of the other, and the same
assumption as `AtMostOnce`. `DInv` proves `RunsAreRecorded` (`RunIsRecorded`). `IInv`
does not imply it: an origin that is excluded in the file may be so because it is
uncertain steering, and not as a run. `DInv` adds

- `UncertainIsIdle`: uncertain steering has no worker, is not in a batch, and is
  forgotten neither in memory nor by the next save;
- `BatchIsSaved`: from the save of the admission on, the batch is in the file;
- `PendingIsHeld`: an origin with a worker has its in-flight entry in memory, or is
  seen and only waits for its turn to be retired.

Its lemma `Moves` says what each step of a running process does to an origin: what
is excluded stays so, unless it was not used yet or failed before anything
happened (`Forgettable`).

`RInv` proves `ReplyOnce` (`ReplyAtMostOnce`), with one more assumption,
`HermesAnswers`: the bridge answers no slash command by itself. A slash command is
answered without the mark, and its answer may be repeated after a crash; the run
that checks the property has none either. `RInv` says that an origin
for which something was posted is excluded in the file and in memory, is not in
a batch any more, and has a worker that only records and retires it, never one
that ends in `retry` or `rejected` (`PostedIsKnown`); `AnswerIsStarted` and
`InlineIsMarked` put the mark into the file before each of the two POSTs.

`KInv` proves `UncertainIsKept` (`UncertainSteeringKept`) and two action properties of
the file, `SavesForgetNothing` (`NoSaveForgets`) and `TerminalStays`
(`TerminalIsRetained`). A save writes what memory has, so the proof is about memory:
`MemoryOK` says that memory still has every trace of an origin that the file has
(`Held`: queued, in flight, seen or a dead letter), `RecordOK` how these traces
exclude and imply each other at each stage of a turn, and `FileOK` what of it is
true of the file, from which a restart rebuilds memory. The hard part is that a step
takes a trace away only when it leaves another one.

`SeenWindow_proofs` proves the three invariants of `seen_window` for every window and
page size, any limits and any number of messages. Below them are lemmas about lists:
ranks in a finite set are a bijection (`AscendingFacts`), the list that
`persist_state` writes repeats nothing, has what is required, and has all that is
seen while the window has room for it (`SavedIdsFacts`). `Roomy` is the inductive
form of `HandledOnce`: a handled message is seen, and a saved one is in the file.

`Notifier_proofs` proves every safety property of `notifier_safe`, for any finite
set of tasks, all revisions and limits, and any number of crashes and failed
saves, with no assumption besides the ranges of the constants. The properties
speak of Zulip, the file and memory; the invariant `IInv` says of each state what
it may claim of the messages in Zulip:

- `OutboxOrdered`: a task has at most one job, of a revision newer than the one
  notified, and a job that was not posted is of the newest revision;
- `Tells`: a notification that may still be posted is there at most as often as
  it was reviewed, nothing is there of a revision newer than the job's, and what is
  notified is there or was suppressed;
- `Follows`: each POST that the file has under way is under way in memory, was
  found, or has one more dead letter; the reverse, a job under way in memory only
  was not posted: this is what remains when saves fail and memory goes on;
- `DeliveryFollows`: where the program is, in particular that memory is the file
  when the POST is sent.

The hardest case is a delivery in memory while the file still has an *older*
revision of the task under way after a failed save; it does not occur, since the
file would then deny the message that was found (`DeliveredSound`). For the
refinement, a step that replaces the file is a `Record`, one that changes Zulip a
`Post`, every other one a stutter (`AnnouncedStep`).

`ActiveTurn_proofs` proves every safety property of `turn_hard` and `turn_soft`, for
any origins, runs and steering messages, from the ranges of the constants alone.
None of them is inductive: they relate a process to a registry entry that may be
removed by three parties. The invariant `IInv` adds

- `RunsAreOrdered`: where a worker is fixes which of its runs may live; earlier
  ones have ended and have an outcome, later ones do not exist;
- `RegistryIsCurrent`: `active` and `interrupts` name the worker's current run or
  none, and they name it while it may live, unless the bridge is shutting down;
- `MainIsPlaced`: while the main thread holds `ACTIVE_LOCK`, the run it serves stays
  registered, although its process may exit;
- `AliveIsListed`: from the moment `SHUTTING_DOWN` is set until the processes are
  ended, each one alive is on the list; this needs the check in `Start` and the
  snapshot to be under one lock;
- `AckedIsNoted`: an acknowledged interruption is noted until its run has an
  outcome, so `Forget` must keep the interrupt;
- `RecordsAreCurrent`, `FedIsPast`: whose records a sidecar may hold.

One lemma per part (`OrderedStep`, `CurrentStep`, `ListedStep`, ...) goes through
the actions that touch it.

`ProcessLock_proofs` proves `LockInvariant` (`IInv`) and `Exclusion`, mutual exclusion
for any number of processes, intrusions and crashes. The invariant says that two
processes never have the same file locked and that a holder's file is the one the
guard names; the guard is written once. `ColdStartWorks` (`ColdStart`) needs more of
the moments before anybody ends or interferes (`ColdFacts`): whoever has an anchor
open has the one there is, the guard is missing while one is about to publish it,
and an anchor that is published is locked by somebody, who ends as the holder.

`Routes_proofs` proves every property of `routes`, for any messages, topics and
sessions and any number of moves, failures and crashes, from the ranges of the
constants alone (`OwnershipAssumption`, `RoutesAssumption`). Its invariant
`RoutesInv` has a part for each property:

- `NamesOwned`, `OneClaim`, `ClaimsAreOld` prove `OwnersAlwaysAgree`. A session that a
  topic is claimed for belongs to the thread of that name, unless the claim was left
  over (`NamesAreOwned`), and to some thread in any case (`Backed`). `OwnersAgree`
  speaks of two registries, but a session also lives in the copy kept for a rollback,
  in the conversation of a turn, in a job and in a view, and can come back from each
  of them. `Claimed` collects them all: one thread has each session, and a new
  session is newer than every one of them.
- `TurnsApart` proves `OneTurn`: a turn begins on a thread that has none and keeps
  its thread to the end.
- `Whereabouts` proves `RepliesAreTraced`. A job on its way through a reconciliation
  is compared with the ones in memory, in the file and in the copy (`Continues`):
  each attempt knows every topic that an earlier one knew, and a reply moves only
  when the file has the attempt.
- `Holds` proves `ReservationsHold` and `ReservationsAlwaysEnd`, and is the hard part. A
  note is refused when the name has another owner, its spelling another session, or
  the thread another session. `HoldersKnown` says of each reservation that its actor
  carries exactly what it reserved, or that it was lost (`NobodyHolds`); `Reserved` is
  the reverse, `NamesFree` and `Compatible` say that nobody else has the name. What
  remains is that the session of a thread does not change under a reservation: only
  the thread's own turn publishes a new one, because a message in admission
  (`AdmittedSessions`), a job (`JobSessions`), a view (`SeenOwners`) and a lost
  reservation bring no session that their thread does not have, and a rollback
  restores a copy that has no more than the registry (`CopyIsOlder`). The generation
  number is not part of the argument, so its reuse after a rollback does no harm here.

As in the other proofs, each part has a lemma that says what a step does to the
state it speaks of (`TurnStep`, `CopyStep`, `TurnSeenStep`, ...), split by action,
and one that derives the part from it.

Only model-checked: liveness (`AdmittedIsRetired`, `TurnEnds`, `TerminalIsSettled`,
`LockIsTaken`), since fairness and `ENABLED` are out of the prover's reach. Every
safety property that a run checks is a theorem.

## 5. Not modelled

Realm migration, native thread identifiers and the alias manifest; text handling, attachments, history and the API
client (pure functions and I/O whose outcomes are choices of `Bridge`); the
session database (nothing else reads it); MACs and file permissions; launcher,
configuration, smoke test, Kanban helper and installers (sequential, stateless).

## 6. Plan

Done, in this order: `DurableState`, `Bridge`, `SeenWindow`, the proofs of
`TypeCorrect` and `AtMostOnce`, `Notifier`, `ProcessLock` with `Exclusion`,
`ActiveTurn`; then `Ownership` and `Routes`, `ExecutionRecord` with `Refinement`,
`Announcement` with the proofs of `Notifier`, the proofs of `ActiveTurn`, those of the
remaining safety properties of `Bridge`, those of `SeenWindow`, `ColdStart` and
`Routes`.

What is left: `Notifier` with legacy migration and incomparable revisions, and the
retry delay arithmetic (`durable_retry_delay`) against its bounds.
