--------------------------- MODULE Notifier_proofs ---------------------------
(***************************************************************************)
(* The safety of the notifier, for any number of tasks and revisions, any  *)
(* limits, crashes and failed saves: its inductive invariant, and that it  *)
(* implements Announcement.                                                *)
(***************************************************************************)
EXTENDS Notifier, FiniteSetTheorems, SequenceTheorems, TLAPS

USE NotifierAssumption DEF Revs

(***************************************************************************)
(* States and their dead letters.                                          *)
(***************************************************************************)
Fields(st) ==
    /\ st = [revision |-> st.revision, notified |-> st.notified,
             outbox |-> st.outbox, dead |-> st.dead]
    /\ st.revision \in [Tasks -> 0 .. MaxRev]
    /\ st.notified \in [Tasks -> 0 .. MaxRev]
    /\ st.outbox \in [Tasks -> Jobs]
    /\ st.dead \in Seq(Tasks \X Revs)

Limits(st) ==
    /\ Len(st.dead) <= MaxDead
    /\ \A t \in Tasks : st.outbox[t].rev <= st.revision[t]
    /\ \A t \in Tasks : st.notified[t] # 0 => st.revision[t] # 0
    /\ Cardinality(JobsOf(st)) <= MaxOutbox
    /\ Cardinality({t \in Tasks : st.revision[t] # 0}) <= MaxNotified

\* A state is valid when its fields are and its limits hold.
LEMMA ValidFields ==
    ASSUME NEW st \in ValidStates
    PROVE  Fields(st) /\ Limits(st)
  <1>1. PICK n \in 0 .. MaxDead : st.dead \in [1 .. n -> Tasks \X Revs]
    BY DEF ValidStates
  <1>2. st.dead \in Seq(Tasks \X Revs) /\ Len(st.dead) = n
    BY <1>1
  <1>3. Fields(st)
    BY <1>2 DEF ValidStates, Fields
  <1>4. Limits(st)
    BY <1>1, <1>2 DEF ValidStates, Limits, JobsOf
  <1>. QED
    BY <1>3, <1>4

LEMMA FieldsValid ==
    ASSUME NEW st, Fields(st), Limits(st)
    PROVE  st \in ValidStates
  <1>1. st.dead \in [1 .. Len(st.dead) -> Tasks \X Revs] /\ Len(st.dead) \in 0 .. MaxDead
    BY LenProperties DEF Fields, Limits
  <1>2. st.dead \in UNION {[1 .. n -> Tasks \X Revs] : n \in 0 .. MaxDead}
    BY <1>1
  <1>3. st \in [revision : [Tasks -> 0 .. MaxRev], notified : [Tasks -> 0 .. MaxRev],
                outbox : [Tasks -> Jobs],
                dead : UNION {[1 .. n -> Tasks \X Revs] : n \in 0 .. MaxDead}]
    BY <1>2 DEF Fields
  <1>. QED
    BY <1>3 DEF ValidStates, Limits, JobsOf

\* The number of reviews is a number, and only depends on the dead letters.
LEMMA CountNat ==
    ASSUME NEW st, Fields(st), NEW t, NEW r
    PROVE  IsFiniteSet(Reviews(st, t, r)) /\ Count(st, t, r) \in Nat
  <1>0. Len(st.dead) \in Nat
    BY LenProperties DEF Fields
  <1>1. IsFiniteSet(1 .. Len(st.dead))
    BY <1>0, FS_Interval
  <1>2. Reviews(st, t, r) \in SUBSET (1 .. Len(st.dead))
    BY DEF Reviews
  <1>. QED
    BY <1>1, <1>2, FS_Subset, FS_CardinalityType DEF Count

LEMMA CountSame ==
    ASSUME NEW st, NEW new, new.dead = st.dead, NEW t, NEW r
    PROVE  Count(new, t, r) = Count(st, t, r)
  BY DEF Count, Reviews

\* A dead letter asks for one more review, of its notification.
LEMMA CountAppend ==
    ASSUME NEW st, Fields(st), NEW t \in Tasks, NEW r \in Revs,
           NEW new, new.dead = Append(st.dead, <<t, r>>), NEW u, NEW q
    PROVE  Count(new, u, q) = Count(st, u, q) + IF u = t /\ q = r THEN 1 ELSE 0
  <1>. DEFINE n == Len(st.dead)
  <1>1. /\ st.dead \in Seq(Tasks \X Revs)
        /\ n \in Nat
        /\ Len(new.dead) = n + 1
        /\ new.dead[n + 1] = <<t, r>>
        /\ \A i \in 1 .. n : new.dead[i] = st.dead[i]
    BY LenProperties, AppendProperties DEF Fields
  <1>2. IsFiniteSet(Reviews(st, u, q)) /\ Count(st, u, q) \in Nat
    BY CountNat
  <1>3. CASE u = t /\ q = r
    <2>1. Reviews(new, u, q) = Reviews(st, u, q) \cup {n + 1}
      BY <1>1, <1>3 DEF Reviews
    <2>2. n + 1 \notin Reviews(st, u, q)
      BY <1>1 DEF Reviews
    <2>3. Cardinality(Reviews(st, u, q) \cup {n + 1}) = Cardinality(Reviews(st, u, q)) + 1
      BY <1>2, <2>2, FS_AddElement
    <2>. QED
      BY <1>3, <2>1, <2>3 DEF Count
  <1>4. CASE ~ (u = t /\ q = r)
    <2>1. Reviews(new, u, q) = Reviews(st, u, q)
      BY <1>1, <1>4 DEF Reviews
    <2>. QED
      BY <1>2, <1>4, <2>1 DEF Count
  <1>. QED
    BY <1>3, <1>4

\* Fewer jobs are within the limit.
LEMMA FewerJobs ==
    ASSUME NEW st \in ValidStates, NEW new, JobsOf(new) \subseteq JobsOf(st)
    PROVE  Cardinality(JobsOf(new)) <= MaxOutbox
  <1>1. JobsOf(st) \in SUBSET Tasks
    BY DEF JobsOf
  <1>2. IsFiniteSet(JobsOf(st))
    BY <1>1, FS_Subset
  <1>3. IsFiniteSet(JobsOf(new)) /\ Cardinality(JobsOf(new)) <= Cardinality(JobsOf(st))
    BY <1>2, FS_Subset
  <1>4. Cardinality(JobsOf(st)) \in Nat /\ Cardinality(JobsOf(new)) \in Nat
    BY <1>2, <1>3, FS_CardinalityType
  <1>5. Cardinality(JobsOf(st)) <= MaxOutbox
    BY ValidFields DEF Limits
  <1>. QED
    BY <1>3, <1>4, <1>5

(***************************************************************************)
(* What the operations on the outbox do.                                   *)
(***************************************************************************)
\* From st to new only the job of t changes, and it counts reviews.
OthersStay(st, new, t) ==
    /\ new.revision = st.revision
    /\ \A u \in Tasks \ {t} : new.outbox[u] = st.outbox[u] /\ new.notified[u] = st.notified[u]

SameCounts(st, new) ==
    \A u \in Tasks, r \in Revs : Count(new, u, r) = Count(st, u, r)

\* The job of t goes to the dead letters.
JobReviewed(st, new, t) ==
    /\ OthersStay(st, new, t)
    /\ new.notified[t] = st.notified[t]
    /\ new.outbox[t] = NoJob
    /\ Count(new, t, st.outbox[t].rev) = Count(st, t, st.outbox[t].rev) + 1
    /\ \A u \in Tasks, r \in Revs :
        ~ (u = t /\ r = st.outbox[t].rev) => Count(new, u, r) = Count(st, u, r)

\* The job of t is in stage afterwards.
JobStaged(st, new, t, stage) ==
    /\ OthersStay(st, new, t)
    /\ new.notified[t] = st.notified[t]
    /\ new.outbox[t] # NoJob
    /\ new.outbox[t].rev = st.outbox[t].rev
    /\ new.outbox[t].stage = stage
    /\ stage = "admitted" => new.outbox[t].attempts < MaxAttempts
    /\ SameCounts(st, new)

\* The job of t was delivered.
JobDelivered(st, new, t) ==
    /\ OthersStay(st, new, t)
    /\ new.notified[t] = st.outbox[t].rev
    /\ new.outbox[t] = NoJob
    /\ SameCounts(st, new)

\* Assignments to one field of a state.
LEMMA SetJob ==
    ASSUME NEW st, NEW r, NEW n, NEW o, NEW d,
           st = [revision |-> r, notified |-> n, outbox |-> o, dead |-> d],
           NEW t, NEW job
    PROVE  [st EXCEPT !.outbox[t] = job]
            = [revision |-> r, notified |-> n, outbox |-> [o EXCEPT ![t] = job], dead |-> d]
  OBVIOUS

LEMMA SetNotified ==
    ASSUME NEW st, NEW r, NEW n, NEW o, NEW d,
           st = [revision |-> r, notified |-> n, outbox |-> o, dead |-> d],
           NEW t, NEW q
    PROVE  [st EXCEPT !.notified[t] = q]
            = [revision |-> r, notified |-> [n EXCEPT ![t] = q], outbox |-> o, dead |-> d]
  OBVIOUS

LEMMA SetAttempts ==
    ASSUME NEW st, Fields(st), NEW t \in Tasks, NEW a
    PROVE  [st EXCEPT !.outbox[t].attempts = a]
            = [st EXCEPT !.outbox[t] = [st.outbox[t] EXCEPT !.attempts = a]]
  <1>1. \A r, n, o, d :
            [[revision |-> r, notified |-> n, outbox |-> o, dead |-> d]
                EXCEPT !.outbox[t].attempts = a]
            = [[revision |-> r, notified |-> n, outbox |-> o, dead |-> d]
                EXCEPT !.outbox[t] = [o[t] EXCEPT !.attempts = a]]
    OBVIOUS
  <1>. QED
    BY <1>1 DEF Fields

\* A state in which one job changes, and perhaps its notification.
JobChanged(st, t, n, job, dead) ==
    [revision |-> st.revision,
     notified |-> [st.notified EXCEPT ![t] = n],
     outbox   |-> [st.outbox EXCEPT ![t] = job],
     dead     |-> dead]

LEMMA JobChange ==
    ASSUME NEW st, Fields(st), NEW t \in Tasks, NEW job, NEW q
    PROVE  /\ [st EXCEPT !.outbox[t] = job] = JobChanged(st, t, st.notified[t], job, st.dead)
           /\ [st EXCEPT !.notified[t] = q, !.outbox[t] = job]
                    = JobChanged(st, t, q, job, st.dead)
  <1>1. st = [revision |-> st.revision, notified |-> st.notified,
              outbox |-> st.outbox, dead |-> st.dead]
    BY DEF Fields
  <1>2. PICK r, n, o, d : st = [revision |-> r, notified |-> n, outbox |-> o, dead |-> d]
    BY <1>1
  <1>3. st.revision = r /\ st.notified = n /\ st.outbox = o /\ st.dead = d
    BY <1>2
  <1>4. [st.notified EXCEPT ![t] = st.notified[t]] = st.notified
    BY DEF Fields
  <1>5. [st EXCEPT !.outbox[t] = job]
            = [revision |-> r, notified |-> n, outbox |-> [o EXCEPT ![t] = job], dead |-> d]
    BY <1>2, SetJob
  <1>6. [st EXCEPT !.notified[t] = q, !.outbox[t] = job] = JobChanged(st, t, q, job, st.dead)
    <2>. DEFINE mid == [st EXCEPT !.notified[t] = q]
    <2>1. [st EXCEPT !.notified[t] = q, !.outbox[t] = job] = [mid EXCEPT !.outbox[t] = job]
      OBVIOUS
    <2>2. mid = [revision |-> r, notified |-> [n EXCEPT ![t] = q], outbox |-> o, dead |-> d]
      BY <1>2, SetNotified
    <2>. HIDE DEF mid
    <2>3. [mid EXCEPT !.outbox[t] = job]
            = [revision |-> r, notified |-> [n EXCEPT ![t] = q],
               outbox |-> [o EXCEPT ![t] = job], dead |-> d]
      BY <2>2, SetJob
    <2>. QED
      BY <1>3, <2>1, <2>3 DEF JobChanged
  <1>. QED
    BY <1>3, <1>4, <1>5, <1>6 DEF JobChanged

\* A state whose dead letters stay and whose jobs are among those of a valid
\* state, with the same revisions, is valid.
LEMMA JobChangeValid ==
    ASSUME NEW st \in ValidStates, NEW t \in Tasks, NEW job \in Jobs,
           st.outbox[t] # NoJob, job.rev <= st.outbox[t].rev,
           NEW n \in 0 .. MaxRev, n # 0 => n = st.notified[t] \/ n = st.outbox[t].rev,
           NEW dead \in Seq(Tasks \X Revs), Len(dead) <= MaxDead,
           NEW new, new = JobChanged(st, t, n, job, dead)
    PROVE  new \in ValidStates
  <1>1. Fields(st) /\ Limits(st)
    BY ValidFields
  <1>2. Fields(new)
    BY <1>1 DEF Fields, JobChanged
  <1>3. JobsOf(new) \subseteq JobsOf(st)
    BY <1>1 DEF Fields, JobsOf, JobChanged
  <1>4. Cardinality(JobsOf(new)) <= MaxOutbox
    BY <1>3, FewerJobs
  <1>5. \A u \in Tasks : st.outbox[u].rev \in 0 .. MaxRev /\ job.rev \in 0 .. MaxRev
    BY <1>1 DEF Fields, Jobs, NoJob
  <1>6. \A u \in Tasks : new.outbox[u].rev <= new.revision[u]
    BY <1>1, <1>5 DEF Fields, Limits, JobChanged
  <1>7. st.outbox[t].rev # 0
    BY <1>1 DEF Fields, Jobs
  <1>8. \A u \in Tasks : new.notified[u] # 0 => new.revision[u] # 0
    BY <1>1, <1>5, <1>7 DEF Fields, Limits, JobChanged
  <1>9. Limits(new)
    BY <1>1, <1>4, <1>6, <1>8 DEF Limits, JobChanged
  <1>. QED
    BY <1>2, <1>9, FieldsValid

LEMMA DeadLetterEffect ==
    ASSUME NEW st \in ValidStates, NEW t \in Tasks, st.outbox[t] # NoJob
    PROVE  /\ DeadLetter(st, t) \in ValidStates
           /\ \/ JobReviewed(st, DeadLetter(st, t), t)
              \/ JobStaged(st, DeadLetter(st, t), t, "operator_review")
  <1>. DEFINE new == DeadLetter(st, t)
              r == st.outbox[t].rev
  <1>1. Fields(st) /\ Limits(st)
    BY ValidFields
  <1>2. Len(st.dead) \in Nat
    BY <1>1, LenProperties DEF Fields
  <1>3. r \in Revs /\ st.outbox[t] \in Jobs
    BY <1>1 DEF Fields, Jobs
  <1>4. CASE Len(st.dead) >= MaxDead
    <2>. DEFINE job == [st.outbox[t] EXCEPT !.stage = "operator_review"]
    <2>1. job \in Jobs /\ job.rev = r /\ job.stage = "operator_review" /\ job # NoJob
      BY <1>1, <1>3 DEF Fields, Jobs, NoJob
    <2>2. new = JobChanged(st, t, st.notified[t], job, st.dead)
      BY <1>1, <1>4 DEF DeadLetter, Fields, JobChanged
    <2>. HIDE DEF job, new
    <2>3. new \in ValidStates
      <3>1. st.notified[t] \in 0 .. MaxRev /\ st.dead \in Seq(Tasks \X Revs) /\ Len(st.dead) <= MaxDead
        BY <1>1 DEF Fields, Limits
      <3>2. job.rev <= st.outbox[t].rev
        BY <1>3, <2>1
      <3>. QED
        BY <2>1, <2>2, <3>1, <3>2, JobChangeValid
    <2>4. SameCounts(st, new)
      BY <2>2, CountSame DEF SameCounts, JobChanged
    <2>5. JobStaged(st, new, t, "operator_review")
      BY <1>1, <2>1, <2>2, <2>4 DEF JobStaged, OthersStay, Fields, JobChanged
    <2>. QED
      BY <2>3, <2>5 DEF new
  <1>5. CASE ~ Len(st.dead) >= MaxDead
    <2>. DEFINE dead == Append(st.dead, <<t, r>>)
    <2>1. dead \in Seq(Tasks \X Revs) /\ Len(dead) <= MaxDead
      BY <1>1, <1>2, <1>3, <1>5, AppendProperties DEF Fields
    <2>2. new = JobChanged(st, t, st.notified[t], NoJob, dead)
      BY <1>1, <1>5 DEF DeadLetter, Fields, JobChanged
    <2>3. NoJob \in Jobs /\ NoJob.rev <= r
      BY <1>3 DEF Jobs, NoJob
    <2>4. \A u \in Tasks, q \in Revs :
            Count(new, u, q) = Count(st, u, q) + IF u = t /\ q = r THEN 1 ELSE 0
      BY <1>1, <1>3, <2>2, CountAppend DEF JobChanged
    <2>5. \A u \in Tasks, q \in Revs : Count(st, u, q) \in Nat
      BY <1>1, CountNat
    <2>. HIDE DEF new, dead
    <2>6. new \in ValidStates
      <3>1. st.notified[t] \in 0 .. MaxRev
        BY <1>1 DEF Fields
      <3>. QED
        BY <2>1, <2>2, <2>3, <3>1, JobChangeValid
    <2>7. JobReviewed(st, new, t)
      <3>1. OthersStay(st, new, t) /\ new.notified[t] = st.notified[t] /\ new.outbox[t] = NoJob
        BY <1>1, <2>2 DEF OthersStay, Fields, JobChanged
      <3>2. Count(new, t, r) = Count(st, t, r) + 1
        BY <1>3, <2>4
      <3>3. \A u \in Tasks, q \in Revs : ~ (u = t /\ q = r) => Count(new, u, q) = Count(st, u, q)
        BY <2>4, <2>5
      <3>. QED
        BY <3>1, <3>2, <3>3 DEF JobReviewed
    <2>. QED
      BY <2>6, <2>7 DEF new
  <1>. QED
    BY <1>4, <1>5

\* The state in which the job of t has made another attempt.
LEMMA FailedEffect ==
    ASSUME NEW st \in ValidStates, NEW t \in Tasks, st.outbox[t].stage \in {"admitted"} \cup Uncertain
    PROVE  /\ Failed(st, t) \in ValidStates
           /\ \/ JobReviewed(st, Failed(st, t), t)
              \/ JobStaged(st, Failed(st, t), t, "operator_review")
              \/ JobStaged(st, Failed(st, t), t, st.outbox[t].stage)
  <1>. DEFINE attempts == IF st.outbox[t].attempts < MaxAttempts
                          THEN st.outbox[t].attempts + 1 ELSE MaxAttempts
              job == [st.outbox[t] EXCEPT !.attempts = attempts]
              counted == [st EXCEPT !.outbox[t].attempts = attempts]
  <1>1. Fields(st) /\ Limits(st)
    BY ValidFields
  <1>2. st.outbox[t] \in Jobs \ {NoJob} /\ st.outbox[t].rev \in Revs
    BY <1>1 DEF Fields, Jobs, NoJob, Uncertain
  <1>3. attempts \in 0 .. MaxAttempts
    BY <1>2 DEF Jobs, NoJob
  <1>4. /\ job \in Jobs
        /\ job.rev = st.outbox[t].rev
        /\ job.stage = st.outbox[t].stage
        /\ job.attempts = attempts
        /\ job # NoJob
    BY <1>2, <1>3 DEF Jobs, NoJob
  <1>5. counted = JobChanged(st, t, st.notified[t], job, st.dead)
    BY <1>1, SetAttempts, JobChange
  <1>6. Failed(st, t) = IF attempts >= MaxAttempts THEN DeadLetter(counted, t) ELSE counted
    BY DEF Failed
  <1>. HIDE DEF attempts, job, counted
  <1>7. counted \in ValidStates
    <2>1. st.notified[t] \in 0 .. MaxRev /\ st.dead \in Seq(Tasks \X Revs) /\ Len(st.dead) <= MaxDead
      BY <1>1 DEF Fields, Limits
    <2>2. job.rev <= st.outbox[t].rev
      BY <1>2, <1>4
    <2>. QED
      BY <1>2, <1>4, <1>5, <2>1, <2>2, JobChangeValid
  <1>8. /\ SameCounts(st, counted)
        /\ counted.revision = st.revision
        /\ counted.notified = st.notified
        /\ counted.outbox[t] = job
        /\ \A u \in Tasks \ {t} : counted.outbox[u] = st.outbox[u]
    <2>1. counted.revision = st.revision /\ counted.dead = st.dead
      BY <1>5 DEF JobChanged
    <2>2. counted.notified = [st.notified EXCEPT ![t] = st.notified[t]]
      BY <1>5 DEF JobChanged
    <2>3. counted.outbox = [st.outbox EXCEPT ![t] = job]
      BY <1>5 DEF JobChanged
    <2>4. SameCounts(st, counted)
      BY <2>1, CountSame DEF SameCounts
    <2>. QED
      BY <1>1, <2>1, <2>2, <2>3, <2>4 DEF Fields
  <1>9. CASE attempts >= MaxAttempts
    <2>. DEFINE new == DeadLetter(counted, t)
    <2>1. /\ new \in ValidStates
          /\ \/ JobReviewed(counted, new, t)
             \/ JobStaged(counted, new, t, "operator_review")
      BY <1>4, <1>7, <1>8, DeadLetterEffect
    <2>. HIDE DEF new
    <2>2. CASE JobReviewed(counted, new, t)
      <3>1. JobReviewed(st, new, t)
        BY <1>2, <1>4, <1>8, <2>2 DEF JobReviewed, OthersStay, SameCounts
      <3>. QED
        BY <1>6, <1>9, <2>1, <3>1 DEF new
    <2>3. CASE JobStaged(counted, new, t, "operator_review")
      <3>1. JobStaged(st, new, t, "operator_review")
        BY <1>2, <1>4, <1>8, <2>3 DEF JobStaged, OthersStay, SameCounts
      <3>. QED
        BY <1>6, <1>9, <2>1, <3>1 DEF new
    <2>. QED
      BY <2>1, <2>2, <2>3
  <1>10. CASE ~ attempts >= MaxAttempts
    <2>1. JobStaged(st, counted, t, st.outbox[t].stage)
      BY <1>2, <1>3, <1>4, <1>8, <1>10 DEF JobStaged, OthersStay
    <2>. QED
      BY <1>6, <1>7, <1>10, <2>1
  <1>. QED
    BY <1>9, <1>10

LEMMA DeliveredEffect ==
    ASSUME NEW st \in ValidStates, NEW t \in Tasks, st.outbox[t] # NoJob
    PROVE  Delivered(st, t) \in ValidStates /\ JobDelivered(st, Delivered(st, t), t)
  <1>. DEFINE new == Delivered(st, t)
  <1>1. Fields(st) /\ Limits(st)
    BY ValidFields
  <1>2. st.outbox[t].rev \in Revs
    BY <1>1 DEF Fields, Jobs
  <1>3. new = JobChanged(st, t, st.outbox[t].rev, NoJob, st.dead)
    <2>1. new = [st EXCEPT !.notified[t] = st.outbox[t].rev, !.outbox[t] = NoJob]
      BY DEF Delivered
    <2>. DEFINE r == st.outbox[t].rev
    <2>. HIDE DEF r
    <2>2. [st EXCEPT !.notified[t] = r, !.outbox[t] = NoJob] = JobChanged(st, t, r, NoJob, st.dead)
      BY <1>1, JobChange
    <2>. QED
      BY <2>1, <2>2 DEF r
  <1>. HIDE DEF new
  <1>4. new \in ValidStates
    <2>1. st.outbox[t].rev \in 0 .. MaxRev /\ st.dead \in Seq(Tasks \X Revs) /\ Len(st.dead) <= MaxDead
      BY <1>1, <1>2 DEF Fields, Limits
    <2>2. NoJob \in Jobs /\ NoJob.rev <= st.outbox[t].rev
      BY <1>2 DEF Jobs, NoJob
    <2>. QED
      BY <1>3, <2>1, <2>2, JobChangeValid
  <1>5. JobDelivered(st, new, t)
    <2>1. SameCounts(st, new)
      BY <1>3, CountSame DEF SameCounts, JobChanged
    <2>. QED
      BY <1>1, <1>3, <2>1 DEF JobDelivered, OthersStay, Fields, JobChanged
  <1>. QED
    BY <1>4, <1>5 DEF new

\* A job gets another stage, and with it perhaps an attempt.
LEMMA StagedEffect ==
    ASSUME NEW st \in ValidStates, NEW t \in Tasks, NEW job \in Jobs \ {NoJob},
           st.outbox[t] # NoJob, job.rev = st.outbox[t].rev, job.stage # "admitted",
           NEW new, new = [st EXCEPT !.outbox[t] = job]
    PROVE  new \in ValidStates /\ JobStaged(st, new, t, job.stage)
  <1>1. Fields(st) /\ Limits(st)
    BY ValidFields
  <1>2. st.outbox[t].rev \in Revs
    BY <1>1 DEF Fields, Jobs
  <1>3. new = JobChanged(st, t, st.notified[t], job, st.dead)
    BY <1>1, JobChange
  <1>4. new \in ValidStates
    <2>1. st.notified[t] \in 0 .. MaxRev /\ st.dead \in Seq(Tasks \X Revs) /\ Len(st.dead) <= MaxDead
      BY <1>1 DEF Fields, Limits
    <2>2. job.rev <= st.outbox[t].rev
      BY <1>2
    <2>. QED
      BY <1>3, <2>1, <2>2, JobChangeValid
  <1>5. SameCounts(st, new)
    <2>1. new.dead = st.dead
      BY <1>3 DEF JobChanged
    <2>2. \A u, r : Count(new, u, r) = Count(st, u, r)
      BY ONLY <2>1 DEF Count, Reviews
    <2>. QED
      BY <2>2 DEF SameCounts
  <1>. QED
    BY <1>1, <1>3, <1>4, <1>5 DEF JobStaged, OthersStay, Fields, JobChanged

\* The plan of a scan, and of --prime.
Planning(st, new, view, admitted, marked) ==
    /\ \A t \in Tasks :
        /\ new.revision[t] = IF t \in Fresh(st, view) THEN view[t] ELSE st.revision[t]
        /\ new.notified[t] = IF t \in marked THEN view[t] ELSE st.notified[t]
        /\ t \in admitted => new.outbox[t] = NewJob(view[t])
        /\ t \in Replaced(st, view) \ admitted => new.outbox[t] = NoJob
        /\ t \notin Replaced(st, view) \cup admitted => new.outbox[t] = st.outbox[t]
    /\ SameCounts(st, new)

\* A scan admits what is wanted; --prime marks it.
ScanOrPrime(st, view, admitted, marked) ==
    \/ admitted = Wanted(st, view) /\ marked = {}
    \/ admitted = {} /\ marked = Wanted(st, view)

LEMMA PlannedEffect ==
    ASSUME NEW st \in ValidStates, NEW view \in [Tasks -> 0 .. MaxRev], NEW admitted, NEW marked,
           ScanOrPrime(st, view, admitted, marked),
           HasCapacity(st, view), OutboxFits(st, view, admitted)
    PROVE  /\ Planned(st, view, admitted, marked) \in ValidStates
           /\ Planning(st, Planned(st, view, admitted, marked), view, admitted, marked)
  <1>. DEFINE new == Planned(st, view, admitted, marked)
              revision == [t \in Tasks |-> IF t \in Fresh(st, view) THEN view[t] ELSE st.revision[t]]
              notified == [t \in Tasks |-> IF t \in marked THEN view[t] ELSE st.notified[t]]
              outbox == [t \in Tasks |->
                            CASE t \in admitted -> NewJob(view[t])
                              [] t \in Replaced(st, view) \ admitted -> NoJob
                              [] OTHER -> st.outbox[t]]
  <1>1. Fields(st) /\ Limits(st)
    BY ValidFields
  <1>2. new = [revision |-> revision, notified |-> notified, outbox |-> outbox, dead |-> st.dead]
    <2>1. new = [st EXCEPT !.revision = revision, !.notified = notified, !.outbox = outbox]
      BY DEF Planned
    <2>2. st = [revision |-> st.revision, notified |-> st.notified,
                outbox |-> st.outbox, dead |-> st.dead]
      BY <1>1 DEF Fields
    <2>3. PICK r, n, o, d : st = [revision |-> r, notified |-> n, outbox |-> o, dead |-> d]
      BY <2>2
    <2>4. d = st.dead
      BY <2>3
    <2>. HIDE DEF new, revision, notified, outbox
    <2>. DEFINE one == [st EXCEPT !.revision = revision]
                two == [one EXCEPT !.notified = notified]
    <2>5. one = [revision |-> revision, notified |-> n, outbox |-> o, dead |-> d]
      BY <2>3
    <2>6. [st EXCEPT !.revision = revision, !.notified = notified, !.outbox = outbox]
            = [two EXCEPT !.outbox = outbox]
      OBVIOUS
    <2>. HIDE DEF one
    <2>7. two = [revision |-> revision, notified |-> notified, outbox |-> o, dead |-> d]
      BY <2>5
    <2>. HIDE DEF two
    <2>8. [two EXCEPT !.outbox = outbox]
            = [revision |-> revision, notified |-> notified, outbox |-> outbox, dead |-> d]
      BY <2>7
    <2>. QED
      BY <2>1, <2>4, <2>6, <2>8
  <1>3. \A t \in Tasks :
            /\ revision[t] = IF t \in Fresh(st, view) THEN view[t] ELSE st.revision[t]
            /\ notified[t] = IF t \in marked THEN view[t] ELSE st.notified[t]
            /\ t \in admitted => outbox[t] = NewJob(view[t])
            /\ t \in Replaced(st, view) \ admitted => outbox[t] = NoJob
            /\ t \notin Replaced(st, view) \cup admitted => outbox[t] = st.outbox[t]
    OBVIOUS
  <1>4. DOMAIN revision = Tasks /\ DOMAIN notified = Tasks /\ DOMAIN outbox = Tasks
    OBVIOUS
  <1>5. /\ revision = [t \in Tasks |-> revision[t]]
        /\ notified = [t \in Tasks |-> notified[t]]
        /\ outbox = [t \in Tasks |-> outbox[t]]
    OBVIOUS
  <1>. HIDE DEF new, revision, notified, outbox
  <1>6. \A t \in Tasks :
            /\ st.revision[t] \in 0 .. MaxRev
            /\ st.notified[t] \in 0 .. MaxRev
            /\ st.outbox[t] \in Jobs
            /\ st.outbox[t].rev \in 0 .. MaxRev
            /\ view[t] \in 0 .. MaxRev
    BY <1>1 DEF Fields, Jobs, NoJob
  <1>7. /\ admitted \subseteq Wanted(st, view)
        /\ marked \subseteq Wanted(st, view)
    BY DEF ScanOrPrime
  <1>8. \A t \in Wanted(st, view) :
            /\ t \in Fresh(st, view)
            /\ view[t] \in Revs
            /\ NewJob(view[t]) \in Jobs \ {NoJob}
            /\ NewJob(view[t]).rev = view[t]
    <2>1. \A t \in Wanted(st, view) : t \in Fresh(st, view) /\ view[t] \in Revs
      BY DEF Wanted
    <2>2. \A r \in Revs : NewJob(r) \in Jobs \ {NoJob} /\ NewJob(r).rev = r
      <3>1. ASSUME NEW r \in Revs
            PROVE  NewJob(r) \in Jobs \ {NoJob} /\ NewJob(r).rev = r
        <4>1. NewJob(r).rev = r /\ r # 0 /\ NoJob.rev = 0
          BY DEF NewJob, NoJob
        <4>2. NewJob(r) \in Jobs
          BY DEF NewJob, Jobs
        <4>. QED
          BY <4>1, <4>2
      <3>. QED
        BY <3>1
    <2>. QED
      BY <2>1, <2>2
  <1>9. \A t \in Tasks : t \in Fresh(st, view) => view[t] # 0 /\ view[t] >= st.revision[t]
    BY DEF Fresh
  <1>10. NoJob \in Jobs /\ NoJob.rev = 0
    BY DEF Jobs, NoJob
  <1>11. Planning(st, new, view, admitted, marked)
    <2>1. new.revision = revision /\ new.notified = notified
            /\ new.outbox = outbox /\ new.dead = st.dead
      BY <1>2
    <2>2. SameCounts(st, new)
      BY <2>1, CountSame DEF SameCounts
    <2>. QED
      BY <1>3, <2>1, <2>2 DEF Planning
  <1>12. \A t \in Tasks :
            /\ revision[t] \in 0 .. MaxRev
            /\ notified[t] \in 0 .. MaxRev
            /\ outbox[t] \in Jobs
            /\ outbox[t].rev <= revision[t]
            /\ notified[t] # 0 => revision[t] # 0
            /\ revision[t] # 0 => st.revision[t] # 0 \/ view[t] # 0
    <2>1. SUFFICES ASSUME NEW t \in Tasks
                   PROVE  /\ revision[t] \in 0 .. MaxRev
                          /\ notified[t] \in 0 .. MaxRev
                          /\ outbox[t] \in Jobs
                          /\ outbox[t].rev <= revision[t]
                          /\ notified[t] # 0 => revision[t] # 0
                          /\ revision[t] # 0 => st.revision[t] # 0 \/ view[t] # 0
      OBVIOUS
    <2>2. /\ revision[t] \in 0 .. MaxRev
          /\ st.revision[t] <= revision[t]
          /\ revision[t] # 0 => st.revision[t] # 0 \/ view[t] # 0
          /\ t \in Wanted(st, view) => revision[t] = view[t] /\ view[t] # 0
      BY <1>3, <1>6, <1>8, <1>9
    <2>3. notified[t] \in 0 .. MaxRev /\ (notified[t] # 0 => revision[t] # 0)
      BY <1>1, <1>3, <1>6, <1>7, <2>2 DEF Limits
    <2>4. outbox[t] \in Jobs /\ outbox[t].rev <= revision[t]
      <3>1. CASE t \in admitted
        BY <1>3, <1>6, <1>7, <1>8, <2>2, <3>1
      <3>2. CASE t \in Replaced(st, view) \ admitted
        BY <1>3, <1>10, <2>2, <3>2
      <3>3. CASE t \notin Replaced(st, view) \cup admitted
        BY <1>1, <1>3, <1>6, <2>2, <3>3 DEF Limits
      <3>. QED
        BY <3>1, <3>2, <3>3
    <2>. QED
      BY <2>2, <2>3, <2>4
  <1>13. Cardinality(JobsOf(new)) <= MaxOutbox
    <2>1. new.outbox = outbox
      BY <1>2
    <2>2. JobsOf(new) = (JobsOf(st) \ Replaced(st, view)) \cup admitted
      <3>1. ASSUME NEW t \in Tasks
            PROVE  outbox[t] # NoJob
                    <=> (st.outbox[t] # NoJob /\ t \notin Replaced(st, view)) \/ t \in admitted
        BY <1>3, <1>7, <1>8
      <3>2. admitted \subseteq Tasks
        BY <1>7 DEF Wanted, Fresh
      <3>. QED
        BY <2>1, <3>1, <3>2 DEF JobsOf
    <2>. QED
      BY <2>2 DEF OutboxFits
  <1>14. Cardinality({t \in Tasks : new.revision[t] # 0}) <= MaxNotified
    <2>. DEFINE known == {t \in Tasks : new.revision[t] # 0}
                seen == {t \in Tasks : st.revision[t] # 0 \/ view[t] # 0}
    <2>1. known \subseteq seen
      BY <1>2, <1>12
    <2>2. seen \in SUBSET Tasks
      OBVIOUS
    <2>3. IsFiniteSet(seen)
      BY <2>2, FS_Subset
    <2>4. IsFiniteSet(known) /\ Cardinality(known) <= Cardinality(seen)
      BY <2>1, <2>3, FS_Subset
    <2>5. Cardinality(known) \in Nat /\ Cardinality(seen) \in Nat
      BY <2>3, <2>4, FS_CardinalityType
    <2>6. Cardinality(seen) <= MaxNotified
      BY DEF HasCapacity
    <2>. QED
      BY <2>4, <2>5, <2>6
  <1>15. Fields(new)
    <2>1. /\ revision \in [Tasks -> 0 .. MaxRev]
          /\ notified \in [Tasks -> 0 .. MaxRev]
          /\ outbox \in [Tasks -> Jobs]
      BY <1>4, <1>5, <1>12
    <2>. QED
      BY <1>1, <1>2, <2>1 DEF Fields
  <1>16. Limits(new)
    BY <1>1, <1>2, <1>12, <1>13, <1>14 DEF Limits
  <1>. QED
    BY <1>11, <1>15, <1>16, FieldsValid DEF new
-----------------------------------------------------------------------------
(***************************************************************************)
(* Every operation keeps a sound state sound, and follows the file.        *)
(***************************************************************************)
Messages == [Tasks -> [Revs -> Nat]]

\* The numbers that the invariant compares.
LEMMA Numbers ==
    ASSUME NEW st \in ValidStates, NEW t \in Tasks
    PROVE  /\ st.revision[t] \in 0 .. MaxRev
           /\ st.notified[t] \in 0 .. MaxRev
           /\ st.outbox[t] \in Jobs
           /\ st.outbox[t].rev \in 0 .. MaxRev
           /\ st.outbox[t].rev <= st.revision[t]
           /\ st.outbox[t].rev = 0 <=> st.outbox[t] = NoJob
           /\ st.outbox[t].stage = "none" <=> st.outbox[t] = NoJob
           /\ \A r \in Revs : Count(st, t, r) \in Nat
  <1>1. Fields(st) /\ Limits(st)
    BY ValidFields
  <1>2. \A r \in Revs : Count(st, t, r) \in Nat
    BY <1>1, CountNat
  <1>. QED
    BY <1>1, <1>2 DEF Fields, Limits, Jobs, NoJob, Uncertain

LEMMA PlanSound ==
    ASSUME NEW st \in ValidStates, NEW new \in ValidStates, NEW messages \in Messages, NEW marks,
           OutboxOrdered(st), Tells(st, messages, marks),
           NEW view \in [Tasks -> 0 .. MaxRev], NEW admitted, NEW marked,
           ScanOrPrime(st, view, admitted, marked),
           Planning(st, new, view, admitted, marked),
           NEW later, marks \cup {<<t, view[t]>> : t \in marked} \subseteq later
    PROVE  OutboxOrdered(new) /\ Tells(new, messages, later)
  <1>1. \A t \in Tasks :
            /\ t \in admitted \cup marked =>
                /\ t \in Fresh(st, view)
                /\ st.outbox[t] = NoJob \/ t \in Replaced(st, view)
                /\ st.notified[t] # view[t]
            /\ t \in admitted => t \notin marked
            /\ t \in Fresh(st, view) => view[t] # 0 /\ view[t] >= st.revision[t]
            /\ t \in Replaced(st, view) =>
                t \in Fresh(st, view) /\ st.outbox[t].stage = "admitted" /\ view[t] > st.outbox[t].rev
            /\ t \in Fresh(st, view) /\ st.outbox[t].stage = "admitted" /\ view[t] > st.outbox[t].rev
                => t \in Replaced(st, view)
    BY DEF ScanOrPrime, Wanted, Fresh, Replaced
  <1>2. \A t \in Tasks :
            /\ view[t] \in 0 .. MaxRev
            /\ NewJob(view[t]).rev = view[t]
            /\ NewJob(view[t]).stage = "admitted"
            /\ NewJob(view[t]).attempts = 0
    BY DEF NewJob
  <1>3. OutboxOrdered(new)
    <2>1. SUFFICES ASSUME NEW t \in Tasks
                   PROVE  /\ new.outbox[t].stage = "admitted"
                             => new.outbox[t].attempts < MaxAttempts /\ new.outbox[t].rev = new.revision[t]
                          /\ new.notified[t] <= new.revision[t]
                          /\ new.outbox[t] # NoJob => new.notified[t] < new.outbox[t].rev
      BY DEF OutboxOrdered, OrderedAt
    <2>2. /\ st.outbox[t].stage = "admitted"
                => st.outbox[t].attempts < MaxAttempts /\ st.outbox[t].rev = st.revision[t]
          /\ st.notified[t] <= st.revision[t]
          /\ st.outbox[t] # NoJob => st.notified[t] < st.outbox[t].rev
      BY DEF OutboxOrdered, OrderedAt
    <2>3. CASE t \in admitted
      BY <1>1, <1>2, <2>2, <2>3, Numbers DEF Planning
    <2>4. CASE t \in Replaced(st, view) \ admitted
      <3>1. new.outbox[t] = NoJob /\ NoJob.stage = "none"
        BY <2>4 DEF Planning, NoJob
      <3>. QED
        BY <1>1, <1>2, <2>2, <2>4, <3>1, Numbers DEF Planning
    <2>5. CASE t \notin Replaced(st, view) \cup admitted
      <3>1. new.outbox[t] = st.outbox[t]
        BY <2>5 DEF Planning
      <3>2. t \in marked => st.outbox[t] = NoJob
        BY <1>1, <2>5
      <3>3. NoJob.stage = "none"
        BY DEF NoJob
      <3>. QED
        BY <1>1, <1>2, <2>2, <2>5, <3>1, <3>2, <3>3, Numbers DEF Planning
    <2>. QED
      BY <2>3, <2>4, <2>5
  <1>4. Tells(new, messages, later)
    <2>1. SUFFICES ASSUME NEW t \in Tasks, NEW r \in Revs
                   PROVE  /\ messages[t][r] <= Count(new, t, r) + 1
                          /\ MayPost(new, t, r) => messages[t][r] <= Count(new, t, r)
                          /\ messages[t][r] > 0 => r <= new.revision[t]
                          /\ new.outbox[t] # NoJob /\ r > new.outbox[t].rev => messages[t][r] = 0
                          /\ new.notified[t] = r => messages[t][r] > 0 \/ <<t, r>> \in later
      BY DEF Tells, TellsAt
    <2>2. /\ messages[t][r] <= Count(st, t, r) + 1
          /\ MayPost(st, t, r) => messages[t][r] <= Count(st, t, r)
          /\ messages[t][r] > 0 => r <= st.revision[t]
          /\ st.outbox[t] # NoJob /\ r > st.outbox[t].rev => messages[t][r] = 0
          /\ st.notified[t] = r => messages[t][r] > 0 \/ <<t, r>> \in marks
      BY DEF Tells, TellsAt
    <2>3. messages[t][r] \in Nat
      BY DEF Messages
    <2>4. Count(new, t, r) = Count(st, t, r)
      BY DEF Planning, SameCounts
    <2>5. st.revision[t] <= new.revision[t]
      BY <1>1, <1>2, Numbers DEF Planning
    <2>6. new.outbox[t] # NoJob /\ r > new.outbox[t].rev => messages[t][r] = 0
      BY <1>1, <1>2, <2>2, <2>3, Numbers DEF Planning
    <2>7. new.notified[t] = r => messages[t][r] > 0 \/ <<t, r>> \in later
      BY <2>2 DEF Planning
    <2>8. MayPost(new, t, r) => MayPost(st, t, r)
      <3>1. SUFFICES ASSUME new.revision[t] <= r, new.notified[t] # r,
                            new.outbox[t].rev = r => new.outbox[t].stage = "admitted"
                     PROVE  MayPost(st, t, r)
        BY DEF MayPost
      <3>2. st.revision[t] <= r
        BY <2>5, <3>1, Numbers
      <3>3. st.notified[t] # r
        BY <1>1, <1>2, <3>1, Numbers DEF Planning, OutboxOrdered, OrderedAt
      <3>4. st.outbox[t].rev = r => st.outbox[t].stage = "admitted"
        <4>1. NoJob.rev = 0
          BY DEF NoJob
        <4>. QED
          BY <1>1, <3>1, <4>1 DEF Planning
      <3>. QED
        BY <3>2, <3>3, <3>4 DEF MayPost
    <2>. QED
      BY <2>2, <2>3, <2>4, <2>5, <2>6, <2>7, <2>8, Numbers
  <1>. QED
    BY <1>3, <1>4

LEMMA PlanFollows ==
    ASSUME NEW st \in ValidStates, NEW new \in ValidStates, NEW file \in ValidStates,
           NEW messages \in Messages, Follows(file, st, messages),
           NEW view \in [Tasks -> 0 .. MaxRev], NEW admitted, NEW marked,
           ScanOrPrime(st, view, admitted, marked),
           Planning(st, new, view, admitted, marked),
           marked = {} \/ st = file
    PROVE  Follows(file, new, messages)
  <1>1. SUFFICES ASSUME NEW t \in Tasks
                 PROVE  /\ \A r \in Revs : Count(file, t, r) <= Count(new, t, r)
                        /\ file.outbox[t].stage \in Open =>
                            \/ new.outbox[t].rev = file.outbox[t].rev /\ new.outbox[t].stage \in Open
                            \/ /\ new.notified[t] = file.outbox[t].rev
                               /\ messages[t][file.outbox[t].rev] > 0
                            \/ Count(new, t, file.outbox[t].rev) > Count(file, t, file.outbox[t].rev)
                        /\ new.outbox[t].stage \in Open =>
                            \/ file.outbox[t].rev = new.outbox[t].rev /\ file.outbox[t].stage \in Open
                            \/ messages[t][new.outbox[t].rev] <= Count(new, t, new.outbox[t].rev)
    BY DEF Follows, FollowsAt
  <1>2. /\ \A r \in Revs : Count(file, t, r) <= Count(st, t, r)
        /\ file.outbox[t].stage \in Open =>
            \/ st.outbox[t].rev = file.outbox[t].rev /\ st.outbox[t].stage \in Open
            \/ /\ st.notified[t] = file.outbox[t].rev
               /\ messages[t][file.outbox[t].rev] > 0
            \/ Count(st, t, file.outbox[t].rev) > Count(file, t, file.outbox[t].rev)
        /\ st.outbox[t].stage \in Open =>
            \/ file.outbox[t].rev = st.outbox[t].rev /\ file.outbox[t].stage \in Open
            \/ messages[t][st.outbox[t].rev] <= Count(st, t, st.outbox[t].rev)
    BY DEF Follows, FollowsAt
  <1>3. \A r \in Revs : Count(new, t, r) = Count(st, t, r)
    BY DEF Planning, SameCounts
  <1>4. /\ st.outbox[t].stage \in Open => new.outbox[t] = st.outbox[t]
        /\ new.outbox[t].stage \in Open => new.outbox[t] = st.outbox[t]
    <2>1. t \in admitted => st.outbox[t] = NoJob \/ t \in Replaced(st, view)
      BY DEF ScanOrPrime, Wanted
    <2>2. t \in Replaced(st, view) => st.outbox[t].stage = "admitted"
      BY DEF Replaced
    <2>3. /\ NoJob.stage \notin Open
          /\ "admitted" \notin Open
          /\ NewJob(view[t]).stage = "admitted"
      BY DEF Open, Uncertain, NoJob, NewJob
    <2>. QED
      BY <2>1, <2>2, <2>3 DEF Planning
  <1>5. /\ file.outbox[t].stage \in Open => file.outbox[t].rev \in Revs
        /\ new.outbox[t].stage \in Open => new.outbox[t].rev \in Revs
    BY Numbers DEF Open, Uncertain, NoJob
  <1>6. file.outbox[t].stage \in Open /\ st = file => new.outbox[t] = file.outbox[t]
    BY <1>4
  <1>7. t \notin marked => new.notified[t] = st.notified[t]
    BY DEF Planning
  <1>. QED
    BY <1>2, <1>3, <1>4, <1>5, <1>6, <1>7

\* A task whose job, notification and reviews stay is told of as before.
LEMMA OthersAsBefore ==
    ASSUME NEW file, NEW st, NEW new, NEW messages, NEW marks, NEW u \in Tasks,
           new.revision[u] = st.revision[u], new.notified[u] = st.notified[u],
           new.outbox[u] = st.outbox[u],
           \A r \in Revs : Count(new, u, r) = Count(st, u, r)
    PROVE  /\ OrderedAt(st, u) => OrderedAt(new, u)
           /\ \A r \in Revs : TellsAt(st, messages, marks, u, r) => TellsAt(new, messages, marks, u, r)
           /\ file \in ValidStates /\ st \in ValidStates
                => (FollowsAt(file, st, messages, u) => FollowsAt(file, new, messages, u))
  <1>1. OrderedAt(st, u) => OrderedAt(new, u)
    BY DEF OrderedAt
  <1>2. \A r \in Revs : MayPost(new, u, r) = MayPost(st, u, r)
    BY DEF MayPost
  <1>3. \A r \in Revs : TellsAt(st, messages, marks, u, r) => TellsAt(new, messages, marks, u, r)
    BY <1>2 DEF TellsAt
  <1>4. ASSUME file \in ValidStates, st \in ValidStates, FollowsAt(file, st, messages, u)
        PROVE  FollowsAt(file, new, messages, u)
    <2>1. /\ file.outbox[u].stage \in Open => file.outbox[u].rev \in Revs
          /\ st.outbox[u].stage \in Open => st.outbox[u].rev \in Revs
      BY <1>4, Numbers DEF Open, Uncertain, NoJob
    <2>. QED
      BY <1>4, <2>1 DEF FollowsAt
  <1>. QED
    BY <1>1, <1>3, <1>4

LEMMA ReviewedSound ==
    ASSUME NEW st \in ValidStates, NEW new \in ValidStates, NEW file \in ValidStates,
           NEW messages \in Messages, NEW marks, NEW t \in Tasks,
           st.outbox[t] # NoJob, JobReviewed(st, new, t),
           OutboxOrdered(st), Tells(st, messages, marks), Follows(file, st, messages)
    PROVE  OutboxOrdered(new) /\ Tells(new, messages, marks) /\ Follows(file, new, messages)
  <1>. DEFINE q == st.outbox[t].rev
  <1>1. /\ \A u \in Tasks : OrderedAt(st, u) /\ FollowsAt(file, st, messages, u)
        /\ \A u \in Tasks, r \in Revs : TellsAt(st, messages, marks, u, r)
    BY DEF OutboxOrdered, Tells, Follows
  <1>2. ASSUME NEW u \in Tasks, u # t
        PROVE  /\ OrderedAt(new, u)
               /\ \A r \in Revs : TellsAt(new, messages, marks, u, r)
               /\ FollowsAt(file, new, messages, u)
    BY <1>1, <1>2, OthersAsBefore DEF JobReviewed, OthersStay
  <1>3. /\ new.revision[t] = st.revision[t]
        /\ new.notified[t] = st.notified[t]
        /\ new.outbox[t] = NoJob
        /\ Count(new, t, q) = Count(st, t, q) + 1
        /\ \A r \in Revs : r # q => Count(new, t, r) = Count(st, t, r)
    BY DEF JobReviewed, OthersStay
  <1>4. q \in Revs
    BY Numbers
  <1>5. NoJob.rev = 0 /\ NoJob.stage \notin Open /\ NoJob.stage # "admitted"
    BY DEF NoJob, Open, Uncertain
  <1>6. OrderedAt(new, t)
    BY <1>1, <1>3, <1>5 DEF OrderedAt
  <1>7. \A r \in Revs : TellsAt(new, messages, marks, t, r)
    <2>1. SUFFICES ASSUME NEW r \in Revs
                   PROVE  TellsAt(new, messages, marks, t, r)
      OBVIOUS
    <2>2. TellsAt(st, messages, marks, t, r) /\ Count(st, t, r) \in Nat /\ messages[t][r] \in Nat
      BY <1>1, Numbers DEF Messages
    <2>3. CASE r = q
      BY <1>3, <2>2, <2>3 DEF TellsAt
    <2>4. CASE r # q
      <3>1. MayPost(new, t, r) => MayPost(st, t, r)
        BY <1>3, <2>4 DEF MayPost
      <3>. QED
        BY <1>3, <2>2, <2>4, <3>1 DEF TellsAt
    <2>. QED
      BY <2>3, <2>4
  <1>8. FollowsAt(file, new, messages, t)
    <2>1. \A r \in Revs : Count(st, t, r) \in Nat /\ Count(file, t, r) \in Nat
      BY Numbers
    <2>2. file.outbox[t].stage \in Open => file.outbox[t].rev \in Revs
      BY Numbers DEF Open, Uncertain, NoJob
    <2>3. \A r \in Revs : Count(file, t, r) <= Count(st, t, r) /\ Count(st, t, r) <= Count(new, t, r)
      BY <1>1, <1>3, <1>4, <2>1 DEF FollowsAt
    <2>4. \A r \in Revs : Count(file, t, r) <= Count(new, t, r)
      BY <1>3, <1>4, <2>1, <2>3
    <2>5. file.outbox[t].stage \in Open =>
            \/ new.notified[t] = file.outbox[t].rev /\ messages[t][file.outbox[t].rev] > 0
            \/ Count(new, t, file.outbox[t].rev) > Count(file, t, file.outbox[t].rev)
      BY <1>1, <1>3, <1>4, <2>1, <2>2, <2>3 DEF FollowsAt
    <2>. QED
      BY <1>3, <1>5, <2>4, <2>5 DEF FollowsAt
  <1>. QED
    BY <1>2, <1>6, <1>7, <1>8 DEF OutboxOrdered, Tells, Follows

LEMMA StagedSound ==
    ASSUME NEW st \in ValidStates, NEW new \in ValidStates, NEW file \in ValidStates,
           NEW messages \in Messages, NEW marks, NEW t \in Tasks, NEW stage,
           st.outbox[t] # NoJob, JobStaged(st, new, t, stage),
           stage = "admitted" => st.outbox[t].stage = "admitted",
           OutboxOrdered(st), Tells(st, messages, marks), Follows(file, st, messages)
    PROVE  OutboxOrdered(new) /\ Tells(new, messages, marks) /\ Follows(file, new, messages)
  <1>. DEFINE q == st.outbox[t].rev
  <1>1. /\ \A u \in Tasks : OrderedAt(st, u) /\ FollowsAt(file, st, messages, u)
        /\ \A u \in Tasks, r \in Revs : TellsAt(st, messages, marks, u, r)
    BY DEF OutboxOrdered, Tells, Follows
  <1>2. ASSUME NEW u \in Tasks, u # t
        PROVE  /\ OrderedAt(new, u)
               /\ \A r \in Revs : TellsAt(new, messages, marks, u, r)
               /\ FollowsAt(file, new, messages, u)
    BY <1>1, <1>2, OthersAsBefore DEF JobStaged, OthersStay, SameCounts
  <1>3. /\ new.revision[t] = st.revision[t]
        /\ new.notified[t] = st.notified[t]
        /\ new.outbox[t] # NoJob
        /\ new.outbox[t].rev = q
        /\ new.outbox[t].stage = stage
        /\ stage = "admitted" => new.outbox[t].attempts < MaxAttempts
        /\ \A r \in Revs : Count(new, t, r) = Count(st, t, r)
    BY DEF JobStaged, OthersStay, SameCounts
  <1>4. q \in Revs
    BY Numbers
  <1>5. OrderedAt(new, t)
    BY <1>1, <1>3 DEF OrderedAt
  <1>6. \A r \in Revs : TellsAt(new, messages, marks, t, r)
    <2>1. SUFFICES ASSUME NEW r \in Revs
                   PROVE  TellsAt(new, messages, marks, t, r)
      OBVIOUS
    <2>2. MayPost(new, t, r) => MayPost(st, t, r)
      BY <1>3 DEF MayPost
    <2>. QED
      BY <1>1, <1>3, <2>2 DEF TellsAt
  <1>7. FollowsAt(file, new, messages, t)
    <2>1. st.outbox[t].stage \in {"admitted"} \cup Open
      BY Numbers DEF Jobs, Open, Uncertain, NoJob
    <2>2. new.outbox[t].stage \in {"admitted"} \cup Open
      BY <1>3, Numbers DEF Jobs, Open, Uncertain, NoJob
    <2>3. "admitted" \notin Open
      BY DEF Open, Uncertain
    <2>4. file.outbox[t].stage \in Open => file.outbox[t].rev \in Revs
      BY Numbers DEF Open, Uncertain, NoJob
    <2>5. st.outbox[t].stage = "admitted" => messages[t][q] <= Count(st, t, q)
      <3>1. ASSUME st.outbox[t].stage = "admitted"
            PROVE  MayPost(st, t, q)
        BY <1>1, <3>1, Numbers DEF OrderedAt, MayPost
      <3>. QED
        BY <1>1, <1>4, <3>1 DEF TellsAt
    <2>6. stage \in Open \/ st.outbox[t].stage = "admitted"
      BY <1>3, <2>2
    <2>. QED
      BY <1>1, <1>3, <1>4, <2>1, <2>3, <2>4, <2>5, <2>6 DEF FollowsAt
  <1>. QED
    BY <1>2, <1>5, <1>6, <1>7 DEF OutboxOrdered, Tells, Follows

\* A notification delivered in memory is newer than anything the file has under
\* way of the task: the file would tell of no message of it.
LEMMA DeliveredSound ==
    ASSUME NEW st \in ValidStates, NEW new \in ValidStates, NEW file \in ValidStates,
           NEW messages \in Messages, NEW marks, NEW t \in Tasks,
           st.outbox[t] # NoJob, messages[t][st.outbox[t].rev] > 0, JobDelivered(st, new, t),
           OutboxOrdered(st), Tells(st, messages, marks), Follows(file, st, messages),
           Tells(file, messages, marks)
    PROVE  OutboxOrdered(new) /\ Tells(new, messages, marks) /\ Follows(file, new, messages)
  <1>. DEFINE q == st.outbox[t].rev
  <1>1. /\ \A u \in Tasks : OrderedAt(st, u) /\ FollowsAt(file, st, messages, u)
        /\ \A u \in Tasks, r \in Revs :
            TellsAt(st, messages, marks, u, r) /\ TellsAt(file, messages, marks, u, r)
    BY DEF OutboxOrdered, Tells, Follows
  <1>2. ASSUME NEW u \in Tasks, u # t
        PROVE  /\ OrderedAt(new, u)
               /\ \A r \in Revs : TellsAt(new, messages, marks, u, r)
               /\ FollowsAt(file, new, messages, u)
    BY <1>1, <1>2, OthersAsBefore DEF JobDelivered, OthersStay, SameCounts
  <1>3. /\ new.revision[t] = st.revision[t]
        /\ new.notified[t] = q
        /\ new.outbox[t] = NoJob
        /\ \A r \in Revs : Count(new, t, r) = Count(st, t, r)
    BY DEF JobDelivered, OthersStay, SameCounts
  <1>4. q \in Revs /\ q <= st.revision[t] /\ st.revision[t] \in Nat
        /\ st.notified[t] \in Nat /\ st.notified[t] < q
    BY <1>1, Numbers DEF OrderedAt
  <1>5. NoJob.rev = 0 /\ NoJob.stage \notin Open /\ NoJob.stage # "admitted"
    BY DEF NoJob, Open, Uncertain
  <1>6. OrderedAt(new, t)
    BY <1>3, <1>4, <1>5 DEF OrderedAt
  <1>7. \A r \in Revs : TellsAt(new, messages, marks, t, r)
    <2>1. SUFFICES ASSUME NEW r \in Revs
                   PROVE  TellsAt(new, messages, marks, t, r)
      OBVIOUS
    <2>2. TellsAt(st, messages, marks, t, r)
      BY <1>1
    <2>3. MayPost(new, t, r) => MayPost(st, t, r)
      BY <1>3, <1>4 DEF MayPost
    <2>. QED
      BY <1>3, <2>2, <2>3 DEF TellsAt
  <1>8. FollowsAt(file, new, messages, t)
    <2>1. SUFFICES ASSUME file.outbox[t].stage \in Open
                   PROVE  \/ /\ new.notified[t] = file.outbox[t].rev
                             /\ messages[t][file.outbox[t].rev] > 0
                          \/ Count(new, t, file.outbox[t].rev) > Count(file, t, file.outbox[t].rev)
      BY <1>1, <1>3, <1>5 DEF FollowsAt
    <2>2. file.outbox[t].rev \in Revs /\ file.outbox[t] # NoJob
      BY <2>1, Numbers DEF Open, Uncertain, NoJob
    <2>3. CASE st.outbox[t].rev = file.outbox[t].rev
      BY <1>3, <2>3
    <2>4. CASE st.notified[t] = file.outbox[t].rev
      <3>1. messages[t][q] = 0
        BY <1>1, <1>4, <2>2, <2>4 DEF TellsAt
      <3>. QED
        BY <3>1
    <2>5. CASE Count(st, t, file.outbox[t].rev) > Count(file, t, file.outbox[t].rev)
      BY <1>3, <2>2, <2>5
    <2>. QED
      BY <1>1, <2>1, <2>3, <2>4, <2>5 DEF FollowsAt
  <1>. QED
    BY <1>2, <1>6, <1>7, <1>8 DEF OutboxOrdered, Tells, Follows

\* A message of the open job of t arrives while memory is what the file says.
LEMMA ArrivalSound ==
    ASSUME NEW st \in ValidStates, NEW messages \in Messages, NEW later, NEW marks, NEW t \in Tasks,
           st.outbox[t].stage \in Open, st.outbox[t].rev = st.revision[t],
           messages[t][st.outbox[t].rev] <= Count(st, t, st.outbox[t].rev),
           later = [messages EXCEPT ![t][st.outbox[t].rev] = @ + 1],
           Tells(st, messages, marks)
    PROVE  later \in Messages /\ Tells(st, later, marks) /\ Follows(st, st, later)
  <1>. DEFINE q == st.outbox[t].rev
  <1>1. q \in Revs /\ st.outbox[t] # NoJob /\ st.outbox[t].stage # "admitted"
    BY Numbers DEF Open, Uncertain, NoJob
  <1>2. \A u \in Tasks, r \in Revs : messages[u][r] \in Nat /\ Count(st, u, r) \in Nat
    BY Numbers DEF Messages
  <1>3. later \in Messages
    BY <1>1 DEF Messages
  <1>4. \A u \in Tasks, r \in Revs :
            later[u][r] = IF u = t /\ r = q THEN messages[u][r] + 1 ELSE messages[u][r]
    BY <1>1 DEF Messages
  <1>. HIDE DEF q
  <1>5. ASSUME NEW u \in Tasks, NEW r \in Revs
        PROVE  TellsAt(st, later, marks, u, r)
    <2>1. TellsAt(st, messages, marks, u, r)
      BY DEF Tells
    <2>2. CASE u = t /\ r = q
      <3>1. ~ MayPost(st, u, r)
        BY <1>1, <2>2 DEF MayPost, q
      <3>2. later[u][r] = messages[u][r] + 1 /\ messages[u][r] <= Count(st, u, r)
        BY <1>4, <2>2 DEF q
      <3>3. r <= st.revision[u] /\ ~ r > st.outbox[u].rev
        BY <1>1, <2>2, Numbers DEF q
      <3>. QED
        BY <1>2, <3>1, <3>2, <3>3 DEF TellsAt
    <2>3. CASE ~ (u = t /\ r = q)
      BY <1>4, <2>1, <2>3 DEF TellsAt
    <2>. QED
      BY <2>2, <2>3
  <1>6. \A u \in Tasks : FollowsAt(st, st, later, u)
    BY <1>2 DEF FollowsAt
  <1>. QED
    BY <1>3, <1>5, <1>6 DEF OutboxOrdered, Tells, Follows

LEMMA FollowsItself ==
    ASSUME NEW st \in ValidStates, NEW messages
    PROVE  Follows(st, st, messages)
  BY Numbers DEF Follows, FollowsAt
-----------------------------------------------------------------------------
(***************************************************************************)
(* The invariant is inductive.                                             *)
(***************************************************************************)
LEMMA EmptyIsValid == EmptyState \in ValidStates
  <1>1. EmptyState.dead \in Seq(Tasks \X Revs) /\ Len(EmptyState.dead) = 0
    BY DEF EmptyState
  <1>2. Fields(EmptyState)
    BY <1>1 DEF Fields, EmptyState, Jobs, NoJob
  <1>3. JobsOf(EmptyState) = {} /\ {t \in Tasks : EmptyState.revision[t] # 0} = {}
    BY DEF JobsOf, EmptyState
  <1>4. Cardinality({}) = 0
    BY FS_EmptySet
  <1>5. \A t \in Tasks :
            EmptyState.outbox[t].rev <= EmptyState.revision[t] /\ EmptyState.notified[t] = 0
    BY DEF EmptyState, NoJob
  <1>6. Limits(EmptyState)
    <2>1. Cardinality(JobsOf(EmptyState)) = 0
      BY <1>3, <1>4
    <2>2. Cardinality({t \in Tasks : EmptyState.revision[t] # 0}) = 0
      BY <1>3, <1>4
    <2>3. \A t \in Tasks : EmptyState.outbox[t].rev = 0 /\ EmptyState.revision[t] = 0
      BY DEF EmptyState, NoJob
    <2>. QED
      BY <1>1, <1>5, <2>1, <2>2, <2>3 DEF Limits
  <1>. QED
    BY <1>2, <1>6, FieldsValid

LEMMA Initially == Init => IInv
  <1>. SUFFICES ASSUME Init PROVE IInv
    OBVIOUS
  <1>1. \A t \in Tasks :
            /\ EmptyState.revision[t] = 0
            /\ EmptyState.notified[t] = 0
            /\ EmptyState.outbox[t] = NoJob
            /\ NoJob.stage = "none"
    BY DEF EmptyState, NoJob
  <1>2. TypeOK
    BY <1>1, EmptyIsValid DEF Init, TypeOK
  <1>3. OutboxOrdered(EmptyState)
    BY <1>1 DEF OutboxOrdered, OrderedAt
  <1>4. Tells(EmptyState, sent, primed)
    <2>1. SUFFICES ASSUME NEW t \in Tasks, NEW r \in Revs
                   PROVE  TellsAt(EmptyState, sent, primed, t, r)
      BY DEF Tells
    <2>2. Count(EmptyState, t, r) \in Nat /\ sent[t][r] = 0
      BY EmptyIsValid, Numbers DEF Init
    <2>. QED
      BY <1>1, <2>2 DEF TellsAt
  <1>5. DeliveryFollows
    BY DEF Init, DeliveryFollows
  <1>. QED
    BY <1>2, <1>3, <1>4, <1>5 DEF IInv, Sound, Init

\* Memory that is in use is sound.
LEMMA InUse ==
    ASSUME IInv, pc # "down"
    PROVE  /\ TypeOK
           /\ DeliveryFollows
           /\ Follows(disk, mem, sent)
           /\ OutboxOrdered(mem) /\ Tells(mem, sent, primed)
           /\ OutboxOrdered(disk) /\ Tells(disk, sent, primed)
           /\ mem \in ValidStates /\ disk \in ValidStates
           /\ sent \in Messages
  BY DEF IInv, Sound, TypeOK, Messages

LEMMA TouchStep ==
    ASSUME IInv, NEW t \in Tasks, Touch(t)
    PROVE  IInv'
  <1>1. TypeOK'
    <2>1. board \in [Tasks -> 0 .. MaxRev] /\ board[t] < MaxRev
      BY DEF Touch, IInv, TypeOK
    <2>2. board' \in [Tasks -> 0 .. MaxRev]
      BY <2>1 DEF Touch
    <2>. QED
      BY <2>2 DEF Touch, IInv, TypeOK
  <1>2. DeliveryFollows'
    BY DEF Touch, IInv, DeliveryFollows
  <1>. QED
    BY <1>1, <1>2 DEF Touch, IInv, Sound

LEMMA StartStep ==
    ASSUME IInv, NEW mode \in Modes, Start(mode)
    PROVE  IInv'
  <1>1. mode \in {"serve", "prime"}
    OBVIOUS
  <1>2. due = {} /\ disk \in ValidStates /\ OutboxOrdered(disk)
    BY DEF IInv, Sound, TypeOK, DeliveryFollows, Start
  <1>3. TypeOK'
    BY <1>1, <1>2 DEF Start, IInv, TypeOK, OutboxOrdered, OrderedAt
  <1>4. Follows(disk, disk, sent)
    BY <1>2, FollowsItself
  <1>5. DeliveryFollows'
    BY <1>1, <1>2 DEF Start, DeliveryFollows
  <1>. QED
    BY <1>3, <1>4, <1>5 DEF Start, IInv, Sound

LEMMA CrashStep ==
    ASSUME IInv, Crash
    PROVE  IInv'
  <1>1. \A t \in Tasks : EmptyState.outbox[t].stage # "admitted"
    BY DEF EmptyState, NoJob
  <1>2. TypeOK'
    BY <1>1, EmptyIsValid DEF Crash, IInv, TypeOK
  <1>3. DeliveryFollows'
    BY DEF Crash, DeliveryFollows
  <1>. QED
    BY <1>2, <1>3 DEF Crash, IInv, Sound

LEMMA ScanStep ==
    ASSUME IInv, NEW view \in Views, Scan(view)
    PROVE  IInv'
  <1>. DEFINE wanted == Wanted(mem, view)
  <1>1. pc = "serve" /\ due = {}
    BY InUse DEF Scan, DeliveryFollows
  <1>2. view \in [Tasks -> 0 .. MaxRev] /\ ScanOrPrime(mem, view, wanted, {})
    BY DEF Views, ScanOrPrime
  <1>3. mem' = Planned(mem, view, wanted, {})
    BY DEF Scan
  <1>4. mem' \in ValidStates /\ Planning(mem, mem', view, wanted, {})
    BY <1>1, <1>2, <1>3, InUse, PlannedEffect DEF Scan
  <1>5. OutboxOrdered(mem') /\ Tells(mem', sent, primed)
    BY <1>1, <1>2, <1>4, InUse, PlanSound
  <1>6. Follows(disk, mem', sent)
    BY <1>1, <1>2, <1>4, InUse, PlanFollows
  <1>7. pc' \in {"due", "planned"}
    BY DEF Scan
  <1>8. TypeOK'
    BY <1>1, <1>4, <1>5, <1>7 DEF Scan, IInv, TypeOK, OutboxOrdered, OrderedAt, AfterPersist
  <1>9. DeliveryFollows'
    BY <1>1, <1>7 DEF Scan, DeliveryFollows
  <1>. QED
    BY <1>5, <1>6, <1>7, <1>8, <1>9 DEF Scan, IInv, Sound

LEMMA PrimeStep ==
    ASSUME IInv, NEW view \in Views, Prime(view)
    PROVE  IInv'
  <1>. DEFINE wanted == Wanted(mem, view)
  <1>1. pc = "prime" /\ due = {} /\ mem = disk
    BY InUse DEF Prime, DeliveryFollows
  <1>2. view \in [Tasks -> 0 .. MaxRev] /\ ScanOrPrime(mem, view, {}, wanted)
    BY DEF Views, ScanOrPrime
  <1>3. mem' = Planned(mem, view, {}, wanted) /\ primed' = primed \cup {<<t, view[t]>> : t \in wanted}
    BY DEF Prime
  <1>4. mem' \in ValidStates /\ Planning(mem, mem', view, {}, wanted)
    BY <1>1, <1>2, <1>3, InUse, PlannedEffect DEF Prime
  <1>5. OutboxOrdered(mem') /\ Tells(mem', sent, primed')
    BY <1>1, <1>2, <1>3, <1>4, InUse, PlanSound
  <1>6. Follows(disk, mem', sent)
    BY <1>1, <1>2, <1>4, InUse, PlanFollows
  <1>7. pc' = "priming"
    BY DEF Prime
  <1>8. primed' \subseteq Tasks \X Revs
    <2>1. \A t \in wanted : t \in Tasks /\ view[t] \in Revs
      BY DEF Wanted, Fresh
    <2>2. primed \subseteq Tasks \X Revs
      BY DEF IInv, TypeOK
    <2>. QED
      BY <1>3, <2>1, <2>2
  <1>9. TypeOK'
    BY <1>1, <1>4, <1>5, <1>7, <1>8 DEF Prime, IInv, TypeOK, OutboxOrdered, OrderedAt, AfterPersist
  <1>10. Tells(disk, sent, primed')
    BY <1>1, <1>3, InUse DEF Tells, TellsAt
  <1>11. DeliveryFollows'
    BY <1>1, <1>7 DEF Prime, DeliveryFollows
  <1>. QED
    BY <1>1, <1>5, <1>6, <1>7, <1>9, <1>10, <1>11, InUse DEF Prime, IInv, Sound

LEMMA TakeDueStep ==
    ASSUME IInv, NEW D \in SUBSET Tasks, TakeDue(D)
    PROVE  IInv'
  <1>1. pc = "due" /\ pc' = "deliver" /\ due' = D
    BY DEF TakeDue
  <1>2. TypeOK'
    BY <1>1 DEF TakeDue, IInv, TypeOK
  <1>3. \A t \in D : mem.outbox[t].stage \in {"admitted"} \cup Uncertain
    BY <1>1, InUse, Numbers DEF TakeDue, JobsOf, Jobs
  <1>4. DeliveryFollows'
    BY <1>1, <1>3 DEF TakeDue, DeliveryFollows
  <1>. QED
    BY <1>1, <1>2, <1>4, InUse DEF TakeDue, IInv, Sound

LEMMA EndScanStep ==
    ASSUME IInv, EndScan
    PROVE  IInv'
  <1>1. pc = "deliver" /\ pc' = "serve" /\ due' = {}
    BY DEF EndScan
  <1>2. TypeOK'
    BY <1>1 DEF EndScan, IInv, TypeOK
  <1>3. DeliveryFollows'
    BY <1>1 DEF EndScan, DeliveryFollows
  <1>. QED
    BY <1>1, <1>2, <1>3, InUse DEF EndScan, IInv, Sound

LEMMA PersistStep ==
    ASSUME IInv, Persist
    PROVE  IInv'
  <1>1. pc \in {"planned", "priming", "starting", "answered", "settled"}
    BY DEF Persist, AfterPersist
  <1>2. /\ pc = "planned" => pc' = "due"
        /\ pc = "priming" => pc' = "down"
        /\ pc = "starting" => pc' = "posting"
        /\ pc = "answered" => pc' = "confirm"
        /\ pc = "settled" => pc' = "deliver"
    BY DEF Persist, AfterPersist
  <1>3. TypeOK'
    BY <1>1, <1>2 DEF Persist, IInv, TypeOK
  <1>4. Follows(mem, mem, sent)
    BY <1>1, InUse, FollowsItself
  <1>5. DeliveryFollows'
    BY <1>1, <1>2, InUse DEF Persist, DeliveryFollows
  <1>. QED
    BY <1>1, <1>3, <1>4, <1>5, InUse DEF Persist, IInv, Sound

LEMMA PersistFailsStep ==
    ASSUME IInv, PersistFails
    PROVE  IInv'
  <1>1. pc \in {"planned", "priming", "starting", "answered", "settled"}
    BY DEF PersistFails, AfterError
  <1>2. /\ pc = "planned" => pc' = "serve"
        /\ pc = "priming" => pc' = "down"
        /\ pc \in {"starting", "answered", "settled"} => pc' = "deliver"
    BY DEF PersistFails, AfterError
  <1>3. TypeOK'
    BY <1>1, <1>2, InUse DEF PersistFails, TypeOK
  <1>4. Follows(disk', mem, sent)
    BY <1>1, InUse, FollowsItself DEF PersistFails
  <1>5. DeliveryFollows'
    BY <1>1, <1>2, InUse DEF PersistFails, DeliveryFollows
  <1>. QED
    BY <1>1, <1>3, <1>4, <1>5, InUse DEF PersistFails, IInv, Sound
\* What a delivery step knows of the job it takes.
LEMMA Taken ==
    ASSUME IInv, NEW t \in due, Take(t)
    PROVE  /\ pc = "deliver"
           /\ t \in Tasks
           /\ mem.outbox[t] # NoJob
           /\ mem.outbox[t].stage \in {"admitted"} \cup Uncertain
           /\ due' = due \ {t} /\ current' = t
           /\ \A u \in due' : mem.outbox[u].stage \in {"admitted"} \cup Uncertain
  <1>1. pc = "deliver" /\ due' = due \ {t} /\ current' = t
    BY DEF Take
  <1>2. due \subseteq JobsOf(mem)
    BY DEF IInv, TypeOK
  <1>3. \A u \in due : mem.outbox[u].stage \in {"admitted"} \cup Uncertain
    BY DEF IInv, DeliveryFollows
  <1>. QED
    BY <1>1, <1>2, <1>3 DEF JobsOf

\* A step of the delivery of t that changes nothing but memory.
LEMMA DeliveryKeeps ==
    ASSUME IInv, pc # "down", NEW t \in Tasks,
           mem' \in ValidStates, OutboxOrdered(mem'), Tells(mem', sent, primed), Follows(disk, mem', sent),
           \A u \in Tasks \ {t} : mem'.outbox[u] = mem.outbox[u],
           current' = t, due' = due \ {t},
           pc' \in {"settled", "starting"}, UNCHANGED <<board, disk, sent, primed, faults>>,
           pc' = "starting" =>
                /\ mem'.outbox[t].stage = "post_started"
                /\ mem'.outbox[t].rev = mem'.revision[t]
                /\ sent[t][mem'.outbox[t].rev] <= Count(mem', t, mem'.outbox[t].rev)
    PROVE  IInv'
  <1>1. due' \in SUBSET JobsOf(mem')
    BY DEF IInv, TypeOK, JobsOf
  <1>2. TypeOK'
    BY <1>1 DEF IInv, TypeOK, OutboxOrdered, OrderedAt, AfterPersist
  <1>3. \A u \in due' : mem'.outbox[u].stage \in {"admitted"} \cup Uncertain
    BY DEF IInv, TypeOK, JobsOf, DeliveryFollows
  <1>4. DeliveryFollows'
    BY <1>3 DEF DeliveryFollows
  <1>. QED
    BY <1>2, <1>4, InUse DEF IInv, Sound

LEMMA AttemptFailsStep ==
    ASSUME IInv, NEW t \in due, AttemptFails(t)
    PROVE  IInv'
  <1>1. /\ pc = "deliver" /\ t \in Tasks /\ mem.outbox[t] # NoJob
        /\ mem.outbox[t].stage \in {"admitted"} \cup Uncertain
        /\ due' = due \ {t} /\ current' = t
    BY Taken DEF AttemptFails
  <1>2. mem' = Failed(mem, t) /\ pc' = "settled" /\ UNCHANGED <<board, disk, sent, primed, faults>>
    BY DEF AttemptFails
  <1>3. /\ mem' \in ValidStates
        /\ \/ JobReviewed(mem, mem', t)
           \/ JobStaged(mem, mem', t, "operator_review")
           \/ JobStaged(mem, mem', t, mem.outbox[t].stage)
    BY <1>1, <1>2, InUse, FailedEffect
  <1>4. /\ OutboxOrdered(mem') /\ Tells(mem', sent, primed) /\ Follows(disk, mem', sent)
        /\ \A u \in Tasks \ {t} : mem'.outbox[u] = mem.outbox[u]
    <2>1. CASE JobReviewed(mem, mem', t)
      BY <1>1, <1>3, <2>1, InUse, ReviewedSound DEF JobReviewed, OthersStay
    <2>2. CASE JobStaged(mem, mem', t, "operator_review")
      BY <1>1, <1>3, <2>2, InUse, StagedSound DEF JobStaged, OthersStay
    <2>3. CASE JobStaged(mem, mem', t, mem.outbox[t].stage)
      BY <1>1, <1>3, <2>3, InUse, StagedSound DEF JobStaged, OthersStay
    <2>. QED
      BY <1>3, <2>1, <2>2, <2>3
  <1>. QED
    BY <1>1, <1>2, <1>3, <1>4, DeliveryKeeps

\* A message that is found was sent.
LEMMA FoundWasSent ==
    ASSUME IInv, NEW t \in Tasks, Found(t)
    PROVE  sent[t][mem.outbox[t].rev] > 0
  BY DEF Found

LEMMA ReconcileStep ==
    ASSUME IInv, NEW t \in due, Reconcile(t)
    PROVE  IInv'
  <1>1. /\ pc = "deliver" /\ t \in Tasks /\ mem.outbox[t] # NoJob
        /\ due' = due \ {t} /\ current' = t
    BY Taken DEF Reconcile
  <1>2. mem' = Delivered(mem, t) /\ pc' = "settled" /\ UNCHANGED <<board, disk, sent, primed, faults>>
    BY DEF Reconcile
  <1>3. mem' \in ValidStates /\ JobDelivered(mem, mem', t)
    BY <1>1, <1>2, InUse, DeliveredEffect
  <1>4. sent[t][mem.outbox[t].rev] > 0
    BY <1>1, FoundWasSent DEF Reconcile
  <1>5. /\ OutboxOrdered(mem') /\ Tells(mem', sent, primed) /\ Follows(disk, mem', sent)
        /\ \A u \in Tasks \ {t} : mem'.outbox[u] = mem.outbox[u]
    BY <1>1, <1>3, <1>4, InUse, DeliveredSound DEF JobDelivered, OthersStay
  <1>. QED
    BY <1>1, <1>2, <1>3, <1>5, DeliveryKeeps

LEMMA StartPostStep ==
    ASSUME IInv, NEW t \in due, StartPost(t)
    PROVE  IInv'
  <1>1. /\ pc = "deliver" /\ t \in Tasks /\ mem.outbox[t] # NoJob
        /\ due' = due \ {t} /\ current' = t
    BY Taken DEF StartPost
  <1>2. /\ mem.outbox[t].stage = "admitted" /\ mem.outbox[t].attempts < MaxAttempts
        /\ pc' = "starting" /\ UNCHANGED <<board, disk, sent, primed, faults>>
    BY DEF StartPost
  <1>. DEFINE job == [rev |-> mem.outbox[t].rev, stage |-> "post_started",
                      attempts |-> mem.outbox[t].attempts + 1]
  <1>3. mem.outbox[t] \in Jobs \ {NoJob} /\ mem.outbox[t].rev \in Revs
    BY <1>1, InUse, Numbers
  <1>4. job \in Jobs \ {NoJob} /\ job.rev = mem.outbox[t].rev /\ job.stage = "post_started"
    BY <1>2, <1>3 DEF Jobs, NoJob, Uncertain
  <1>5. mem' = [mem EXCEPT !.outbox[t] = job]
    BY DEF StartPost
  <1>. HIDE DEF job
  <1>6. mem' \in ValidStates /\ JobStaged(mem, mem', t, "post_started")
    BY <1>1, <1>4, <1>5, InUse, StagedEffect
  <1>7. OutboxOrdered(mem') /\ Tells(mem', sent, primed) /\ Follows(disk, mem', sent)
    BY <1>1, <1>6, InUse, StagedSound
  <1>8. /\ mem'.outbox[t].stage = "post_started"
        /\ mem'.outbox[t].rev = mem.outbox[t].rev
        /\ mem'.revision[t] = mem.revision[t]
        /\ \A r \in Revs : Count(mem', t, r) = Count(mem, t, r)
        /\ \A u \in Tasks \ {t} : mem'.outbox[u] = mem.outbox[u]
    BY <1>1, <1>6 DEF JobStaged, OthersStay, SameCounts
  <1>9. OrderedAt(mem, t) /\ TellsAt(mem, sent, primed, t, mem.outbox[t].rev)
    BY <1>1, <1>3, InUse DEF OutboxOrdered, Tells
  <1>10. mem.outbox[t].rev = mem.revision[t] /\ mem.notified[t] # mem.outbox[t].rev
    BY <1>1, <1>2, <1>9, InUse, Numbers DEF OrderedAt
  <1>11. MayPost(mem, t, mem.outbox[t].rev)
    BY <1>2, <1>3, <1>10 DEF MayPost
  <1>12. sent[t][mem.outbox[t].rev] <= Count(mem, t, mem.outbox[t].rev)
    BY <1>9, <1>11 DEF TellsAt
  <1>. QED
    BY <1>1, <1>2, <1>3, <1>6, <1>7, <1>8, <1>10, <1>12, DeliveryKeeps

\* The message of the job being posted arrives, whatever happens to the answer.
LEMMA Arrival ==
    ASSUME IInv, pc = "posting", Arrives
    PROVE  /\ sent' \in Messages
           /\ Tells(mem, sent', primed)
           /\ Follows(mem, mem, sent')
           /\ mem = disk
  <1>. DEFINE t == current
              q == mem.outbox[t].rev
  <1>1. /\ mem = disk
        /\ t \in Tasks
        /\ mem.outbox[t].stage \in Open
        /\ q = mem.revision[t]
        /\ sent[t][q] <= Count(mem, t, q)
    BY InUse DEF TypeOK, DeliveryFollows, Open, Uncertain
  <1>2. sent' = [sent EXCEPT ![t][q] = @ + 1]
    BY DEF Arrives
  <1>. QED
    BY <1>1, <1>2, InUse, ArrivalSound

LEMMA PostAnsweredStep ==
    ASSUME IInv, PostAnswered
    PROVE  IInv'
  <1>. DEFINE t == current
              job == [rev |-> mem.outbox[t].rev, stage |-> "posted",
                      attempts |-> mem.outbox[t].attempts]
  <1>1. pc = "posting" /\ pc' = "answered" /\ UNCHANGED <<board, disk, due, current, primed, faults>>
    BY DEF PostAnswered
  <1>2. sent' \in Messages /\ Tells(mem, sent', primed) /\ Follows(mem, mem, sent') /\ mem = disk
    BY Arrival DEF PostAnswered
  <1>3. t \in Tasks /\ mem.outbox[t].stage = "post_started" /\ t \notin due
    BY <1>1, InUse DEF TypeOK, DeliveryFollows
  <1>4. mem.outbox[t] \in Jobs \ {NoJob} /\ mem.outbox[t].rev \in Revs
    BY <1>1, <1>3, InUse, Numbers DEF NoJob
  <1>5. job \in Jobs \ {NoJob} /\ job.rev = mem.outbox[t].rev /\ job.stage = "posted"
    BY <1>4 DEF Jobs, NoJob, Uncertain
  <1>6. mem' = [mem EXCEPT !.outbox[t] = job]
    <2>1. [mem.outbox[t] EXCEPT !.stage = "posted"] = job
      BY <1>4 DEF Jobs, NoJob
    <2>. QED
      BY <2>1 DEF PostAnswered
  <1>. HIDE DEF job
  <1>7. mem' \in ValidStates /\ JobStaged(mem, mem', t, "posted")
    BY <1>1, <1>3, <1>4, <1>5, <1>6, InUse, StagedEffect
  <1>8. OutboxOrdered(mem') /\ Tells(mem', sent', primed) /\ Follows(disk, mem', sent')
    BY <1>1, <1>2, <1>3, <1>4, <1>7, InUse, StagedSound
  <1>9. mem'.outbox[t].stage = "posted" /\ \A u \in Tasks \ {t} : mem'.outbox[u] = mem.outbox[u]
    BY <1>7 DEF JobStaged, OthersStay
  <1>10. due \subseteq JobsOf(mem')
    BY <1>1, <1>3, <1>9, InUse DEF TypeOK, JobsOf
  <1>11. TypeOK'
    BY <1>1, <1>2, <1>7, <1>8, <1>10, InUse DEF TypeOK, OutboxOrdered, OrderedAt, AfterPersist, Messages
  <1>12. DeliveryFollows'
    <2>1. \A u \in due : mem'.outbox[u].stage \in {"admitted"} \cup Uncertain
      BY <1>1, <1>3, <1>9, InUse DEF TypeOK, JobsOf, DeliveryFollows
    <2>. QED
      BY <1>1, <1>3, <1>9, <2>1 DEF DeliveryFollows
  <1>. QED
    BY <1>1, <1>2, <1>8, <1>11, <1>12, InUse DEF IInv, Sound

LEMMA PostUncertainStep ==
    ASSUME IInv, PostUncertain
    PROVE  IInv'
  <1>1. /\ pc = "posting" /\ pc' = "deliver"
        /\ UNCHANGED <<board, mem, disk, due, current, primed, faults>>
    BY DEF PostUncertain
  <1>2. sent' \in Messages /\ Tells(mem, sent', primed) /\ Follows(mem, mem, sent') /\ mem = disk
    <2>1. CASE Arrives
      BY <1>1, <2>1, Arrival
    <2>2. CASE UNCHANGED sent
      BY <1>1, <2>2, InUse DEF DeliveryFollows
    <2>. QED
      BY <2>1, <2>2 DEF PostUncertain
  <1>3. TypeOK'
    BY <1>1, <1>2, InUse DEF TypeOK, Messages
  <1>4. DeliveryFollows'
    BY <1>1, InUse DEF DeliveryFollows
  <1>. QED
    BY <1>1, <1>2, <1>3, <1>4, InUse DEF IInv, Sound

LEMMA ConfirmStep ==
    ASSUME IInv, Confirm
    PROVE  IInv'
  <1>. DEFINE t == current
  <1>1. /\ pc = "confirm" /\ pc' = "settled" /\ mem' = Delivered(mem, t)
        /\ UNCHANGED <<board, disk, due, current, sent, primed, faults>>
    BY DEF Confirm
  <1>2. t \in Tasks /\ mem.outbox[t].stage = "posted" /\ t \notin due
    BY <1>1, InUse DEF TypeOK, DeliveryFollows
  <1>3. mem.outbox[t] # NoJob
    BY <1>2 DEF NoJob
  <1>4. mem' \in ValidStates /\ JobDelivered(mem, mem', t)
    BY <1>1, <1>2, <1>3, InUse, DeliveredEffect
  <1>5. sent[t][mem.outbox[t].rev] > 0
    BY <1>2, FoundWasSent DEF Confirm
  <1>6. /\ OutboxOrdered(mem') /\ Tells(mem', sent, primed) /\ Follows(disk, mem', sent)
        /\ \A u \in Tasks \ {t} : mem'.outbox[u] = mem.outbox[u]
    BY <1>1, <1>2, <1>3, <1>4, <1>5, InUse, DeliveredSound DEF JobDelivered, OthersStay
  <1>7. due' = due \ {t} /\ current' = t
    BY <1>1, <1>2
  <1>. QED
    BY <1>1, <1>2, <1>4, <1>6, <1>7, DeliveryKeeps

LEMMA ConfirmLaterStep ==
    ASSUME IInv, ConfirmLater
    PROVE  IInv'
  <1>1. /\ pc = "confirm" /\ pc' = "deliver"
        /\ UNCHANGED <<board, mem, disk, due, current, sent, primed, faults>>
    BY DEF ConfirmLater
  <1>2. TypeOK'
    BY <1>1, InUse DEF TypeOK
  <1>3. DeliveryFollows'
    BY <1>1, InUse DEF DeliveryFollows
  <1>. QED
    BY <1>1, <1>2, <1>3, InUse DEF IInv, Sound
LEMMA Inductive == IInv /\ [Next]_vars => IInv'
  <1>. SUFFICES ASSUME IInv, [Next]_vars PROVE IInv'
    OBVIOUS
  <1>1. ASSUME NEW t \in Tasks, Touch(t) PROVE IInv'
    BY <1>1, TouchStep
  <1>2. ASSUME NEW mode \in Modes, Start(mode) PROVE IInv'
    BY <1>2, StartStep
  <1>3. CASE Crash
    BY <1>3, CrashStep
  <1>4. ASSUME NEW view \in Views, Scan(view) PROVE IInv'
    BY <1>4, ScanStep
  <1>5. ASSUME NEW view \in Views, Prime(view) PROVE IInv'
    BY <1>5, PrimeStep
  <1>6. ASSUME NEW D \in SUBSET Tasks, TakeDue(D) PROVE IInv'
    BY <1>6, TakeDueStep
  <1>7. CASE EndScan
    BY <1>7, EndScanStep
  <1>8. CASE Persist
    BY <1>8, PersistStep
  <1>9. CASE PersistFails
    BY <1>9, PersistFailsStep
  <1>10. ASSUME NEW t \in due, AttemptFails(t) PROVE IInv'
    BY <1>10, AttemptFailsStep
  <1>11. ASSUME NEW t \in due, Reconcile(t) PROVE IInv'
    BY <1>11, ReconcileStep
  <1>12. ASSUME NEW t \in due, StartPost(t) PROVE IInv'
    BY <1>12, StartPostStep
  <1>13. CASE PostAnswered
    BY <1>13, PostAnsweredStep
  <1>14. CASE PostUncertain
    BY <1>14, PostUncertainStep
  <1>15. CASE Confirm
    BY <1>15, ConfirmStep
  <1>16. CASE ConfirmLater
    BY <1>16, ConfirmLaterStep
  <1>17. CASE UNCHANGED vars
    <2>1. TypeOK'
      BY <1>17 DEF vars, IInv, TypeOK
    <2>2. DeliveryFollows'
      BY <1>17 DEF vars, IInv, DeliveryFollows
    <2>. QED
      BY <1>17, <2>1, <2>2 DEF vars, IInv, Sound
  <1>. QED
    BY <1>1, <1>2, <1>3, <1>4, <1>5, <1>6, <1>7, <1>8, <1>9, <1>10, <1>11, <1>12, <1>13,
       <1>14, <1>15, <1>16, <1>17 DEF Next, Deliver

-----------------------------------------------------------------------------
\* The notifier is in a sound state, whatever crashes and failed saves happen.
THEOREM NotifierInvariant == Spec => []IInv
  <1>. QED
    BY Initially, Inductive, PTL DEF Spec

\* Memory can always be saved and the file be loaded (TypeOK): no operation on
\* the outbox, the dead letters or the registry makes a state that is refused.
THEOREM StatesStayValid == Spec => []TypeOK
  <1>1. IInv => TypeOK
    BY DEF IInv
  <1>. QED
    BY <1>1, NotifierInvariant, PTL

\* A message is in Zulip once more than operators were asked to review it, at
\* most (RepeatIsReviewed), for all limits and any number of crashes.
THEOREM RepeatsAreReviewed == Spec => []RepeatIsReviewed
  <1>1. IInv => RepeatIsReviewed
    <2>1. SUFFICES ASSUME IInv, NEW t \in Tasks, NEW r \in Revs
                   PROVE  sent[t][r] <= 1 + Cardinality(Reviews(disk, t, r))
      BY DEF RepeatIsReviewed
    <2>2. TellsAt(disk, sent, primed, t, r) /\ disk \in ValidStates /\ sent[t][r] \in Nat
      BY <2>1 DEF IInv, Sound, Tells, TypeOK
    <2>3. Count(disk, t, r) \in Nat
      BY <2>2, Numbers
    <2>. QED
      BY <2>2, <2>3 DEF TellsAt, Count
  <1>. QED
    BY <1>1, NotifierInvariant, PTL

\* What counts as notified was sent or suppressed (NotifiedWasSent).
THEOREM NotifiedIsTrue == Spec => []NotifiedWasSent
  <1>1. IInv => NotifiedWasSent
    <2>1. SUFFICES ASSUME IInv, NEW st \in {mem, disk}, NEW t \in Tasks, st.notified[t] # 0
                   PROVE  sent[t][st.notified[t]] > 0 \/ <<t, st.notified[t]>> \in primed
      BY DEF NotifiedWasSent
    <2>2. st \in ValidStates
      BY <2>1 DEF IInv, TypeOK
    <2>3. st.notified[t] \in Revs
      BY <2>1, <2>2, Numbers
    <2>4. EmptyState.notified[t] = 0
      BY DEF EmptyState
    <2>5. Tells(st, sent, primed)
      BY <2>1, <2>4 DEF IInv, Sound
    <2>. QED
      BY <2>3, <2>5 DEF Tells, TellsAt
  <1>. QED
    BY <1>1, NotifierInvariant, PTL

\* What the file does when it is replaced, and when a message arrives.
LEMMA FileReplaced ==
    ASSUME IInv, Next, disk' # disk
    PROVE  pc # "down" /\ disk' = mem /\ UNCHANGED sent
  BY DEF Next, Touch, Start, Crash, Scan, Prime, TakeDue, EndScan, Persist, PersistFails,
         Deliver, AttemptFails, Reconcile, StartPost, PostAnswered, PostUncertain, Confirm,
         ConfirmLater, AfterPersist, AfterError

LEMMA MessageArrives ==
    ASSUME IInv, Next, sent' # sent
    PROVE  pc = "posting" /\ Arrives /\ UNCHANGED disk
  BY DEF Next, Touch, Start, Crash, Scan, Prime, TakeDue, EndScan, Persist, PersistFails,
         Deliver, AttemptFails, Reconcile, StartPost, PostAnswered, PostUncertain, Confirm,
         ConfirmLater

\* What is known of the job whose message arrives.
LEMMA Posting ==
    ASSUME IInv, pc = "posting", Arrives
    PROVE  LET q == mem.outbox[current].rev
           IN  /\ mem = disk
               /\ current \in Tasks /\ q \in Revs
               /\ mem.outbox[current].stage \in Open
               /\ mem.outbox[current] # NoJob
               /\ sent[current][q] <= Count(mem, current, q)
               /\ \A t \in Tasks, r \in Revs :
                    sent'[t][r] = IF t = current /\ r = q THEN sent[t][r] + 1 ELSE sent[t][r]
  <1>. DEFINE q == mem.outbox[current].rev
  <1>1. /\ mem = disk
        /\ current \in Tasks
        /\ mem.outbox[current].stage = "post_started"
        /\ sent[current][q] <= Count(mem, current, q)
    BY InUse DEF TypeOK, DeliveryFollows
  <1>2. mem.outbox[current] # NoJob /\ mem.outbox[current].stage \in Open
    BY <1>1 DEF NoJob, Open, Uncertain
  <1>3. q \in Revs
    BY <1>1, <1>2, InUse, Numbers
  <1>4. sent \in Messages /\ sent' = [sent EXCEPT ![current][q] = @ + 1]
    BY InUse DEF Arrives
  <1>. HIDE DEF q
  <1>5. \A t \in Tasks, r \in Revs :
            sent'[t][r] = IF t = current /\ r = q THEN sent[t][r] + 1 ELSE sent[t][r]
    BY <1>1, <1>3, <1>4 DEF Messages
  <1>. QED
    BY <1>1, <1>2, <1>3, <1>5 DEF q

\* No revision is announced after a newer one (NoOldNews).
THEOREM NewsAreNew == Spec => NoOldNews
  <1>1. IInv /\ [Next]_vars =>
            [\A t \in Tasks, r \in Revs :
                sent'[t][r] > sent[t][r] => \A q \in Revs : q > r => sent[t][q] = 0]_sent
    <2>1. SUFFICES ASSUME IInv, Next, sent' # sent, NEW t \in Tasks, NEW r \in Revs,
                          sent'[t][r] > sent[t][r], NEW q \in Revs, q > r
                   PROVE  sent[t][q] = 0
      BY DEF vars
    <2>2. pc = "posting" /\ Arrives
      BY <2>1, MessageArrives
    <2>3. sent \in Messages /\ Tells(mem, sent, primed)
      BY <2>1, <2>2, InUse
    <2>4. t = current /\ r = mem.outbox[t].rev /\ mem.outbox[t] # NoJob
      BY <2>1, <2>2, <2>3, Posting DEF Messages
    <2>. QED
      BY <2>1, <2>3, <2>4 DEF Tells, TellsAt
  <1>. QED
    BY <1>1, NotifierInvariant, PTL DEF Spec, NoOldNews

\* A saved job with an uncertain POST ends as a delivery or as a dead letter, or
\* stays (UncertainIsKept).
THEOREM UncertainStays == Spec => UncertainIsKept
  <1>. DEFINE Kept(t) ==
            LET job == disk.outbox[t]
                left == disk'.outbox[t]
            IN  job.stage \in Uncertain =>
                    \/ left.rev = job.rev /\ left.stage \in Uncertain \cup {"operator_review"}
                    \/ disk'.notified[t] = job.rev
                    \/ Cardinality(Reviews(disk', t, job.rev)) > Cardinality(Reviews(disk, t, job.rev))
  <1>1. IInv /\ [Next]_vars => [\A t \in Tasks : Kept(t)]_disk
    <2>1. SUFFICES ASSUME IInv, Next, disk' # disk, NEW t \in Tasks
                   PROVE  Kept(t)
      BY DEF vars
    <2>2. disk' = mem /\ Follows(disk, mem, sent)
      BY <2>1, FileReplaced, InUse
    <2>. QED
      BY <2>2 DEF Follows, FollowsAt, Open, Count
  <1>. QED
    BY <1>1, NotifierInvariant, PTL DEF Spec, UncertainIsKept

-----------------------------------------------------------------------------
(***************************************************************************)
(* The notifier implements Announcement.                                   *)
(***************************************************************************)
LEMMA AnnouncedInit == Init => Announced!Init
  <1>. SUFFICES ASSUME Init PROVE Announced!Init
    OBVIOUS
  <1>1. \A t \in Tasks, r \in Revs : Reviews(EmptyState, t, r) = {}
    BY DEF Reviews, EmptyState
  <1>2. \A t \in Tasks, r \in Revs : Count(EmptyState, t, r) = 0
    BY <1>1, FS_EmptySet DEF Count
  <1>3. \A t \in Tasks : EmptyState.outbox[t].stage \notin Open
    BY DEF EmptyState, NoJob, Open, Uncertain
  <1>4. disk = EmptyState /\ \A t \in Tasks, r \in Revs : sent[t][r] = 0
    BY DEF Init
  <1>5. OpenNotices = {}
    BY <1>3, <1>4 DEF OpenNotices, Notices
  <1>6. Posted = [n \in Notices |-> 0]
    BY <1>4 DEF Posted, Notices
  <1>7. Reviewed = [n \in Notices |-> 0]
    BY <1>2, <1>4 DEF Reviewed, Notices
  <1>. QED
    BY <1>5, <1>6, <1>7 DEF Announced!Init

LEMMA AnnouncedStep == IInv /\ [Next]_vars => [Announced!Next]_(Announced!vars)
  <1>. SUFFICES ASSUME IInv, [Next]_vars PROVE [Announced!Next]_(Announced!vars)
    OBVIOUS
  <1>1. CASE Next /\ disk' # disk
    <2>1. /\ disk' = mem /\ sent' = sent
          /\ Follows(disk, mem, sent)
          /\ mem \in ValidStates /\ disk \in ValidStates
      BY <1>1, FileReplaced, InUse
    <2>2. OpenNotices' \in SUBSET Notices
      BY DEF OpenNotices
    <2>3. Reviewed' \in [Notices -> Nat]
      BY <2>1, Numbers DEF Reviewed, Notices
    <2>4. \A n \in Notices : Reviewed[n] <= Reviewed'[n]
      BY <2>1 DEF Reviewed, Notices, Follows, FollowsAt
    <2>5. \A n \in OpenNotices \ OpenNotices' : Posted[n] > 0 \/ Reviewed[n] < Reviewed'[n]
      BY <2>1, Numbers DEF OpenNotices, Posted, Reviewed, Notices, Follows, FollowsAt
    <2>6. \A n \in OpenNotices' \ OpenNotices : Posted[n] <= Reviewed'[n]
      BY <2>1 DEF OpenNotices, Posted, Reviewed, Notices, Follows, FollowsAt
    <2>7. Posted' = Posted
      BY <2>1 DEF Posted
    <2>8. Announced!Record
      BY <2>2, <2>3, <2>4, <2>5, <2>6, <2>7 DEF Announced!Record
    <2>. QED
      BY <2>8 DEF Announced!Next
  <1>2. CASE Next /\ disk' = disk /\ sent' # sent
    <2>. DEFINE n == <<current, mem.outbox[current].rev>>
    <2>1. pc = "posting" /\ Arrives
      BY <1>2, MessageArrives
    <2>2. n \in OpenNotices /\ n \in Notices
      BY <2>1, Posting DEF OpenNotices, Notices
    <2>3. Posted[n] <= Reviewed[n]
      BY <2>1, <2>2, Posting DEF Posted, Reviewed
    <2>4. Posted' = [Posted EXCEPT ![n] = @ + 1]
      <3>1. \A t \in Tasks, r \in Revs :
                sent'[t][r] = IF <<t, r>> = n THEN sent[t][r] + 1 ELSE sent[t][r]
        BY <2>1, Posting
      <3>2. /\ \A m \in Notices : m[1] \in Tasks /\ m[2] \in Revs /\ m = <<m[1], m[2]>>
            /\ Posted = [m \in Notices |-> sent[m[1]][m[2]]]
            /\ Posted' = [m \in Notices |-> sent'[m[1]][m[2]]]
        BY DEF Posted, Notices
      <3>. HIDE DEF n
      <3>3. \A m \in Notices : Posted'[m] = IF m = n THEN Posted[m] + 1 ELSE Posted[m]
        BY <3>1, <3>2
      <3>. QED
        BY <2>2, <3>2, <3>3
    <2>5. OpenNotices' = OpenNotices /\ Reviewed' = Reviewed
      BY <1>2 DEF OpenNotices, Reviewed
    <2>6. Announced!Post(n)
      BY <2>2, <2>3, <2>4, <2>5 DEF Announced!Post
    <2>. QED
      BY <2>2, <2>6 DEF Announced!Next
  <1>3. CASE disk' = disk /\ sent' = sent
    BY <1>3 DEF Announced!vars, OpenNotices, Posted, Reviewed
  <1>. QED
    BY <1>1, <1>2, <1>3 DEF vars

\* Through crashes, failed saves, late boards and full queues the notifier posts
\* only what its file has open, again only after a review, and closes an
\* uncertain POST only when the message is there or left to an operator.
THEOREM Announces == Spec => AnnouncesWithReview
  <1>. QED
    BY Initially, Inductive, AnnouncedInit, AnnouncedStep, PTL
       DEF Spec, AnnouncesWithReview, Announced!Spec
=============================================================================
