------------------------------ MODULE Ownership ------------------------------
(***************************************************************************)
(* The ownership registry of bridge.py and the functions that read and     *)
(* change it: zulip_topic_aliases (topic to thread), topic_sessions (topic *)
(* to Hermes session) and zulip_threads (the session, the current topic    *)
(* and the last message of each thread), with the reservations of          *)
(* STATE_RESERVATIONS.  One stream of one realm is modelled.  A topic is a *)
(* spelling, and stands for "T" and the resolved "✔ T".  Spellings that    *)
(* differ in case or spacing share the key of the aliases, but each has    *)
(* its own key in topic_sessions.                                          *)
(***************************************************************************)
EXTENDS Integers, FiniteSets

CONSTANTS
    Msgs,            \* message identifiers, ordered by age
    Topics,          \* the topics of the stream, as they are spelled
    Name,            \* normalize_topic: the key of a topic in the aliases
    ZulipName,       \* what Zulip takes for one topic: it ignores case
    Sessions,        \* the Hermes sessions, numbered in the order of their creation
    NoTopic          \* no topic

ASSUME OwnershipAssumption ==
    /\ Msgs \subseteq Nat \ {0}
    /\ IsFiniteSet(Msgs)
    /\ IsFiniteSet(Topics)
    /\ DOMAIN Name = Topics
    /\ DOMAIN ZulipName = Topics
    /\ \A t, u \in Topics : ZulipName[t] = ZulipName[u] => Name[t] = Name[u]
    /\ Sessions \subseteq Nat \ {0}
    /\ NoTopic \notin Topics

(***************************************************************************)
(* A thread takes its identifier from the name of the topic, or from the   *)
(* message (the anchor), that opens it.                                    *)
(***************************************************************************)
Names == {Name[t] : t \in Topics}

NoSession == 0

NoThread == <<>>
TopicThread(n) == <<"topic", n>>
AnchorThread(m) == <<"anchor", m>>
Threads == {TopicThread(n) : n \in Names} \cup {AnchorThread(m) : m \in Msgs}

Owners == [thread : Threads \cup {NoThread}, sess : Sessions \cup {NoSession}]
NoOwner == [thread |-> NoThread, sess |-> NoSession]

Registries ==
    [alias : [Names -> Threads \cup {NoThread}],
     topicSess : [Topics -> Sessions \cup {NoSession}],
     sess : [Threads -> Sessions \cup {NoSession}],
     display : [Threads -> Topics \cup {NoTopic}],
     last : [Threads -> Msgs \cup {0}]]

EmptyRegistry ==
    [alias |-> [n \in Names |-> NoThread],
     topicSess |-> [t \in Topics |-> NoSession],
     sess |-> [x \in Threads |-> NoSession],
     display |-> [x \in Threads |-> NoTopic],
     last |-> [x \in Threads |-> 0]]

\* A thread is known from its first noted message on.
Known(reg) == {x \in Threads : reg.last[x] # 0}

SessionOf(reg, x) == IF x = NoThread THEN NoSession ELSE reg.sess[x]
ThreadsOf(reg, s) == {x \in Threads : s # NoSession /\ reg.sess[x] = s}
SessionIsOwned(reg, s) ==
    ThreadsOf(reg, s) # {} \/ \E t \in Topics : reg.topicSess[t] = s

(***************************************************************************)
(* _stored_topic_owner raises when the claims on a topic disagree, and     *)
(* otherwise returns its owner.                                            *)
(***************************************************************************)
SessionClaims(reg, t) ==
    {reg.topicSess[t], SessionOf(reg, reg.alias[Name[t]])} \ {NoSession}

ClaimsAgree(reg, t) ==
    /\ \A s1, s2 \in SessionClaims(reg, t) : s1 = s2
    /\ \A s \in SessionClaims(reg, t) :
        /\ \A x1, x2 \in ThreadsOf(reg, s) : x1 = x2
        /\ \/ reg.alias[Name[t]] = NoThread
           \/ ThreadsOf(reg, s) \subseteq {reg.alias[Name[t]]}

TheOne(S, none) == IF S = {} THEN none ELSE CHOOSE x \in S : TRUE

StoredOwner(reg, t) ==
    LET s == TheOne(SessionClaims(reg, t), NoSession)
    IN  [thread |-> IF reg.alias[Name[t]] # NoThread THEN reg.alias[Name[t]]
                    ELSE TheOne(ThreadsOf(reg, s), NoThread),
         sess |-> s]

OwnersConflict(a, b) ==
    \/ a.thread # NoThread /\ b.thread # NoThread /\ a.thread # b.thread
    \/ a.sess # NoSession /\ b.sess # NoSession /\ a.sess # b.sess

(***************************************************************************)
(* Reservations: a holder keeps a topic, in every spelling, for an owner.  *)
(***************************************************************************)
\* Mutation: a reservation only guards against other sessions.
MutReservationConflicts(rsv, t, owner) ==
    \E r \in rsv : Name[r.topic] = Name[t] /\ owner.sess # NoSession /\ r.owner.sess # owner.sess

ReservationConflicts(rsv, t, owner) ==
    \E r \in rsv : Name[r.topic] = Name[t] /\ OwnersConflict(owner, r.owner)

(***************************************************************************)
(* A conversation is what a turn carries through the program: its message, *)
(* topic, thread and session; the thread is known once it was resolved.    *)
(***************************************************************************)
Conversations ==
    [msg : Msgs, topic : Topics, thread : Threads \cup {NoThread},
     sess : Sessions \cup {NoSession}]

OwnerOf(c) == [thread |-> c.thread, sess |-> c.sess]

\* _note_bridge_thread_unlocked returns True, short of the limits of the registry.
CanNoteThread(reg, rsv, c) ==
    /\ reg.alias[Name[c.topic]] \in {NoThread, c.thread}
    /\ c.sess # NoSession =>
        /\ reg.topicSess[c.topic] \in {NoSession, c.sess}
        /\ reg.sess[c.thread] \in {NoSession, c.sess}
    /\ ~ ReservationConflicts(rsv, c.topic, OwnerOf(c))

\* Mutation: a turn without a session takes it from its thread.
MutNoteThread(reg, c) ==
    LET newest == c.msg >= reg.last[c.thread]
    IN  [reg EXCEPT
            !.alias[Name[c.topic]] = c.thread,
            !.display[c.thread] = IF newest THEN c.topic ELSE @,
            !.sess[c.thread] = IF newest THEN c.sess ELSE @,
            !.last[c.thread] = IF newest THEN c.msg ELSE @]

\* Its effect: only a message as new as the last one changes the display topic.
NoteThread(reg, c) ==
    LET newest == c.msg >= reg.last[c.thread]
    IN  [reg EXCEPT
            !.alias[Name[c.topic]] = c.thread,
            !.display[c.thread] = IF newest THEN c.topic ELSE @,
            !.sess[c.thread] =
                IF c.sess # NoSession /\ (newest \/ @ = NoSession) THEN c.sess ELSE @,
            !.last[c.thread] = IF newest THEN c.msg ELSE @]

\* _note_topic_session_unlocked returns True.
CanNoteSession(reg, rsv, c) ==
    /\ c.sess # NoSession
    /\ reg.topicSess[c.topic] \in {NoSession, c.sess}
    /\ ~ ReservationConflicts(rsv, c.topic, OwnerOf(c))

NoteSession(reg, c) == [reg EXCEPT !.topicSess[c.topic] = c.sess]

\* The two notes that admission, publication and reconciliation make together.
CanNote(reg, rsv, c) ==
    /\ CanNoteThread(reg, rsv, c)
    /\ c.sess # NoSession => CanNoteSession(NoteThread(reg, c), rsv, c)

Note(reg, c) ==
    IF c.sess # NoSession THEN NoteSession(NoteThread(reg, c), c) ELSE NoteThread(reg, c)

\* _expire_stale_topic_owner_unlocked: the name is taken from its owner, and
\* the session of this spelling; other spellings of the name keep theirs.
Expire(reg, t, owner) ==
    [reg EXCEPT !.alias[Name[t]] = IF @ = owner.thread THEN NoThread ELSE @,
                !.topicSess[t] = IF @ = owner.sess THEN NoSession ELSE @]

\* The claims that remain: topics with the session that they still lead to.
Leftovers(reg, t, owner) ==
    {<<u, owner.sess>> : u \in {v \in Topics \ {t} : /\ Name[v] = Name[t]
                                                    /\ owner.sess # NoSession
                                                    /\ reg.topicSess[v] = owner.sess}}

(***************************************************************************)
(* _thread_for_matching_anchors: the threads whose last message is in      *)
(* topic t for Zulip, where[m] being the topic of message m.               *)
(***************************************************************************)
SameTopic(p, t) == p \in Topics /\ ZulipName[p] = ZulipName[t]

LiveThreads(reg, where, t) == {x \in Known(reg) : SameTopic(where[reg.last[x]], t)}

(***************************************************************************)
(* ensure_reply_destination_owner up to its lock: the turn that carries    *)
(* the conversation c may answer in topic t.                               *)
(***************************************************************************)
SourceOwner(reg, c) ==
    [thread |-> c.thread,
     sess |-> IF c.sess # NoSession THEN c.sess ELSE reg.sess[c.thread]]

\* The turn created a session that its thread does not have yet.
Unpublished(reg, c) ==
    /\ c.thread \in Known(reg)
    /\ c.sess # NoSession
    /\ reg.sess[c.thread] = NoSession
    /\ ~ SessionIsOwned(reg, c.sess)

MayAnswerIn(reg, where, c, t) ==
    LET source == SourceOwner(reg, c)
        live   == TheOne(LiveThreads(reg, where, t), NoThread)
        others == {StoredOwner(reg, t),
                   [thread |-> live, sess |-> SessionOf(reg, live)]}
    IN  /\ t \in Topics
        /\ ClaimsAgree(reg, t)
        /\ \A x, y \in LiveThreads(reg, where, t) : x = y
        /\ ~ Unpublished(reg, c) => source.sess = NoSession \/ SessionIsOwned(reg, source.sess)
        /\ Unpublished(reg, c) => \E o \in others : o.thread = c.thread
        /\ reg.sess[c.thread] \in {NoSession, source.sess}
        /\ \A o \in others : ~ OwnersConflict(source, o)

\* Its check under the lock, against the registry of that moment.
StillFree(reg, source, t) ==
    ClaimsAgree(reg, t) /\ ~ OwnersConflict(source, StoredOwner(reg, t))

(***************************************************************************)
(* resolve_session up to its lock: the conversation of message m, found in *)
(* topic t.  A thread that owns the name but lives elsewhere is stale.     *)
(***************************************************************************)
StaleOwner(reg, where, t) ==
    LET owner == StoredOwner(reg, t)
    IN  /\ owner.thread # NoThread
        /\ owner.thread \in Known(reg)
        /\ reg.display[owner.thread] # t
        /\ owner.thread \notin LiveThreads(reg, where, t)

Resolved(reg, where, m, t) ==
    LET stale  == StaleOwner(reg, where, t)
        named  == IF stale THEN NoOwner ELSE StoredOwner(reg, t)
        live   == TheOne(LiveThreads(reg, where, t), NoThread)
        thread == IF named.thread # NoThread THEN named.thread
                  ELSE IF live # NoThread THEN live
                  ELSE IF stale THEN AnchorThread(m) ELSE TopicThread(Name[t])
        sess   == IF named.sess # NoSession THEN named.sess ELSE SessionOf(reg, live)
    IN  [msg |-> m, topic |-> t, thread |-> thread,
         sess |-> IF reg.sess[thread] # NoSession THEN reg.sess[thread] ELSE sess]

CanResolve(reg, where, m, t) ==
    LET named == IF StaleOwner(reg, where, t) THEN NoOwner ELSE StoredOwner(reg, t)
        live  == TheOne(LiveThreads(reg, where, t), NoThread)
        c     == Resolved(reg, where, m, t)
    IN  /\ t \in Topics
        /\ ClaimsAgree(reg, t)
        /\ \A x, y \in LiveThreads(reg, where, t) : x = y
        /\ ~ OwnersConflict(named, [thread |-> live, sess |-> SessionOf(reg, live)])
        /\ reg.sess[c.thread] # NoSession =>
            /\ ThreadsOf(reg, reg.sess[c.thread]) = {c.thread}
            /\ named.sess \in {NoSession, reg.sess[c.thread]}
=============================================================================
