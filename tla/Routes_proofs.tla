---------------------------- MODULE Routes_proofs ----------------------------
(***************************************************************************)
(* Proofs about Routes, for any messages, topics and sessions and any      *)
(* number of moves, faults and crashes.                                    *)
(***************************************************************************)
EXTENDS Routes, SequenceTheorems, TLAPS

(***************************************************************************)
(* The registry.                                                           *)
(***************************************************************************)
\* A thread has a display topic from its first message on.
RegistryOK(reg) ==
    /\ reg \in Registries
    /\ \A x \in Threads : (reg.last[x] = 0) <=> (reg.display[x] = NoTopic)

\* A session that a topic is claimed for is the one of the thread of that name,
\* but for the claims of a set L that were left over.
NamesAreOwned(reg, L) ==
    \A t \in Topics : reg.topicSess[t] # NoSession /\ <<t, reg.topicSess[t]>> \notin L =>
        reg.alias[Name[t]] # NoThread /\ reg.sess[reg.alias[Name[t]]] = reg.topicSess[t]

\* A session that a topic is claimed for is the one of a thread.
Backed(reg) ==
    \A t \in Topics : reg.topicSess[t] # NoSession =>
        \E x \in Threads : reg.sess[x] = reg.topicSess[t]

\* No thread is none.
LEMMA ThreadFacts == NoThread \notin Threads
  BY DEF NoThread, Threads, TopicThread, AnchorThread

\* What the constants are.
LEMMA SessionFacts ==
    /\ NoSession \notin Sessions
    /\ \A s \in Sessions : s \in Nat
    /\ \A m \in Msgs : m \in Nat /\ m # 0
    /\ NoTopic \notin Topics
    /\ \A t \in Topics : Name[t] \in Names
  BY OwnershipAssumption DEF NoSession, Names

\* The element of a set, if it has any.
LEMMA TheOneFacts ==
    ASSUME NEW S, NEW none
    PROVE  /\ S # {} => TheOne(S, none) \in S
           /\ S = {} => TheOne(S, none) = none
  BY DEF TheOne

\* The note of a thread: the name is its own, and a session it had it keeps.
LEMMA NoteThreadFacts ==
    ASSUME NEW reg, RegistryOK(reg), NEW c \in Conversations, c.thread \in Threads, NEW held,
           CanNoteThread(reg, held, c)
    PROVE  LET new == NoteThread(reg, c)
           IN  /\ RegistryOK(new)
               /\ new.alias = [reg.alias EXCEPT ![Name[c.topic]] = c.thread]
               /\ new.topicSess = reg.topicSess
               /\ \A x \in Threads : new.sess[x] = reg.sess[x] \/ (x = c.thread /\ new.sess[x] = c.sess)
               /\ \A x \in Threads : reg.sess[x] # NoSession => new.sess[x] = reg.sess[x]
               /\ c.sess # NoSession => new.sess[c.thread] = c.sess
               /\ \A L : NamesAreOwned(reg, L) => NamesAreOwned(new, L)
               /\ Backed(reg) => Backed(new)
  <1>. DEFINE new == NoteThread(reg, c)
  <1>1. /\ c.topic \in Topics /\ c.msg \in Msgs /\ c.sess \in Sessions \cup {NoSession}
        /\ reg \in Registries
        /\ \A x \in Threads : (reg.last[x] = 0) <=> (reg.display[x] = NoTopic)
    BY DEF Conversations, RegistryOK
  <1>2. /\ c.msg \in Nat /\ c.msg # 0 /\ reg.last[c.thread] \in Nat /\ c.topic # NoTopic
        /\ \A t \in Topics : Name[t] \in Names
    BY <1>1, SessionFacts DEF Registries
  <1>3. new \in Registries
    BY <1>1, <1>2 DEF NoteThread, Registries
  <1>4. \A x \in Threads : (new.last[x] = 0) <=> (new.display[x] = NoTopic)
    BY <1>1, <1>2 DEF NoteThread, Registries
  <1>5. /\ new.alias = [reg.alias EXCEPT ![Name[c.topic]] = c.thread]
        /\ new.topicSess = reg.topicSess
    BY <1>1 DEF NoteThread, Registries
  <1>6. \A x \in Threads : new.sess[x] = IF x = c.thread /\ c.sess # NoSession
                                         THEN c.sess ELSE reg.sess[x]
    BY <1>1 DEF NoteThread, Registries, CanNoteThread
  <1>7. c.sess # NoSession => reg.sess[c.thread] \in {NoSession, c.sess}
    BY DEF CanNoteThread
  <1>8. ASSUME NEW L, NamesAreOwned(reg, L) PROVE NamesAreOwned(new, L)
    <2>. SUFFICES ASSUME NEW t \in Topics, new.topicSess[t] # NoSession,
                         <<t, new.topicSess[t]>> \notin L
                  PROVE  new.alias[Name[t]] # NoThread /\ new.sess[new.alias[Name[t]]] = new.topicSess[t]
      BY DEF NamesAreOwned
    <2>1. /\ reg.alias[Name[t]] # NoThread /\ reg.sess[reg.alias[Name[t]]] = reg.topicSess[t]
          /\ reg.topicSess[t] # NoSession /\ reg.alias[Name[t]] \in Threads
      BY <1>1, <1>2, <1>5, <1>8 DEF NamesAreOwned, Registries
    <2>2. new.alias[Name[t]] = reg.alias[Name[t]]
      BY <1>1, <1>2, <1>5, <2>1 DEF CanNoteThread, Registries
    <2>3. new.sess[reg.alias[Name[t]]] = reg.sess[reg.alias[Name[t]]]
      BY <1>6, <1>7, <2>1
    <2>. QED
      BY <1>5, <2>1, <2>2, <2>3
  <1>9. \A x \in Threads : reg.sess[x] # NoSession => new.sess[x] = reg.sess[x]
    BY <1>6, <1>7
  <1>10. ASSUME Backed(reg) PROVE Backed(new)
    BY <1>5, <1>9, <1>10 DEF Backed
  <1>. HIDE DEF new
  <1>. QED
    BY <1>3, <1>4, <1>5, <1>6, <1>7, <1>8, <1>9, <1>10 DEF RegistryOK, new

\* What both notes of a conversation do: the name is its own, with its session.
NoteEffect(reg, c, new) ==
    /\ RegistryOK(new)
    /\ new.alias = [reg.alias EXCEPT ![Name[c.topic]] = c.thread]
    /\ \A x \in Threads : new.sess[x] = reg.sess[x] \/ (x = c.thread /\ new.sess[x] = c.sess)
    /\ \A x \in Threads : reg.sess[x] # NoSession => new.sess[x] = reg.sess[x]
    /\ \A t \in Topics : new.topicSess[t] = reg.topicSess[t]
                          \/ (t = c.topic /\ c.sess # NoSession
                              /\ new.topicSess[t] = c.sess /\ new.sess[c.thread] = c.sess)
    /\ \A t \in Topics : reg.topicSess[t] # NoSession => new.topicSess[t] = reg.topicSess[t]
    /\ \A L : NamesAreOwned(reg, L) => NamesAreOwned(new, L)
    /\ Backed(reg) => Backed(new)

\* The first note alone has that effect.
LEMMA NoteThreadEffect ==
    ASSUME NEW reg, RegistryOK(reg), NEW c \in Conversations, c.thread \in Threads, NEW held,
           CanNoteThread(reg, held, c)
    PROVE  NoteEffect(reg, c, NoteThread(reg, c))
  <1>. DEFINE new == NoteThread(reg, c)
  <1>1. /\ RegistryOK(new)
        /\ new.alias = [reg.alias EXCEPT ![Name[c.topic]] = c.thread]
        /\ new.topicSess = reg.topicSess
        /\ \A x \in Threads : new.sess[x] = reg.sess[x] \/ (x = c.thread /\ new.sess[x] = c.sess)
        /\ \A x \in Threads : reg.sess[x] # NoSession => new.sess[x] = reg.sess[x]
        /\ \A L : NamesAreOwned(reg, L) => NamesAreOwned(new, L)
        /\ Backed(reg) => Backed(new)
    BY NoteThreadFacts
  <1>. HIDE DEF new
  <1>. QED
    BY <1>1 DEF NoteEffect, new

\* And so have both notes of an answer.
LEMMA NoteFacts ==
    ASSUME NEW reg, RegistryOK(reg), NEW c \in Conversations, c.thread \in Threads, NEW held,
           CanNote(reg, held, c)
    PROVE  NoteEffect(reg, c, Note(reg, c))
  <1>. DEFINE one == NoteThread(reg, c)
              new == Note(reg, c)
  <1>1. CanNoteThread(reg, held, c) /\ (c.sess # NoSession => CanNoteSession(one, held, c))
    BY DEF CanNote
  <1>2. NoteEffect(reg, c, one)
    BY <1>1, NoteThreadEffect
  <1>3. /\ one.topicSess = reg.topicSess
        /\ c.sess # NoSession => one.sess[c.thread] = c.sess
    BY <1>1, NoteThreadFacts
  <1>4. new = IF c.sess # NoSession THEN [one EXCEPT !.topicSess[c.topic] = c.sess] ELSE one
    BY DEF Note, NoteSession
  <1>5. /\ c.topic \in Topics /\ c.sess \in Sessions \cup {NoSession} /\ Name[c.topic] \in Names
        /\ reg.alias \in [Names -> Threads \cup {NoThread}]
        /\ c.sess # NoSession => reg.topicSess[c.topic] \in {NoSession, c.sess}
    BY <1>1, SessionFacts DEF Conversations, RegistryOK, Registries, CanNoteThread
  <1>. HIDE DEF one, new
  <1>6. CASE c.sess = NoSession
    BY <1>2, <1>4, <1>6 DEF new
  <1>7. CASE c.sess # NoSession
    <2>1. new = [one EXCEPT !.topicSess[c.topic] = c.sess]
      BY <1>4, <1>7
    <2>2. RegistryOK(new) /\ new.sess = one.sess /\ new.alias = one.alias
      BY <1>2, <1>5, <2>1 DEF NoteEffect, RegistryOK, Registries
    <2>3. \A t \in Topics : new.topicSess[t] = IF t = c.topic THEN c.sess ELSE reg.topicSess[t]
      BY <1>2, <1>3, <1>5, <2>1 DEF NoteEffect, RegistryOK, Registries
    <2>4. new.alias[Name[c.topic]] = c.thread /\ new.sess[c.thread] = c.sess /\ c.thread # NoThread
      BY <1>2, <1>3, <1>5, <1>7, <2>2, ThreadFacts DEF NoteEffect
    <2>5. ASSUME NEW L, NamesAreOwned(reg, L) PROVE NamesAreOwned(new, L)
      <3>1. NamesAreOwned(one, L)
        BY <1>2, <2>5 DEF NoteEffect
      <3>. QED
        BY <1>3, <2>2, <2>3, <2>4, <3>1 DEF NamesAreOwned
    <2>6. ASSUME Backed(reg) PROVE Backed(new)
      <3>1. Backed(one)
        BY <1>2, <2>6 DEF NoteEffect
      <3>. QED
        BY <1>3, <2>2, <2>3, <2>4, <3>1 DEF Backed
    <2>. QED
      BY <1>2, <1>3, <1>5, <1>7, <2>2, <2>3, <2>4, <2>5, <2>6 DEF NoteEffect, new
  <1>. QED
    BY <1>6, <1>7

\* Whichever notes are made.
LEMMA NoteGains ==
    ASSUME NEW reg, RegistryOK(reg), NEW c \in Conversations, c.thread \in Threads, NEW held,
           CanNoteThread(reg, held, c), NEW new,
           new = NoteThread(reg, c) \/ (CanNote(reg, held, c) /\ new = Note(reg, c))
    PROVE  NoteEffect(reg, c, new)
  BY NoteThreadEffect, NoteFacts

\* The owner of a name: its thread, and the session that both have.  Where the
\* claims agree, the session of a claim alone leads to its thread.
LEMMA StoredOwnerFacts ==
    ASSUME NEW reg, RegistryOK(reg), NEW t \in Topics
    PROVE  /\ StoredOwner(reg, t) \in Owners
           /\ Backed(reg) /\ ClaimsAgree(reg, t) =>
                /\ reg.alias[Name[t]] \in {NoThread, StoredOwner(reg, t).thread}
                /\ reg.topicSess[t] \in {NoSession, StoredOwner(reg, t).sess}
                /\ StoredOwner(reg, t).sess = SessionOf(reg, StoredOwner(reg, t).thread)
  <1>. DEFINE claims == SessionClaims(reg, t)
              s == TheOne(claims, NoSession)
              x == TheOne(ThreadsOf(reg, s), NoThread)
              a == reg.alias[Name[t]]
              owner == StoredOwner(reg, t)
  <1>1. /\ a \in Threads \cup {NoThread} /\ reg.topicSess[t] \in Sessions \cup {NoSession}
        /\ \A y \in Threads : reg.sess[y] \in Sessions \cup {NoSession}
    BY SessionFacts DEF RegistryOK, Registries
  <1>2. claims = {reg.topicSess[t], SessionOf(reg, a)} \ {NoSession}
    BY DEF SessionClaims
  <1>3. claims \subseteq Sessions
    BY <1>1, <1>2 DEF SessionOf
  <1>4. s \in Sessions \cup {NoSession} /\ (claims # {} => s \in claims) /\ (claims = {} => s = NoSession)
    BY <1>3, TheOneFacts
  <1>5. /\ x \in Threads \cup {NoThread}
        /\ ThreadsOf(reg, s) # {} => x \in ThreadsOf(reg, s)
        /\ ThreadsOf(reg, s) = {} => x = NoThread
    BY TheOneFacts DEF ThreadsOf
  <1>6. owner = [thread |-> IF a # NoThread THEN a ELSE x, sess |-> s]
    BY DEF StoredOwner
  <1>7. owner \in Owners
    BY <1>1, <1>4, <1>5, <1>6 DEF Owners
  <1>. HIDE DEF claims, s, x, a, owner
  <1>8. ASSUME Backed(reg), ClaimsAgree(reg, t)
        PROVE  /\ a \in {NoThread, owner.thread}
               /\ reg.topicSess[t] \in {NoSession, owner.sess}
               /\ owner.sess = SessionOf(reg, owner.thread)
    <2>1. /\ \A s1, s2 \in claims : s1 = s2
          /\ \A s1 \in claims : a = NoThread \/ ThreadsOf(reg, s1) \subseteq {a}
      BY <1>8 DEF ClaimsAgree, claims, a
    <2>2. \A s1 \in claims : s1 = s
      BY <1>4, <2>1
    <2>3. a \in {NoThread, owner.thread} /\ owner.sess = s /\ reg.topicSess[t] \in {NoSession, s}
      BY <1>2, <1>6, <2>2
    <2>4. ThreadsOf(reg, s) = {y \in Threads : s # NoSession /\ reg.sess[y] = s}
      BY DEF ThreadsOf
    <2>5. CASE a # NoThread
      <3>1. owner.thread = a /\ SessionOf(reg, a) = reg.sess[a] /\ a \in Threads
        BY <1>1, <1>6, <2>5 DEF SessionOf
      <3>2. CASE reg.sess[a] # NoSession
        BY <1>2, <2>2, <2>3, <3>1, <3>2
      <3>3. CASE reg.sess[a] = NoSession /\ reg.topicSess[t] # NoSession
        <4>1. s = reg.topicSess[t] /\ s \in claims
          BY <1>2, <1>4, <2>2, <3>1, <3>3
        <4>2. PICK y \in Threads : reg.sess[y] = s
          BY <1>8, <3>3, <4>1 DEF Backed
        <4>3. y = a
          BY <2>1, <2>4, <2>5, <3>3, <4>1, <4>2
        <4>. QED
          BY <3>3, <4>1, <4>2, <4>3
      <3>4. CASE reg.sess[a] = NoSession /\ reg.topicSess[t] = NoSession
        BY <1>2, <1>4, <2>3, <3>1, <3>4
      <3>. QED
        BY <2>3, <3>2, <3>3, <3>4
    <2>6. CASE a = NoThread
      <3>1. owner.thread = x /\ claims = {reg.topicSess[t]} \ {NoSession}
        BY <1>2, <1>6, <2>6 DEF SessionOf
      <3>2. CASE reg.topicSess[t] = NoSession
        BY <1>4, <1>5, <2>3, <2>4, <3>1, <3>2 DEF SessionOf
      <3>3. CASE reg.topicSess[t] # NoSession
        <4>1. s = reg.topicSess[t]
          BY <2>2, <3>1, <3>3
        <4>2. PICK y \in Threads : reg.sess[y] = s
          BY <1>8, <3>3, <4>1 DEF Backed
        <4>3. x \in Threads /\ reg.sess[x] = s
          BY <1>5, <2>4, <3>3, <4>1, <4>2
        <4>. QED
          BY <2>3, <3>1, <4>3, ThreadFacts DEF SessionOf
      <3>. QED
        BY <3>2, <3>3
    <2>. QED
      BY <2>3, <2>5, <2>6
  <1>. QED
    BY <1>7, <1>8 DEF a, owner

\* The name is taken from the owner it has: of its claims only those of other
\* spellings stay, and they are left over.
LEMMA ExpireFacts ==
    ASSUME NEW reg, RegistryOK(reg), NEW t \in Topics, NEW owner
    PROVE  LET new == Expire(reg, t, owner)
           IN  /\ RegistryOK(new)
               /\ new.sess = reg.sess
               /\ \A n \in Names : new.alias[n] \in {reg.alias[n], NoThread}
               /\ \A u \in Topics : new.topicSess[u] \in {reg.topicSess[u], NoSession}
               /\ Backed(reg) => Backed(new)
               /\ \A L : NamesAreOwned(reg, L) /\ Backed(reg) /\ ClaimsAgree(reg, t)
                            /\ owner = StoredOwner(reg, t)
                        => NamesAreOwned(new, L \cup Leftovers(reg, t, owner))
  <1>. DEFINE new == Expire(reg, t, owner)
  <1>0. reg.alias \in [Names -> Threads \cup {NoThread}] /\ \A u \in Topics : Name[u] \in Names
    BY SessionFacts DEF RegistryOK, Registries
  <1>1. /\ new.sess = reg.sess /\ new.last = reg.last /\ new.display = reg.display
        /\ new.alias = [reg.alias EXCEPT ![Name[t]] = IF @ = owner.thread THEN NoThread ELSE @]
        /\ new.topicSess = [reg.topicSess EXCEPT ![t] = IF @ = owner.sess THEN NoSession ELSE @]
        /\ new \in Registries
    BY <1>0 DEF Expire, RegistryOK, Registries
  <1>2. RegistryOK(new)
    BY <1>1 DEF RegistryOK
  <1>3. /\ \A n \in Names : new.alias[n] \in {reg.alias[n], NoThread}
        /\ \A u \in Topics : new.topicSess[u] \in {reg.topicSess[u], NoSession}
        /\ \A u \in Topics \ {t} : new.topicSess[u] = reg.topicSess[u]
        /\ \A n \in Names \ {Name[t]} : new.alias[n] = reg.alias[n]
    BY <1>1 DEF RegistryOK, Registries
  <1>4. Backed(reg) => Backed(new)
    BY <1>1, <1>3 DEF Backed
  <1>5. ASSUME NEW L, NamesAreOwned(reg, L), Backed(reg), ClaimsAgree(reg, t), owner = StoredOwner(reg, t)
        PROVE  NamesAreOwned(new, L \cup Leftovers(reg, t, owner))
    <2>1. /\ reg.alias[Name[t]] \in {NoThread, owner.thread}
          /\ reg.topicSess[t] \in {NoSession, owner.sess}
          /\ owner.sess = SessionOf(reg, owner.thread)
      BY <1>5, StoredOwnerFacts
    <2>. SUFFICES ASSUME NEW u \in Topics, new.topicSess[u] # NoSession,
                         <<u, new.topicSess[u]>> \notin L \cup Leftovers(reg, t, owner)
                  PROVE  new.alias[Name[u]] # NoThread /\ new.sess[new.alias[Name[u]]] = new.topicSess[u]
      BY DEF NamesAreOwned
    <2>2. new.topicSess[t] = NoSession
      BY <1>1, <2>1 DEF RegistryOK, Registries
    <2>. HIDE DEF new
    <2>3. u # t /\ new.topicSess[u] = reg.topicSess[u]
      BY <1>3, <2>2
    <2>4. reg.alias[Name[u]] # NoThread /\ reg.sess[reg.alias[Name[u]]] = reg.topicSess[u]
      BY <1>5, <2>3 DEF NamesAreOwned
    <2>5. Name[u] # Name[t]
      <3>. SUFFICES ASSUME Name[u] = Name[t] PROVE FALSE
        OBVIOUS
      <3>1. reg.alias[Name[u]] = owner.thread /\ owner.sess = reg.topicSess[u]
        BY <2>1, <2>4 DEF SessionOf
      <3>. QED
        BY <2>3, <3>1 DEF Leftovers
    <2>. QED
      BY <1>0, <1>1, <1>3, <2>3, <2>4, <2>5
  <1>. QED
    BY <1>1, <1>2, <1>3, <1>4, <1>5

\* The conversation of a turn, completed with what its thread has.
LEMMA SourceOwnerFacts ==
    ASSUME NEW reg, RegistryOK(reg), NEW c \in Conversations, c.thread \in Threads
    PROVE  /\ SourceOwner(reg, c) \in Owners
           /\ SourceOwner(reg, c).thread = c.thread
           /\ SourceOwner(reg, c).sess = IF c.sess # NoSession THEN c.sess ELSE reg.sess[c.thread]
  BY DEF SourceOwner, Owners, Conversations, RegistryOK, Registries

\* The thread that lives in a topic, if there is one.
LEMMA LiveFacts ==
    ASSUME NEW reg, NEW places, NEW t
    PROVE  TheOne(LiveThreads(reg, places, t), NoThread) \in Threads \cup {NoThread}
  BY TheOneFacts DEF LiveThreads, Known

\* The conversation of a new message takes its session from its thread.
LEMMA ResolvedFacts ==
    ASSUME NEW reg, RegistryOK(reg), NEW m \in Msgs, NEW places, NEW t \in Topics,
           CanResolve(reg, places, m, t)
    PROVE  LET c == Resolved(reg, places, m, t)
           IN  /\ c.thread \in Threads
               /\ c.sess \in Sessions \cup {NoSession}
               /\ Backed(reg) => c.sess = reg.sess[c.thread]
  <1>. DEFINE owner == StoredOwner(reg, t)
              stale == StaleOwner(reg, places, t)
              named == IF stale THEN NoOwner ELSE owner
              live == TheOne(LiveThreads(reg, places, t), NoThread)
              thread == IF named.thread # NoThread THEN named.thread
                        ELSE IF live # NoThread THEN live
                        ELSE IF stale THEN AnchorThread(m) ELSE TopicThread(Name[t])
              sess == IF named.sess # NoSession THEN named.sess ELSE SessionOf(reg, live)
              c == Resolved(reg, places, m, t)
  <1>1. c = [msg |-> m, topic |-> t, thread |-> thread,
             sess |-> IF reg.sess[thread] # NoSession THEN reg.sess[thread] ELSE sess]
    BY DEF Resolved
  <1>2. ~ OwnersConflict(named, [thread |-> live, sess |-> SessionOf(reg, live)])
    BY DEF CanResolve
  <1>3. /\ owner \in Owners
        /\ Backed(reg) => owner.sess = SessionOf(reg, owner.thread)
    BY StoredOwnerFacts DEF CanResolve
  <1>4. live \in Threads \cup {NoThread}
    BY LiveFacts
  <1>5. AnchorThread(m) \in Threads /\ TopicThread(Name[t]) \in Threads
    BY SessionFacts DEF Threads
  <1>. HIDE DEF owner, stale, live, c
  <1>6. named \in Owners /\ (Backed(reg) => named.sess = SessionOf(reg, named.thread))
    BY <1>3 DEF NoOwner, Owners, SessionOf, NoSession
  <1>. HIDE DEF named
  <1>7. thread \in Threads
    BY <1>4, <1>5, <1>6 DEF Owners
  <1>8. ASSUME Backed(reg), reg.sess[thread] = NoSession PROVE sess = NoSession
    <2>1. CASE named.thread # NoThread
      <3>1. thread = named.thread /\ named.sess = reg.sess[thread]
        BY <1>6, <1>8, <2>1 DEF SessionOf
      <3>2. live = NoThread \/ live = named.thread
        BY <1>2, <2>1 DEF OwnersConflict
      <3>3. SessionOf(reg, live) = NoSession \/ SessionOf(reg, live) = reg.sess[thread]
        BY <3>1, <3>2 DEF SessionOf
      <3>. HIDE DEF thread
      <3>. QED
        BY <1>8, <2>1, <3>1, <3>3
    <2>2. CASE named.thread = NoThread
      <3>1. named.sess = NoSession
        BY <1>6, <1>8, <2>2 DEF SessionOf
      <3>2. live # NoThread => thread = live /\ SessionOf(reg, live) = reg.sess[thread]
        BY <2>2 DEF SessionOf
      <3>3. live = NoThread => SessionOf(reg, live) = NoSession
        BY DEF SessionOf
      <3>. HIDE DEF thread
      <3>. QED
        BY <1>8, <3>1, <3>2, <3>3
    <2>. QED
      BY <2>1, <2>2
  <1>. HIDE DEF thread, sess
  <1>9. reg.sess[thread] \in Sessions \cup {NoSession}
    BY <1>7 DEF RegistryOK, Registries
  <1>10. sess \in Sessions \cup {NoSession}
    BY <1>4, <1>6 DEF sess, Owners, SessionOf, RegistryOK, Registries
  <1>. QED
    BY <1>1, <1>7, <1>8, <1>9, <1>10 DEF c

\* The list of attempted routes, with a topic moved to its end.
LEMMA WithoutFacts ==
    ASSUME NEW tried \in Seq(Topics), IsInjective(tried), NEW t \in Topics
    PROVE  /\ Without(tried, t) \in Seq(Topics)
           /\ IsInjective(Without(tried, t))
           /\ Range(Without(tried, t)) = Range(tried) \ {t}
           /\ Len(Without(tried, t)) = IF t \in Range(tried) THEN Len(tried) - 1 ELSE Len(tried)
  <1>. DEFINE at_t == {i \in DOMAIN tried : tried[i] = t}
              w == Without(tried, t)
  <1>1. CASE at_t = {}
    BY <1>1 DEF Without, Range
  <1>2. CASE at_t # {}
    <2>1. PICK k : k = CHOOSE i \in at_t : TRUE
      OBVIOUS
    <2>2. k \in 1 .. Len(tried) /\ tried[k] = t /\ w = RemoveAt(tried, k)
      BY <1>2, <2>1 DEF Without
    <2>3. w = SubSeq(tried, 1, k - 1) \o SubSeq(tried, k + 1, Len(tried))
      BY <2>2 DEF RemoveAt
    <2>. DEFINE front == SubSeq(tried, 1, k - 1)
                back == SubSeq(tried, k + 1, Len(tried))
    <2>4. /\ front \in Seq(Topics) /\ Len(front) = k - 1
          /\ \A i \in 1 .. k - 1 : front[i] = tried[i]
      BY <2>2, SubSeqProperties
    <2>5. /\ back \in Seq(Topics) /\ Len(back) = Len(tried) - k
          /\ \A i \in 1 .. Len(tried) - k : back[i] = tried[k + i]
      BY <2>2, SubSeqProperties
    <2>. HIDE DEF front, back
    <2>6. w = front \o back
      BY <2>3 DEF front, back
    <2>7. /\ w \in Seq(Topics) /\ Len(w) = Len(front) + Len(back)
          /\ \A i \in 1 .. Len(front) + Len(back) :
                w[i] = IF i <= Len(front) THEN front[i] ELSE back[i - Len(front)]
      <3>1. front \in Seq(Topics) /\ back \in Seq(Topics)
        BY <2>4, <2>5
      <3>2. /\ front \o back \in Seq(Topics) /\ Len(front \o back) = Len(front) + Len(back)
            /\ \A i \in 1 .. Len(front) + Len(back) :
                (front \o back)[i] = IF i <= Len(front) THEN front[i] ELSE back[i - Len(front)]
        BY <3>1, ConcatProperties
      <3>. QED
        BY <2>6, <3>2
    <2>8. Len(w) = Len(tried) - 1
      BY <2>2, <2>4, <2>5, <2>7
    <2>9. ASSUME NEW i \in 1 .. Len(w) PROVE w[i] = IF i < k THEN tried[i] ELSE tried[i + 1]
      <3>1. CASE i < k
        BY <2>2, <2>4, <2>5, <2>7, <2>8, <3>1
      <3>2. CASE i >= k
        <4>1. i - (k - 1) \in 1 .. Len(tried) - k /\ ~ (i <= Len(front))
          BY <2>2, <2>4, <2>8, <3>2
        <4>2. back[i - (k - 1)] = tried[k + (i - (k - 1))]
          BY <2>5, <4>1
        <4>3. k + (i - (k - 1)) = i + 1
          BY <2>2
        <4>. QED
          BY <2>2, <2>4, <2>5, <2>7, <2>8, <3>2, <4>1, <4>2, <4>3
      <3>. QED
        BY <2>2, <3>1, <3>2
    <2>10. /\ w \in Seq(Topics)
          /\ Len(w) = Len(tried) - 1
          /\ \A i \in 1 .. Len(w) : w[i] = IF i < k THEN tried[i] ELSE tried[i + 1]
      BY <2>7, <2>8, <2>9
    <2>. HIDE DEF w
    <2>11. \A a, b \in 1 .. Len(tried) : tried[a] = tried[b] => a = b
      BY DEF IsInjective
    <2>12. \A a, b \in 1 .. Len(w) : w[a] = w[b] => a = b
      BY <2>2, <2>10, <2>11
    <2>13. ASSUME NEW i \in 1 .. Len(w) PROVE w[i] \in Range(tried) \ {t}
      BY <2>2, <2>10, <2>11 DEF Range
    <2>14. ASSUME NEW u \in Range(tried) \ {t} PROVE u \in Range(w)
      <3>1. PICK i \in 1 .. Len(tried) : tried[i] = u /\ i # k
        BY <2>2 DEF Range
      <3>2. i < k => i \in 1 .. Len(w) /\ w[i] = u
        BY <2>2, <2>10, <3>1
      <3>3. i > k => i - 1 \in 1 .. Len(w) /\ w[i - 1] = u
        BY <2>2, <2>10, <3>1
      <3>. QED
        BY <2>2, <2>10, <3>1, <3>2, <3>3 DEF Range
    <2>15. Range(w) = Range(tried) \ {t}
      <3>1. \A u \in Range(w) : \E i \in 1 .. Len(w) : u = w[i]
        BY <2>10 DEF Range
      <3>. QED
        BY <2>13, <2>14, <3>1
    <2>16. IsInjective(w)
      BY <2>10, <2>12 DEF IsInjective
    <2>17. t \in Range(tried)
      BY <2>2 DEF Range
    <2>. QED
      BY <2>10, <2>15, <2>16, <2>17 DEF w
  <1>. QED
    BY <1>1, <1>2

\* The list of attempted routes of a job is bounded.
LEMMA JobFacts ==
    ASSUME NEW tried
    PROVE  tried \in BoundedSeq(Topics, MaxTried) <=> tried \in Seq(Topics) /\ Len(tried) <= MaxTried
  <1>1. \A n \in Nat : [1 .. n -> Topics] \subseteq Seq(Topics) /\ \A f \in [1 .. n -> Topics] : Len(f) = n
    OBVIOUS
  <1>2. tried \in Seq(Topics) => Len(tried) \in Nat /\ tried \in [1 .. Len(tried) -> Topics]
    OBVIOUS
  <1>3. \A n \in Nat : n \in 0 .. MaxTried <=> n <= MaxTried
    BY RoutesAssumption
  <1>. QED
    BY <1>1, <1>2, <1>3 DEF BoundedSeq, SeqOf

\* An attempt is recorded: its topic is known, and none is forgotten short of the limit.
LEMMA TriedFacts ==
    ASSUME NEW j \in Jobs, NEW t \in Topics
    PROVE  LET new == Tried(j, t)
           IN  /\ new \in Jobs
               /\ new.thread = j.thread /\ new.sess = j.sess /\ new.topic = j.topic
               /\ t \in Range(new.tried)
               /\ Len(new.tried) = MaxTried \/ Range(j.tried) \subseteq Range(new.tried)
               /\ Len(j.tried) = MaxTried => Len(new.tried) = MaxTried
  <1>. DEFINE new == Tried(j, t)
              rest == Without(j.tried, t)
              tried == Append(rest, t)
  <1>1. j.tried \in Seq(Topics) /\ IsInjective(j.tried) /\ Len(j.tried) <= MaxTried
    BY JobFacts DEF Jobs
  <1>2. /\ rest \in Seq(Topics) /\ IsInjective(rest) /\ Range(rest) = Range(j.tried) \ {t}
        /\ Len(rest) = IF t \in Range(j.tried) THEN Len(j.tried) - 1 ELSE Len(j.tried)
    BY <1>1, WithoutFacts
  <1>3. /\ new = [j EXCEPT !.tried = IF Len(tried) > MaxTried THEN Tail(tried) ELSE tried]
        /\ MaxTried \in Nat \ {0}
    BY RoutesAssumption DEF Tried
  <1>. HIDE DEF rest, new
  <1>4. /\ tried \in Seq(Topics) /\ Len(tried) = Len(rest) + 1 /\ tried[Len(rest) + 1] = t
        /\ \A i \in 1 .. Len(rest) : tried[i] = rest[i]
    BY <1>2
  <1>5. t \notin Range(rest)
    BY <1>2
  <1>6. \A i \in 1 .. Len(rest) : rest[i] # t
    BY <1>5, <1>2 DEF Range
  <1>7. IsInjective(tried)
    <2>. \A a, b \in 1 .. Len(rest) : rest[a] = rest[b] => a = b
      BY <1>2 DEF IsInjective
    <2>. \A a, b \in 1 .. Len(rest) + 1 : tried[a] = tried[b] => a = b
      BY <1>2, <1>4, <1>6
    <2>. QED
      BY <1>4 DEF IsInjective
  <1>8. Range(tried) = Range(rest) \cup {t}
    <2>. HIDE DEF tried
    <2>1. \A i \in 1 .. Len(tried) : tried[i] \in Range(rest) \cup {t}
      BY <1>2, <1>4 DEF Range
    <2>2. \A i \in 1 .. Len(rest) : i \in 1 .. Len(tried) /\ rest[i] = tried[i]
      BY <1>2, <1>4
    <2>3. Range(rest) \subseteq Range(tried)
      BY <1>2, <1>4, <2>2 DEF Range
    <2>4. t \in Range(tried)
      BY <1>2, <1>4 DEF Range
    <2>. QED
      BY <1>4, <2>1, <2>3, <2>4 DEF Range
  <1>. HIDE DEF tried
  <1>9. CASE Len(tried) > MaxTried
    <2>. DEFINE tail == Tail(tried)
    <2>1. Len(rest) \in Nat /\ Len(rest) <= MaxTried /\ Len(j.tried) \in Nat
      BY <1>1, <1>2, <1>3
    <2>2. Len(tried) = MaxTried + 1 /\ tried # <<>>
      BY <1>3, <1>4, <1>9, <2>1
    <2>3. /\ tail \in Seq(Topics) /\ Len(tail) = Len(tried) - 1
          /\ \A i \in 1 .. Len(tail) : tail[i] = tried[i + 1]
      BY <1>4, <2>2, HeadTailProperties
    <2>4. /\ new = [j EXCEPT !.tried = tail]
          /\ tail \in Seq(Topics) /\ Len(tail) = MaxTried
          /\ \A i \in 1 .. Len(tail) : tail[i] = tried[i + 1]
      BY <1>3, <1>9, <2>2, <2>3
    <2>. HIDE DEF tail
    <2>5. IsInjective(tail)
      <3>1. \A a, b \in 1 .. Len(tried) : tried[a] = tried[b] => a = b
        BY <1>4, <1>7 DEF IsInjective
      <3>2. \A a, b \in 1 .. Len(tail) : tail[a] = tail[b] => a = b
        BY <1>3, <2>2, <2>4, <3>1
      <3>. QED
        BY <2>4, <3>2 DEF IsInjective
    <2>6. t \in Range(tail)
      <3>1. MaxTried \in 1 .. Len(tail) /\ tail[MaxTried] = t
        BY <1>1, <1>2, <1>3, <1>4, <1>9, <2>4
      <3>. QED
        BY <2>4, <3>1 DEF Range
    <2>7. tail \in BoundedSeq(Topics, MaxTried)
      BY <1>3, <2>4, JobFacts
    <2>8. new \in Jobs /\ new.tried = tail
      BY <2>4, <2>5, <2>7 DEF Jobs
    <2>. QED
      BY <2>4, <2>6, <2>8 DEF Jobs, new
  <1>10. CASE Len(tried) <= MaxTried
    <2>1. new = [j EXCEPT !.tried = tried]
      BY <1>2, <1>3, <1>4, <1>10
    <2>2. tried \in BoundedSeq(Topics, MaxTried)
      BY <1>4, <1>10, JobFacts
    <2>3. new \in Jobs /\ new.tried = tried
      BY <1>7, <2>1, <2>2 DEF Jobs
    <2>4. t \in Range(tried) /\ Range(j.tried) \subseteq Range(tried)
      BY <1>2, <1>8
    <2>5. Len(j.tried) = MaxTried => Len(tried) = MaxTried
      BY <1>1, <1>2, <1>3, <1>4, <1>10
    <2>. QED
      BY <2>1, <2>3, <2>4, <2>5 DEF Jobs, new
  <1>. QED
    BY <1>2, <1>3, <1>4, <1>9, <1>10

(***************************************************************************)
(* The types of the variables, with what is known of them at each step.    *)
(***************************************************************************)
\* The steps of a message that has a route.
Routed == TurnSteps \cup {"resolved", "prepared", "noted"}

\* Where the main thread is at a job.
RecPcs == {"sent", "stayClaim", "moveClaim", "recSave", "patch", "recNote"}

Good(st) == st \in States /\ RegistryOK(st.reg)

Views == [gen : Nat, ok : BOOLEAN, topic : Topics \cup {NoTopic}, owner : Owners, stale : Owners]

PlacesOK ==
    /\ where \in [Msgs -> Places \cup {NoTopic}]
    /\ at \in [Msgs -> Topics \cup {NoTopic}]

StatesOK ==
    /\ Good(mem) /\ Good(disk) /\ Good(saved.mem)
    /\ gen \in Nat
    /\ saved \in [mem : States, gen : Nat]

ReservationsOK == rsv \subseteq [by : Holders, topic : Topics, owner : Owners]

MainOK ==
    /\ pc \in Pcs
    /\ todo \subseteq Msgs
    /\ job \in Jobs \cup {NoJob}
    /\ pc \in RecPcs \cup {"claim", "mention"} => cur \in Msgs
    /\ pc \in RecPcs => job \in Jobs
    /\ pc # "note" => saved = [mem |-> EmptyState, gen |-> 0]
    /\ pc = "claim" => step[cur] = "fetched"
    /\ pc = "mention" => step[cur] = "resolved"

ViewsOK ==
    /\ view \in [Msgs \cup {Main} -> Views]
    /\ \A m \in Msgs : step[m] \in {"replyLook", "replyClaim", "claim"} => view[m].topic \in Topics
    /\ pc \in RecPcs \cup {"claim"} => target \in Topics
    /\ pc = "claim" /\ view[Main].ok => view[Main].owner.thread \in Threads

TurnsOK ==
    /\ step \in [Msgs -> Steps]
    /\ conv \in [Msgs -> Conversations \cup {NoConv}]
    /\ \A m \in Msgs : step[m] # "idle" => conv[m] \in Conversations
    /\ \A m \in Msgs : step[m] \in Routed => conv[m].thread \in Threads
    /\ \A m \in Msgs : step[m] \in {"idle", "fetched"} => conv[m].sess = NoSession
    /\ sessions \in Nat

Types == PlacesOK /\ StatesOK /\ ReservationsOK /\ MainOK /\ ViewsOK /\ TurnsOK

(***************************************************************************)
(* What a step does to the registry, the jobs and the conversations.       *)
(***************************************************************************)
\* The conversations whose notes are made.
Carried ==
    {c \in Conversations :
        /\ c.thread \in Threads
        /\ \/ \E m \in Msgs : step[m] \in Routed /\ c = conv[m]
           \/ pc \in RecPcs /\ c = JobConversation}

RegistryStep ==
    \/ mem'.reg = mem.reg
    \/ pc = "note" /\ pc' = "finish" /\ mem'.reg = saved.mem.reg
    \/ Crash /\ mem'.reg = disk.reg
    \/ /\ pc = "claim" /\ mem'.reg = Cleared
       /\ leftover' = leftover \cup
            (IF Cleared = mem.reg THEN {} ELSE Leftovers(mem.reg, target, view[Main].stale))
    \/ \E c \in Carried : CanNoteThread(mem.reg, rsv, c) /\ mem'.reg = NoteThread(mem.reg, c)
    \/ \E c \in Carried : CanNote(mem.reg, rsv, c) /\ mem'.reg = Note(mem.reg, c)

\* Whoever has a route carries a conversation that can be noted.
LEMMA CarriedFacts ==
    ASSUME Types
    PROVE  /\ \A m \in Msgs : step[m] \in Routed => conv[m] \in Carried
           /\ pc \in RecPcs => JobConversation \in Carried
  <1>1. \A m \in Msgs : step[m] \in Routed => conv[m] \in Carried
    BY DEF Types, TurnsOK, Carried, Routed, TurnSteps
  <1>2. ASSUME pc \in RecPcs PROVE JobConversation \in Carried
    <2>1. cur \in Msgs /\ target \in Topics /\ job \in Jobs
      BY <1>2 DEF Types, MainOK, ViewsOK
    <2>2. job.thread \in Threads /\ job.sess \in Sessions \cup {NoSession}
      BY <2>1 DEF Jobs
    <2>. QED
      BY <1>2, <2>1, <2>2 DEF Carried, JobConversation, Conversations
  <1>. QED
    BY <1>1, <1>2

\* No step changes the registry in another way.
LEMMA RegistrySteps ==
    ASSUME Types, Next
    PROVE  RegistryStep
  <1>. mem \in States
    BY DEF Types, StatesOK, Good
  <1>1. CASE FinishEnds \/ CheckSent \/ StayClaim \/ MoveClaim
            \/ SaveAttempt \/ SaveAttemptFails \/ Patch
    BY <1>1 DEF FinishEnds, CheckSent, JobEnds, NextJob, Forget, LookAt, StayClaim, MoveClaim,
      Reserve, SaveAttempt, SaveAttemptFails, Release, Trouble, Patch, MoveReply, zulip, shared,
      workers, RegistryStep, States, Rescheduled, Recovered
  <1>2. CASE PatchFails \/ ReconcileLater \/ PublishRouteFails \/ ReconcileEnds \/ LoopSaveFails
            \/ BeginAdmission \/ SaveAdmission \/ SubmitEnds
    BY <1>2 DEF PatchFails, MoveReply, JobEnds, Release, NextJob, Forget, Trouble,
      ReconcileLater, PublishRouteFails, NoteFails, ReconcileEnds, BeginAdmission,
      SaveAdmission, EndAdmission, Undo, SubmitEnds, zulip, shared, workers, RegistryStep,
      States, Rescheduled, Recovered, LoopSaveFails
  <1>3. CASE Crash
    BY <1>3 DEF Crash, Trouble, zulip, RegistryStep, States, Rescheduled, Recovered
  <1>4. ASSUME NEW m \in Msgs,
              TakeJob(m) \/ Resolve(m) \/ ResolveClaim(m) \/ ResolveLater(m) \/
              Activate(m) \/ Ignore(m) \/ MentionFails(m) \/
              NoteAdmittedFails(m) \/ Submit(m) \/ Steer(m) \/ SteerFails(m)
       PROVE  RegistryStep
    BY <1>4 DEF TakeJob, Heard, Resolve, ResolveClaim, SetRegistry, Reserve, Go, Forget,
      ResolveLater, Trouble, NoteAdmittedFails, Undo, EndAdmission, NoteFails, Submit, Steer,
      zulip, shared, mains, workers, RegistryStep, States, Rescheduled, Recovered, Activate,
      Ignore, MentionFails, NextMessage, Release, SteerFails, Steered
  <1>5. ASSUME NEW m \in Msgs,
              Refresh(m) \/ Look(m) \/ Claim(m) \/ NotReady(m) \/
              Launch(m) \/ LaunchFails(m) \/ Answers(m) \/ Errs(m)
       PROVE  RegistryStep
    BY <1>5 DEF Refresh, Go, Look, LookAt, Claim, ClaimRoute, Reserve, Forget, NotReady,
      Release, Trouble, Launch, Answers, Errs, zulip, shared, mains, RegistryStep, States,
      Rescheduled, Recovered, LaunchFails
  <1>6. ASSUME NEW m \in Msgs,
              Fetch(m) \/ ReplyLook(m) \/ ReplyClaim(m) \/ Post(m) \/
              PostFails(m) \/ PublishFails(m) \/ SaveReply(m) \/ SaveReplyFails(m)
       PROVE  RegistryStep
    BY <1>6 DEF Fetch, Go, Heard, ReplyLook, LookAt, ReplyClaim, ClaimRoute, Reserve, Forget,
      Post, PostFails, Release, Trouble, PublishFails, NoteFails, SaveReply, zulip, shared,
      mains, RegistryStep, States, Rescheduled, Recovered, SaveReplyFails
  <1>7. ASSUME NEW M \in SUBSET Msgs, FetchPage(M) PROVE RegistryStep
    BY <1>7 DEF FetchPage, zulip, shared, RegistryStep, States, Rescheduled, Recovered
  <1>8. ASSUME NEW m \in Msgs, NEW t \in Topics, PostMessage(m, t) PROVE RegistryStep
    BY <1>8 DEF PostMessage, shared, mains, workers, RegistryStep, States, Rescheduled,
      Recovered
  <1>9. ASSUME NEW m \in Msgs, NEW t \in Places, MoveMessage(m, t) PROVE RegistryStep
    BY <1>9 DEF MoveMessage, Trouble, shared, mains, workers, RegistryStep, States, Rescheduled,
      Recovered
  <1>10. ASSUME NEW t \in Topics, NEW u \in Topics, Rename(t, u) PROVE RegistryStep
    BY <1>10 DEF Rename, Trouble, shared, mains, workers, RegistryStep, States, Rescheduled,
      Recovered
  <1>11. CASE PublishRoute
    <2>1. JobConversation \in Carried /\ CanNote(mem.reg, rsv, JobConversation)
      BY <1>11, CarriedFacts DEF PublishRoute, RecPcs
    <2>2. mem'.reg = Note(mem.reg, JobConversation)
      BY <1>11 DEF PublishRoute, States
    <2>. QED
      BY <2>1, <2>2 DEF RegistryStep
  <1>12. ASSUME NEW m \in Msgs, Finish(m) \/ FinishLater(m) PROVE RegistryStep
    <2>1. mem'.reg = mem.reg \/ mem'.reg = NotedAgain(conv[m])
      BY <1>12 DEF Finish, States, FinishLater, Retired, Trouble
    <2>2. step[m] \in Routed \/ mem'.reg = mem.reg
      BY <1>12 DEF Finish, States, Routed, TurnSteps, Ended, FinishLater, Retired, Trouble
    <2>3. CASE mem'.reg = NotedAgain(conv[m]) /\ step[m] \in Routed /\ mem'.reg # mem.reg
      <3>. DEFINE c == conv[m]
                  one == NoteThread(mem.reg, c)
      <3>1. c \in Carried
        BY <2>3, CarriedFacts
      <3>2. /\ c.sess # NoSession /\ CanNoteThread(mem.reg, rsv, c)
            /\ mem'.reg = IF CanNoteSession(one, rsv, c) THEN NoteSession(one, c) ELSE one
        BY <2>3 DEF NotedAgain
      <3>3. CASE CanNoteSession(one, rsv, c)
        BY <3>1, <3>2, <3>3 DEF RegistryStep, CanNote, Note
      <3>4. CASE ~ CanNoteSession(one, rsv, c)
        BY <3>1, <3>2, <3>4 DEF RegistryStep
      <3>. QED
        BY <3>3, <3>4
    <2>. QED
      BY <2>1, <2>2, <2>3 DEF RegistryStep
  <1>13. ASSUME NEW m \in Msgs, NoteAdmitted(m) PROVE RegistryStep
    <2>1. conv[m] \in Carried /\ CanNote(mem.reg, rsv, conv[m])
      BY <1>13, CarriedFacts DEF NoteAdmitted, At, Routed
    <2>2. mem'.reg = Note(mem.reg, conv[m])
      BY <1>13 DEF NoteAdmitted, States
    <2>. QED
      BY <2>1, <2>2 DEF RegistryStep
  <1>14. ASSUME NEW m \in Msgs, Publish(m) PROVE RegistryStep
    <2>1. conv[m] \in Carried /\ CanNote(mem.reg, rsv, conv[m])
      BY <1>14, CarriedFacts DEF Publish, Routed, TurnSteps
    <2>2. mem'.reg = Note(mem.reg, conv[m])
      BY <1>14 DEF Publish, States
    <2>. QED
      BY <2>1, <2>2 DEF RegistryStep
  <1>. QED
    BY <1>1, <1>2, <1>3, <1>4, <1>5, <1>6, <1>7, <1>8, <1>9, <1>10, <1>11, <1>12, <1>13, <1>14
      DEF Next, MainNext, WorkerNext, Users

\* The state file takes the state in memory, once with the mark of a message alone.
LEMMA FileSteps ==
    ASSUME Next
    PROVE  \/ disk' \in {disk, mem, mem'}
           \/ \E m \in Msgs : disk' = Steered(m, "hermes_may_start")
  <1>1. CASE FinishEnds \/ CheckSent \/ StayClaim \/ MoveClaim
            \/ SaveAttempt \/ SaveAttemptFails \/ Patch \/ PatchFails \/ ReconcileLater
    BY <1>1 DEF FinishEnds, CheckSent, JobEnds, NextJob, Forget, LookAt, StayClaim, MoveClaim,
      Reserve, SaveAttempt, SaveAttemptFails, Release, Trouble, Patch, MoveReply, PatchFails,
      ReconcileLater, zulip, shared, workers
  <1>2. CASE PublishRoute \/ PublishRouteFails \/ ReconcileEnds \/ LoopSaveFails \/ BeginAdmission
            \/ SaveAdmission \/ SubmitEnds \/ Crash
    BY <1>2 DEF PublishRoute, Release, NextJob, Forget, PublishRouteFails, JobEnds, NoteFails,
      Trouble, ReconcileEnds, BeginAdmission, SaveAdmission, EndAdmission, Undo, SubmitEnds,
      Crash, zulip, shared, workers, LoopSaveFails
  <1>3. ASSUME NEW m \in Msgs,
              Finish(m) \/ FinishLater(m) \/ TakeJob(m) \/ Resolve(m) \/ ResolveClaim(m) \/
              ResolveLater(m) \/ Activate(m) \/ Ignore(m) \/ MentionFails(m) \/
              NoteAdmitted(m) \/ NoteAdmittedFails(m) \/ Submit(m) \/ Steer(m)
       PROVE  disk' \in {disk, mem, mem'}
    BY <1>3 DEF Finish, Go, TakeJob, Heard, Resolve, ResolveClaim, SetRegistry, Reserve, Forget,
      ResolveLater, Trouble, NoteAdmitted, NoteAdmittedFails, Undo, EndAdmission, NoteFails,
      Submit, Steer, zulip, shared, mains, workers, Activate, Ignore, MentionFails, NextMessage,
      Release, FinishLater, Retired
  <1>4. ASSUME NEW m \in Msgs,
              Refresh(m) \/ Look(m) \/ Claim(m) \/ NotReady(m) \/
              Launch(m) \/ LaunchFails(m) \/ Answers(m) \/ Errs(m) \/ Fetch(m) \/ ReplyLook(m)
       PROVE  disk' \in {disk, mem, mem'}
    BY <1>4 DEF Refresh, Go, Look, LookAt, Claim, ClaimRoute, Reserve, Forget, NotReady,
      Release, Trouble, Launch, Answers, Errs, Fetch, Heard, ReplyLook, zulip, shared, mains,
      LaunchFails
  <1>5. ASSUME NEW m \in Msgs,
              ReplyClaim(m) \/ Post(m) \/ PostFails(m) \/ Publish(m) \/
              PublishFails(m) \/ SaveReply(m) \/ SaveReplyFails(m)
       PROVE  disk' \in {disk, mem, mem'}
    BY <1>5 DEF ReplyClaim, ClaimRoute, Reserve, Go, Forget, Post, PostFails, Release, Trouble,
      Publish, PublishFails, NoteFails, SaveReply, zulip, shared, mains, SaveReplyFails
  <1>6. ASSUME NEW M \in SUBSET Msgs, FetchPage(M) PROVE disk' \in {disk, mem, mem'}
    BY <1>6 DEF FetchPage, zulip, shared
  <1>7. ASSUME NEW m \in Msgs, NEW t \in Topics, PostMessage(m, t)
        PROVE  disk' \in {disk, mem, mem'}
    BY <1>7 DEF PostMessage, shared, mains, workers
  <1>8. ASSUME NEW m \in Msgs, NEW t \in Places, MoveMessage(m, t)
        PROVE  disk' \in {disk, mem, mem'}
    BY <1>8 DEF MoveMessage, Trouble, shared, mains, workers
  <1>9. ASSUME NEW t \in Topics, NEW u \in Topics, Rename(t, u)
        PROVE  disk' \in {disk, mem, mem'}
    BY <1>9 DEF Rename, Trouble, shared, mains, workers
  <1>10. ASSUME NEW m \in Msgs, SteerFails(m)
         PROVE  disk' \in {disk, mem'} \/ disk' = Steered(m, "hermes_may_start")
    BY <1>10 DEF SteerFails
  <1>. QED
    BY <1>1, <1>2, <1>3, <1>4, <1>5, <1>6, <1>7, <1>8, <1>9, <1>10
      DEF Next, MainNext, WorkerNext, Users

\* Its registry and its jobs are those of a state in memory.
LEMMA FileFacts ==
    ASSUME Types, Next
    PROVE  /\ \E st \in {disk, mem, mem'} : disk'.reg = st.reg /\ disk'.jobs = st.jobs
           /\ disk' \in {disk, mem, mem'} \/ disk' \in States
  <1>1. mem \in States
    BY DEF Types, StatesOK, Good
  <1>2. ASSUME NEW m \in Msgs
        PROVE  LET st == Steered(m, "hermes_may_start")
               IN  st.reg = mem.reg /\ st.jobs = mem.jobs /\ st \in States
    BY <1>1 DEF Steered, States, Stages
  <1>. QED
    BY <1>2, FileSteps

\* The copy for the rollback is made of the state, or is empty.
LEMMA CopySteps ==
    ASSUME Next
    PROVE  saved' \in {saved, [mem |-> mem, gen |-> gen], [mem |-> EmptyState, gen |-> 0]}
  <1>. DEFINE G == saved' \in {saved, [mem |-> mem, gen |-> gen], [mem |-> EmptyState, gen |-> 0]}
  <1>1. CASE FinishEnds \/ CheckSent \/ StayClaim \/ MoveClaim
            \/ SaveAttempt \/ SaveAttemptFails \/ Patch \/ PatchFails \/ ReconcileLater
    BY <1>1 DEF FinishEnds, CheckSent, JobEnds, NextJob, Forget, LookAt, StayClaim, MoveClaim,
      Reserve, SaveAttempt, SaveAttemptFails, Release, Trouble, Patch, MoveReply, PatchFails,
      ReconcileLater, zulip, shared, workers
  <1>2. CASE PublishRoute \/ PublishRouteFails \/ ReconcileEnds \/ LoopSaveFails \/ BeginAdmission
            \/ SaveAdmission \/ SubmitEnds \/ Crash
    BY <1>2 DEF PublishRoute, Release, NextJob, Forget, PublishRouteFails, JobEnds, NoteFails,
      Trouble, ReconcileEnds, BeginAdmission, SaveAdmission, EndAdmission, Undo, SubmitEnds,
      Crash, zulip, shared, workers, LoopSaveFails
  <1>3. ASSUME NEW m \in Msgs,
              Finish(m) \/ FinishLater(m) \/ TakeJob(m) \/ Resolve(m) \/ ResolveClaim(m) \/
              ResolveLater(m) \/ Activate(m) \/ Ignore(m) \/ MentionFails(m) \/
              NoteAdmitted(m) \/ NoteAdmittedFails(m) \/ Submit(m) \/ Steer(m) \/
              SteerFails(m)
       PROVE  G
    BY <1>3 DEF Finish, Go, TakeJob, Heard, Resolve, ResolveClaim, SetRegistry, Reserve, Forget,
      ResolveLater, Trouble, NoteAdmitted, NoteAdmittedFails, Undo, EndAdmission, NoteFails,
      Submit, Steer, zulip, shared, mains, workers, Activate, Ignore, MentionFails, NextMessage,
      Release, SteerFails, Steered, FinishLater, Retired
  <1>4. ASSUME NEW m \in Msgs,
              Refresh(m) \/ Look(m) \/ Claim(m) \/ NotReady(m) \/
              Launch(m) \/ LaunchFails(m) \/ Answers(m) \/ Errs(m) \/ Fetch(m) \/ ReplyLook(m)
       PROVE  G
    BY <1>4 DEF Refresh, Go, Look, LookAt, Claim, ClaimRoute, Reserve, Forget, NotReady,
      Release, Trouble, Launch, Answers, Errs, Fetch, Heard, ReplyLook, zulip, shared, mains,
      LaunchFails
  <1>5. ASSUME NEW m \in Msgs,
              ReplyClaim(m) \/ Post(m) \/ PostFails(m) \/ Publish(m) \/
              PublishFails(m) \/ SaveReply(m) \/ SaveReplyFails(m)
       PROVE  G
    BY <1>5 DEF ReplyClaim, ClaimRoute, Reserve, Go, Forget, Post, PostFails, Release, Trouble,
      Publish, PublishFails, NoteFails, SaveReply, zulip, shared, mains, SaveReplyFails
  <1>6. ASSUME NEW M \in SUBSET Msgs, FetchPage(M) PROVE G
    BY <1>6 DEF FetchPage, zulip, shared
  <1>7. ASSUME NEW m \in Msgs, NEW t \in Topics, PostMessage(m, t) PROVE G
    BY <1>7 DEF PostMessage, shared, mains, workers
  <1>8. ASSUME NEW m \in Msgs, NEW t \in Places, MoveMessage(m, t) PROVE G
    BY <1>8 DEF MoveMessage, Trouble, shared, mains, workers
  <1>9. ASSUME NEW t \in Topics, NEW u \in Topics, Rename(t, u) PROVE G
    BY <1>9 DEF Rename, Trouble, shared, mains, workers
  <1>. QED
    BY <1>1, <1>2, <1>3, <1>4, <1>5, <1>6, <1>7, <1>8, <1>9
      DEF Next, MainNext, WorkerNext, Users

\* The state of a bridge that has seen nothing.
LEMMA EmptyIsGood == Good(EmptyState)
  BY DEF Good, EmptyState, EmptyRegistry, States, RegistryOK, Registries, Stages

\* A registry stays a registry.
LEMMA RegistryTypes ==
    ASSUME Types, RegistryStep
    PROVE  RegistryOK(mem'.reg)
  <1>1. RegistryOK(mem.reg) /\ RegistryOK(saved.mem.reg) /\ RegistryOK(disk.reg)
    BY DEF Types, StatesOK, Good
  <1>2. CASE mem'.reg \in {mem.reg, saved.mem.reg, disk.reg}
    BY <1>1, <1>2
  <1>3. CASE pc = "claim" /\ mem'.reg = Cleared
    <2>1. target \in Topics
      BY <1>3 DEF Types, ViewsOK
    <2>2. RegistryOK(Expire(mem.reg, target, view[Main].stale))
      BY <1>1, <2>1, ExpireFacts
    <2>. QED
      BY <1>1, <1>3, <2>2 DEF Cleared
  <1>4. ASSUME NEW c \in Carried, CanNoteThread(mem.reg, rsv, c), mem'.reg = NoteThread(mem.reg, c)
        PROVE  RegistryOK(mem'.reg)
    <2>1. c \in Conversations /\ c.thread \in Threads
      BY DEF Carried
    <2>2. RegistryOK(NoteThread(mem.reg, c))
      BY <1>1, <1>4, <2>1, NoteThreadFacts
    <2>. QED
      BY <1>4, <2>2
  <1>5. ASSUME NEW c \in Carried, CanNote(mem.reg, rsv, c), mem'.reg = Note(mem.reg, c)
        PROVE  RegistryOK(mem'.reg)
    <2>1. c \in Conversations /\ c.thread \in Threads
      BY DEF Carried
    <2>2. RegistryOK(Note(mem.reg, c))
      BY <1>1, <1>5, <2>1, NoteFacts DEF NoteEffect
    <2>. QED
      BY <1>5, <2>2
  <1>. QED
    BY <1>2, <1>3, <1>4, <1>5 DEF RegistryStep

\* The job of a reply that was just posted.
JobOf(c) == [topic |-> c.topic, thread |-> c.thread, sess |-> c.sess, tried |-> <<>>, attempts |-> 0]

\* The job of a reply has the type of one.
LEMMA JobOfFacts ==
    ASSUME NEW c \in Conversations, c.thread \in Threads
    PROVE  JobOf(c) \in Jobs
  <1>1. <<>> \in BoundedSeq(Topics, MaxTried) /\ IsInjective(<<>>)
    <2>1. <<>> \in Seq(Topics) /\ Len(<<>>) = 0
      OBVIOUS
    <2>2. Len(<<>>) <= MaxTried
      BY <2>1, RoutesAssumption
    <2>3. IsInjective(<<>>)
      BY EmptySeq, <2>1 DEF IsInjective
    <2>. QED
      BY <2>1, <2>2, <2>3, JobFacts
  <1>2. 0 \in 0 .. MaxAttempts - 1
    BY RoutesAssumption
  <1>. QED
    BY <1>1, <1>2 DEF JobOf, Jobs, Conversations

\* The list of jobs after a failed attempt.
LEMMA RescheduledFacts ==
    ASSUME Types, pc \in RecPcs
    PROVE  /\ Rescheduled \in States
           /\ Rescheduled.reg = mem.reg
           /\ \A m \in Msgs : \/ Rescheduled.jobs[m] \in {mem.jobs[m], NoJob}
                              \/ /\ m = cur /\ Queued
                                 /\ Rescheduled.jobs[m] = [job EXCEPT !.attempts = job.attempts + 1]
                                 /\ Rescheduled.jobs[m] \in Jobs
  <1>. DEFINE entry == IF job.attempts + 1 >= MaxAttempts THEN NoJob
                       ELSE [job EXCEPT !.attempts = job.attempts + 1]
  <1>1. mem \in States /\ cur \in Msgs /\ job \in Jobs
    BY DEF Types, StatesOK, MainOK, Good
  <1>2. entry = NoJob \/ (entry \in Jobs /\ entry = [job EXCEPT !.attempts = job.attempts + 1])
    <2>1. job.attempts \in Nat
      BY <1>1 DEF Jobs
    <2>2. CASE ~ (job.attempts + 1 >= MaxAttempts)
      <3>1. job.attempts + 1 \in 0 .. MaxAttempts - 1
        BY <2>1, <2>2, RoutesAssumption
      <3>2. [job EXCEPT !.attempts = job.attempts + 1] \in Jobs
        BY <1>1, <3>1 DEF Jobs
      <3>. QED
        BY <2>2, <3>2
    <2>3. CASE job.attempts + 1 >= MaxAttempts
      BY <2>3
    <2>. QED
      BY <2>2, <2>3
  <1>3. Rescheduled = IF ~ Queued THEN mem ELSE [mem EXCEPT !.jobs[cur] = entry]
    BY DEF Rescheduled
  <1>. HIDE DEF entry
  <1>. QED
    BY <1>1, <1>2, <1>3 DEF States

\* A restart changes the stages only.
LEMMA RecoveredFacts ==
    ASSUME NEW st \in States
    PROVE  /\ Recovered(st) \in States
           /\ Recovered(st).reg = st.reg
           /\ Recovered(st).jobs = st.jobs
  BY DEF Recovered, States, Stages

\* The state in memory keeps its type.
LEMMA StateTypes ==
    ASSUME Types, Next
    PROVE  mem' \in States
  <1>1. mem \in States /\ saved.mem \in States /\ disk \in States
    BY DEF Types, StatesOK, Good
  <1>2. mem'.reg \in Registries
    BY RegistrySteps, RegistryTypes DEF RegistryOK
  <1>3. CASE FinishEnds \/ CheckSent \/ StayClaim
    BY <1>3, <1>1, <1>2 DEF FinishEnds, CheckSent, JobEnds, NextJob, Forget, LookAt, StayClaim,
      zulip, shared, workers, States, Stages
  <1>4. CASE SaveAttempt \/ SaveAttemptFails \/ Patch
    BY <1>4, <1>1, <1>2 DEF SaveAttempt, SaveAttemptFails, Release, Forget, Trouble, Patch,
      MoveReply, zulip, shared, workers, States, Stages
  <1>5. CASE PublishRouteFails \/ ReconcileEnds \/ LoopSaveFails \/ BeginAdmission
    BY <1>5, <1>1, <1>2 DEF PublishRouteFails, JobEnds, Release, NextJob, Forget, NoteFails,
      Trouble, ReconcileEnds, BeginAdmission, zulip, shared, workers, States, Stages,
      LoopSaveFails
  <1>6. CASE SaveAdmission \/ SubmitEnds
    BY <1>6, <1>1, <1>2 DEF SaveAdmission, EndAdmission, Undo, Trouble, SubmitEnds, zulip,
      shared, workers, States, Stages
  <1>7. ASSUME NEW m \in Msgs, TakeJob(m) \/ Resolve(m) \/ ResolveClaim(m) PROVE mem' \in States
    BY <1>7, <1>1, <1>2 DEF TakeJob, Heard, Resolve, ResolveClaim, SetRegistry, Reserve, Go,
      Forget, zulip, shared, workers, States, Stages
  <1>8. ASSUME NEW m \in Msgs,
              ResolveLater(m) \/ Activate(m) \/ Ignore(m) \/ MentionFails(m) \/
              NoteAdmittedFails(m) \/ Submit(m)
        PROVE  mem' \in States
    BY <1>8, <1>1, <1>2 DEF ResolveLater, Go, Forget, Trouble, NoteAdmittedFails, Undo,
      EndAdmission, NoteFails, Submit, zulip, shared, mains, States, Stages, Activate, Ignore,
      MentionFails, NextMessage, Release
  <1>9. ASSUME NEW m \in Msgs,
              Steer(m) \/ SteerFails(m) \/ Refresh(m) \/ Look(m)
       PROVE  mem' \in States
    BY <1>9, <1>1, <1>2 DEF Steer, Go, Refresh, Look, LookAt, zulip, shared, mains, States,
      Stages, SteerFails, Steered, SteeredStages, Trouble
  <1>10. ASSUME NEW m \in Msgs,
              Claim(m) \/ NotReady(m) \/ Launch(m) \/ LaunchFails(m)
       PROVE  mem' \in States
    BY <1>10, <1>1, <1>2 DEF Claim, ClaimRoute, Reserve, Go, Forget, NotReady, Release, Trouble,
      Launch, zulip, mains, States, Stages, LaunchFails
  <1>11. ASSUME NEW m \in Msgs, Answers(m) \/ Errs(m) \/ Fetch(m) PROVE mem' \in States
    BY <1>11, <1>1, <1>2 DEF Answers, Go, Errs, Trouble, Fetch, Heard, zulip, shared, mains,
      States, Stages
  <1>12. ASSUME NEW m \in Msgs, ReplyLook(m) \/ ReplyClaim(m) \/ Post(m) PROVE mem' \in States
    BY <1>12, <1>1, <1>2 DEF ReplyLook, LookAt, Go, ReplyClaim, ClaimRoute, Reserve, Forget,
      Post, zulip, shared, mains, States, Stages
  <1>13. ASSUME NEW m \in Msgs, PostFails(m) \/ PublishFails(m) \/ SaveReply(m) \/ SaveReplyFails(m)
         PROVE  mem' \in States
    BY <1>13, <1>1, <1>2 DEF PostFails, Release, Go, Trouble, PublishFails, NoteFails,
      SaveReply, zulip, mains, States, Stages, SaveReplyFails
  <1>14. ASSUME NEW M \in SUBSET Msgs, FetchPage(M) PROVE mem' \in States
    BY <1>14, <1>1, <1>2 DEF FetchPage, zulip, shared, States, Stages
  <1>15. ASSUME NEW m \in Msgs, NEW t \in Topics, PostMessage(m, t) PROVE mem' \in States
    BY <1>15, <1>1, <1>2 DEF PostMessage, shared, mains, workers, States, Stages
  <1>16. ASSUME NEW m \in Msgs, NEW t \in Places, MoveMessage(m, t) PROVE mem' \in States
    BY <1>16, <1>1, <1>2 DEF MoveMessage, Trouble, shared, mains, workers, States, Stages
  <1>17. ASSUME NEW t \in Topics, NEW u \in Topics, Rename(t, u) PROVE mem' \in States
    BY <1>17, <1>1, <1>2 DEF Rename, Trouble, shared, mains, workers, States, Stages
  <1>18. CASE MoveClaim
    <2>1. Tried(job, target) \in Jobs
      <3>1. job \in Jobs /\ target \in Topics
        BY <1>18 DEF Types, MainOK, ViewsOK, MoveClaim, RecPcs
      <3>. QED
        BY <3>1, TriedFacts
    <2>. QED
      BY <1>18, <1>1, <2>1 DEF MoveClaim, JobEnds, States
  <1>19. CASE PatchFails
    <2>1. Rescheduled \in States
      BY <1>19, RescheduledFacts DEF PatchFails, RecPcs
    <2>. QED
      BY <1>19, <1>1, <2>1 DEF PatchFails, JobEnds, States
  <1>20. CASE ReconcileLater
    <2>1. Rescheduled \in States
      BY <1>20, RescheduledFacts DEF ReconcileLater, RecPcs
    <2>. QED
      BY <1>20, <1>1, <2>1 DEF ReconcileLater, JobEnds, States
  <1>21. CASE PublishRoute
    BY <1>21, <1>1, <1>2 DEF PublishRoute, States, Stages
  <1>22. CASE Crash
    BY <1>22, <1>1, RecoveredFacts DEF Crash
  <1>23. ASSUME NEW m \in Msgs, Finish(m) \/ FinishLater(m) PROVE mem' \in States
    <2>1. Outcome(m) \in Stages
      BY DEF Outcome, Stages
    <2>2. mem' = mem \/ mem' = Retired(m)
      BY <1>23 DEF Finish, FinishLater
    <2>3. CASE mem' = Retired(m)
      <3>. DEFINE reg == IF step[m] = "ok" THEN NotedAgain(conv[m]) ELSE mem.reg
      <3>1. mem' = [mem EXCEPT !.reg = reg, !.stage[m] = Outcome(m)]
        BY <2>3 DEF Retired
      <3>. HIDE DEF reg
      <3>2. mem'.reg = reg
        BY <1>1, <3>1 DEF States
      <3>. QED
        BY <1>1, <1>2, <2>1, <3>1, <3>2 DEF States
    <2>. QED
      BY <1>1, <2>2, <2>3
  <1>24. ASSUME NEW m \in Msgs, NoteAdmitted(m) PROVE mem' \in States
    BY <1>24, <1>1, <1>2 DEF NoteAdmitted, States, Stages
  <1>25. ASSUME NEW m \in Msgs, Publish(m) PROVE mem' \in States
    <2>1. JobOf(conv[m]) \in Jobs
      <3>1. conv[m] \in Conversations /\ conv[m].thread \in Threads
        BY <1>25 DEF Types, TurnsOK, Publish, Routed, TurnSteps
      <3>. QED
        BY <3>1, JobOfFacts
    <2>2. mem' = [mem EXCEPT !.reg = Note(@, conv[m]), !.jobs[m] = JobOf(conv[m])]
      BY <1>25 DEF Publish, JobOf
    <2>. QED
      BY <1>1, <1>2, <2>1, <2>2 DEF States
  <1>. QED
    BY <1>3, <1>4, <1>5, <1>6, <1>7, <1>8, <1>9, <1>10, <1>11, <1>12, <1>13, <1>14, <1>15,
      <1>16, <1>17, <1>18, <1>19, <1>20, <1>21, <1>22, <1>23, <1>24, <1>25
      DEF Next, MainNext, WorkerNext, Users

\* The file and the copy keep theirs.
LEMMA StatesStep ==
    ASSUME Types, Next
    PROVE  Good(mem)' /\ Good(disk)' /\ Good(saved.mem)' /\ saved' \in [mem : States, gen : Nat]
  <1>1. Good(mem')
    BY StateTypes, RegistrySteps, RegistryTypes DEF Good
  <1>2. Good(disk')
    BY <1>1, FileFacts DEF Types, StatesOK, Good
  <1>3. Good(saved'.mem) /\ saved' \in [mem : States, gen : Nat]
    <2>1. Good(EmptyState) /\ EmptyState \in States
      BY EmptyIsGood DEF Good
    <2>2. /\ Good(mem) /\ Good(saved.mem) /\ saved \in [mem : States, gen : Nat]
          /\ gen \in Nat /\ mem \in States
      BY DEF Types, StatesOK, Good
    <2>. QED
      BY <2>1, <2>2, CopySteps
  <1>. QED
    BY <1>1, <1>2, <1>3 DEF Good

\* The look of a turn ends in a verdict.
LEMMA MayIsBoolean ==
    ASSUME NEW reg, NEW places, NEW c, NEW t
    PROVE  MayAnswerIn(reg, places, c, t) \in BOOLEAN
  BY DEF MayAnswerIn

\* The resolution of a message ends in a verdict.
LEMMA CanIsBoolean ==
    ASSUME NEW reg, NEW places, NEW m, NEW t
    PROVE  CanResolve(reg, places, m, t) \in BOOLEAN
  BY DEF CanResolve

(***************************************************************************)
(* What an actor saw.                                                      *)
(***************************************************************************)
Looked(c, t) ==
    [gen |-> gen, ok |-> MayAnswerIn(mem.reg, where, c, t), topic |-> t,
     owner |-> SourceOwner(mem.reg, c), stale |-> NoOwner]

HasResolved(m, t, ok, stale) ==
    [gen |-> gen, ok |-> ok, topic |-> t,
     owner |-> IF ok THEN OwnerOf(Resolved(mem.reg, where, m, t)) ELSE NoOwner, stale |-> stale]

ViewStep(a) ==
    \/ view'[a] \in {view[a], NoView}
    \/ \E t \in Topics : view'[a] = [view[a] EXCEPT !.topic = t]
    \/ \E c \in Carried, t \in Topics : view'[a] = Looked(c, t)
    \/ /\ a = Main
       /\ \E m \in Msgs, t \in Topics, stale \in Owners, ok \in BOOLEAN :
            /\ ok => CanResolve(mem.reg, where, m, t)
            /\ view'[a] = HasResolved(m, t, ok, stale)

Actors == Msgs \cup {Main}

\* The main thread is not a turn.
LEMMA MainIsNoMessage == Main \notin Msgs
  BY OwnershipAssumption DEF Main

\* No step changes what an actor saw in another way.
LEMMA ViewSteps ==
    ASSUME Types, Next
    PROVE  /\ \A a \in Actors : ViewStep(a)
           /\ view' = [a \in Actors |-> view'[a]]
  <1>. DEFINE G == (\A a \in Actors : ViewStep(a)) /\ view' = [a \in Actors |-> view'[a]]
  <1>1. view = [a \in Actors |-> view[a]]
    BY DEF Types, ViewsOK, Actors
  <1>2. Main \in Actors /\ (\A m \in Msgs : m \in Actors /\ m # Main)
    BY MainIsNoMessage DEF Actors
  <1>3. CASE FinishEnds \/ StayClaim \/ MoveClaim \/ SaveAttempt
            \/ SaveAttemptFails
    BY <1>3, <1>1, <1>2 DEF FinishEnds, StayClaim, JobEnds, NextJob, Forget, MoveClaim, Reserve,
      SaveAttempt, SaveAttemptFails, Release, Trouble, zulip, shared, workers, ViewStep
  <1>4. CASE Patch \/ PatchFails \/ ReconcileLater \/ PublishRoute
            \/ PublishRouteFails
    BY <1>4, <1>1, <1>2 DEF Patch, MoveReply, PatchFails, JobEnds, Release, NextJob, Forget,
      Trouble, ReconcileLater, PublishRoute, PublishRouteFails, NoteFails, zulip, shared,
      workers, ViewStep
  <1>5. CASE ReconcileEnds \/ LoopSaveFails \/ BeginAdmission \/ SaveAdmission \/ SubmitEnds
    BY <1>5, <1>1, <1>2 DEF ReconcileEnds, BeginAdmission, SaveAdmission, EndAdmission, Undo,
      Trouble, SubmitEnds, zulip, shared, workers, ViewStep, LoopSaveFails
  <1>6. ASSUME NEW m \in Msgs,
              Finish(m) \/ FinishLater(m) \/ ResolveClaim(m) \/ ResolveLater(m) \/
              Activate(m) \/ Ignore(m) \/ MentionFails(m) \/ NoteAdmitted(m) \/
              NoteAdmittedFails(m)
       PROVE  G
    BY <1>6, <1>1, <1>2 DEF Finish, Go, ResolveClaim, SetRegistry, Reserve, Forget,
      ResolveLater, Trouble, NoteAdmitted, NoteAdmittedFails, Undo, EndAdmission, NoteFails,
      zulip, shared, mains, ViewStep, Activate, Ignore, MentionFails, NextMessage, Release,
      FinishLater, Retired
  <1>7. ASSUME NEW m \in Msgs,
              Submit(m) \/ Steer(m) \/ SteerFails(m) \/ Refresh(m) \/ Claim(m) \/
              NotReady(m)
       PROVE  G
    BY <1>7, <1>1, <1>2 DEF Submit, Go, Steer, Refresh, Claim, ClaimRoute, Reserve, Forget,
      NotReady, Release, Trouble, zulip, shared, mains, ViewStep, SteerFails, Steered
  <1>8. ASSUME NEW m \in Msgs,
              Launch(m) \/ LaunchFails(m) \/ Answers(m) \/ Errs(m) \/ ReplyClaim(m) \/
              Post(m)
       PROVE  G
    BY <1>8, <1>1, <1>2 DEF Launch, Release, Go, Answers, Errs, Trouble, ReplyClaim, ClaimRoute,
      Reserve, Forget, Post, zulip, shared, mains, ViewStep, LaunchFails
  <1>9. ASSUME NEW m \in Msgs,
              PostFails(m) \/ Publish(m) \/ PublishFails(m) \/ SaveReply(m) \/ SaveReplyFails(m)
       PROVE  G
    BY <1>9, <1>1, <1>2 DEF PostFails, Release, Go, Trouble, Publish, PublishFails, NoteFails,
      SaveReply, zulip, mains, ViewStep, SaveReplyFails
  <1>10. ASSUME NEW M \in SUBSET Msgs, FetchPage(M) PROVE G
    BY <1>10, <1>1, <1>2 DEF FetchPage, zulip, shared, ViewStep
  <1>11. ASSUME NEW m \in Msgs, NEW t \in Topics, PostMessage(m, t) PROVE G
    BY <1>11, <1>1, <1>2 DEF PostMessage, shared, mains, workers, ViewStep
  <1>12. ASSUME NEW m \in Msgs, NEW t \in Places, MoveMessage(m, t) PROVE G
    BY <1>12, <1>1, <1>2 DEF MoveMessage, Trouble, shared, mains, workers, ViewStep
  <1>13. ASSUME NEW t \in Topics, NEW u \in Topics, Rename(t, u) PROVE G
    BY <1>13, <1>1, <1>2 DEF Rename, Trouble, shared, mains, workers, ViewStep
  <1>14. CASE CheckSent
    <2>1. JobConversation \in Carried /\ target \in Topics
      BY <1>14, CarriedFacts DEF CheckSent, RecPcs, Types, ViewsOK
    <2>2. view' = [view EXCEPT ![Main] = Looked(JobConversation, target)] \/ view' = [view EXCEPT ![Main] = NoView]
      BY <1>14 DEF CheckSent, LookAt, Looked, Forget
    <2>. QED
      BY <1>1, <1>2, <2>1, <2>2 DEF ViewStep
  <1>15. CASE Crash
    BY <1>15 DEF Crash, ViewStep, Actors
  <1>16. ASSUME NEW m \in Msgs, TakeJob(m) PROVE G
    BY <1>16, <1>1, <1>2 DEF TakeJob, Heard, ViewStep
  <1>17. ASSUME NEW m \in Msgs, Resolve(m) PROVE G
    <2>. DEFINE t == conv[m].topic
                ok == CanResolve(mem.reg, where, m, t)
                stale == IF ok /\ StaleOwner(mem.reg, where, t) THEN StoredOwner(mem.reg, t) ELSE NoOwner
    <2>1. t \in Topics
      BY <1>17 DEF Resolve, At, Types, TurnsOK, Conversations
    <2>2. stale \in Owners
      <3>1. RegistryOK(mem.reg)
        BY DEF Types, StatesOK, Good
      <3>2. StoredOwner(mem.reg, t) \in Owners /\ NoOwner \in Owners
        BY <2>1, <3>1, StoredOwnerFacts DEF NoOwner, Owners
      <3>. QED
        BY <3>2
    <2>3. ok \in BOOLEAN
      BY CanIsBoolean
    <2>4. view' = [view EXCEPT ![Main] = HasResolved(m, t, ok, stale)]
      BY <1>17 DEF Resolve, HasResolved
    <2>. HIDE DEF t, stale
    <2>5. ViewStep(Main)
      BY <1>1, <1>2, <2>1, <2>2, <2>3, <2>4 DEF ViewStep
    <2>. QED
      BY <1>1, <1>2, <2>4, <2>5 DEF ViewStep
  <1>18. ASSUME NEW m \in Msgs, Look(m) PROVE G
    <2>1. conv[m] \in Carried /\ conv[m].topic \in Topics
      BY <1>18, CarriedFacts DEF Look, Routed, TurnSteps, Carried, Conversations, Types,
        ViewsOK
    <2>2. view' = [view EXCEPT ![m] = Looked(conv[m], conv[m].topic)]
      BY <1>18 DEF Look, LookAt, Looked
    <2>. QED
      BY <1>1, <1>2, <2>1, <2>2 DEF ViewStep
  <1>19. ASSUME NEW m \in Msgs, Fetch(m) PROVE G
    BY <1>19, <1>1, <1>2 DEF Fetch, Heard, ViewStep
  <1>20. ASSUME NEW m \in Msgs, ReplyLook(m) PROVE G
    <2>1. conv[m] \in Carried /\ view[m].topic \in Topics
      BY <1>20, CarriedFacts DEF ReplyLook, Routed, TurnSteps, Carried, Conversations,
        Types, ViewsOK
    <2>2. view' = [view EXCEPT ![m] = Looked(conv[m], view[m].topic)]
      BY <1>20 DEF ReplyLook, LookAt, Looked
    <2>. QED
      BY <1>1, <1>2, <2>1, <2>2 DEF ViewStep
  <1>. QED
    BY <1>3, <1>4, <1>5, <1>6, <1>7, <1>8, <1>9, <1>10, <1>11, <1>12, <1>13, <1>14, <1>15,
      <1>16, <1>17, <1>18, <1>19, <1>20
      DEF Next, MainNext, WorkerNext, Users

\* The views keep their type.
LEMMA ViewTypes ==
    ASSUME Types, Next
    PROVE  view' \in [Actors -> Views]
  <1>1. view \in [Actors -> Views] /\ RegistryOK(mem.reg) /\ gen \in Nat
    BY DEF Types, ViewsOK, StatesOK, Good, Actors
  <1>2. NoOwner \in Owners /\ NoView \in Views
    BY DEF NoOwner, NoView, Views, Owners
  <1>3. ASSUME NEW a \in Actors PROVE view'[a] \in Views
    <2>1. CASE view'[a] \in {view[a], NoView}
      BY <1>1, <1>2, <2>1
    <2>2. ASSUME NEW t \in Topics, view'[a] = [view[a] EXCEPT !.topic = t]
          PROVE  view'[a] \in Views
      BY <1>1, <2>2 DEF Views
    <2>3. ASSUME NEW c \in Carried, NEW t \in Topics, view'[a] = Looked(c, t)
          PROVE  view'[a] \in Views
      <3>1. SourceOwner(mem.reg, c) \in Owners
        BY <1>1, SourceOwnerFacts DEF Carried
      <3>2. MayAnswerIn(mem.reg, where, c, t) \in BOOLEAN
        BY MayIsBoolean
      <3>. QED
        BY <1>1, <1>2, <2>3, <3>1, <3>2 DEF Looked, Views
    <2>4. ASSUME NEW m \in Msgs, NEW t \in Topics, NEW stale \in Owners, NEW ok \in BOOLEAN,
                 ok => CanResolve(mem.reg, where, m, t), view'[a] = HasResolved(m, t, ok, stale)
          PROVE  view'[a] \in Views
      <3>1. ok => OwnerOf(Resolved(mem.reg, where, m, t)) \in Owners
        BY <1>1, <2>4, ResolvedFacts DEF OwnerOf, Owners
      <3>. QED
        BY <1>1, <1>2, <2>4, <3>1 DEF HasResolved, Views
    <2>. QED
      BY <2>1, <2>2, <2>3, <2>4, ViewSteps DEF ViewStep
  <1>. QED
    BY <1>3, ViewSteps

\* The topics that messages and replies are in.
LEMMA PlacesTypes ==
    ASSUME Types, Next
    PROVE  PlacesOK'
  <1>1. PlacesOK
    BY DEF Types
  <1>2. CASE FinishEnds \/ CheckSent \/ StayClaim \/ MoveClaim
            \/ SaveAttempt \/ SaveAttemptFails \/ ReconcileLater
    BY <1>2, <1>1 DEF FinishEnds, CheckSent, JobEnds, NextJob, Forget, LookAt, StayClaim,
      MoveClaim, Reserve, SaveAttempt, SaveAttemptFails, Release, Trouble, ReconcileLater,
      zulip, shared, workers, PlacesOK, Places
  <1>3. CASE PublishRoute \/ PublishRouteFails \/ ReconcileEnds \/ LoopSaveFails \/ BeginAdmission
            \/ SaveAdmission \/ SubmitEnds \/ Crash
    BY <1>3, <1>1 DEF PublishRoute, Release, NextJob, Forget, PublishRouteFails, JobEnds,
      NoteFails, Trouble, ReconcileEnds, BeginAdmission, SaveAdmission, EndAdmission, Undo,
      SubmitEnds, Crash, zulip, shared, workers, PlacesOK, Places, LoopSaveFails
  <1>4. ASSUME NEW m \in Msgs,
              Finish(m) \/ FinishLater(m) \/ TakeJob(m) \/ Resolve(m) \/ ResolveClaim(m) \/
              ResolveLater(m) \/ Activate(m) \/ Ignore(m) \/ MentionFails(m) \/
              NoteAdmitted(m) \/ NoteAdmittedFails(m)
       PROVE  PlacesOK'
    BY <1>4, <1>1 DEF Finish, Go, TakeJob, Heard, Resolve, ResolveClaim, SetRegistry, Reserve,
      Forget, ResolveLater, Trouble, NoteAdmitted, NoteAdmittedFails, Undo, EndAdmission,
      NoteFails, zulip, shared, mains, workers, PlacesOK, Places, Activate, Ignore,
      MentionFails, NextMessage, Release, FinishLater, Retired
  <1>5. ASSUME NEW m \in Msgs,
              Submit(m) \/ Steer(m) \/ SteerFails(m) \/ Refresh(m) \/ Look(m) \/
              Claim(m) \/ NotReady(m) \/ Launch(m) \/ LaunchFails(m)
       PROVE  PlacesOK'
    BY <1>5, <1>1 DEF Submit, Go, Steer, Refresh, Look, LookAt, Claim, ClaimRoute, Reserve,
      Forget, NotReady, Release, Trouble, Launch, zulip, shared, mains, PlacesOK, Places,
      LaunchFails, SteerFails, Steered
  <1>6. ASSUME NEW m \in Msgs,
              Answers(m) \/ Errs(m) \/ Fetch(m) \/ ReplyLook(m) \/
              ReplyClaim(m) \/ PostFails(m) \/ Publish(m)
       PROVE  PlacesOK'
    BY <1>6, <1>1 DEF Answers, Go, Errs, Trouble, Fetch, Heard, ReplyLook, LookAt, ReplyClaim,
      ClaimRoute, Reserve, Forget, PostFails, Release, Publish, zulip, shared, mains, PlacesOK,
      Places
  <1>7. ASSUME NEW m \in Msgs, PublishFails(m) \/ SaveReply(m) \/ SaveReplyFails(m) PROVE PlacesOK'
    BY <1>7, <1>1 DEF PublishFails, Release, Go, NoteFails, Trouble, SaveReply, zulip, mains,
      PlacesOK, Places, SaveReplyFails
  <1>8. ASSUME NEW M \in SUBSET Msgs, FetchPage(M) PROVE PlacesOK'
    BY <1>8, <1>1 DEF FetchPage, zulip, shared, PlacesOK, Places
  <1>9. ASSUME NEW m \in Msgs, NEW t \in Topics, PostMessage(m, t) PROVE PlacesOK'
    BY <1>9, <1>1 DEF PostMessage, shared, mains, workers, PlacesOK, Places
  <1>10. ASSUME NEW m \in Msgs, NEW t \in Places, MoveMessage(m, t) PROVE PlacesOK'
    BY <1>10, <1>1 DEF MoveMessage, Trouble, shared, mains, workers, PlacesOK, Places
  <1>11. ASSUME NEW t \in Topics, NEW u \in Topics, Rename(t, u) PROVE PlacesOK'
    BY <1>11, <1>1 DEF Rename, Trouble, shared, mains, workers, PlacesOK, Places
  <1>12. CASE Patch
    <2>1. target \in Topics
      BY <1>12 DEF Patch, Types, ViewsOK, RecPcs
    <2>. QED
      BY <1>12, <1>1, <2>1 DEF Patch, MoveReply, PlacesOK, zulip
  <1>13. CASE PatchFails
    <2>1. target \in Topics
      BY <1>13 DEF PatchFails, Types, ViewsOK, RecPcs
    <2>. QED
      BY <1>13, <1>1, <2>1 DEF PatchFails, MoveReply, PlacesOK, zulip
  <1>14. ASSUME NEW m \in Msgs, Post(m) PROVE PlacesOK'
    <2>1. conv[m].topic \in Topics
      BY <1>14 DEF Post, Types, TurnsOK, Conversations
    <2>. QED
      BY <1>14, <1>1, <2>1 DEF Post, PlacesOK
  <1>. QED
    BY <1>2, <1>3, <1>4, <1>5, <1>6, <1>7, <1>8, <1>9, <1>10, <1>11, <1>12, <1>13, <1>14
      DEF Next, MainNext, WorkerNext, Users

\* The generation is a number.
LEMMA GenerationTypes ==
    ASSUME Types, Next
    PROVE  gen' \in Nat
  <1>1. gen \in Nat /\ saved.gen \in Nat
    BY DEF Types, StatesOK
  <1>2. /\ \A reg : gen + NoteBumps(reg) \in Nat
        /\ \A reg : gen + Bump(reg) \in Nat
    BY <1>1 DEF NoteBumps, Bump
  <1>3. CASE FinishEnds \/ CheckSent \/ StayClaim \/ MoveClaim
            \/ SaveAttempt \/ SaveAttemptFails \/ Patch
    BY <1>3, <1>1, <1>2 DEF FinishEnds, CheckSent, JobEnds, NextJob, Forget, LookAt, StayClaim,
      MoveClaim, Reserve, SaveAttempt, SaveAttemptFails, Release, Trouble, Patch, MoveReply,
      zulip, shared, workers
  <1>4. CASE PatchFails \/ ReconcileLater \/ PublishRoute \/ PublishRouteFails
            \/ ReconcileEnds \/ LoopSaveFails \/ BeginAdmission \/ SubmitEnds
    BY <1>4, <1>1, <1>2 DEF PatchFails, MoveReply, JobEnds, Release, NextJob, Forget, Trouble,
      ReconcileLater, PublishRoute, PublishRouteFails, NoteFails, ReconcileEnds, BeginAdmission,
      SubmitEnds, zulip, shared, workers, LoopSaveFails
  <1>5. CASE Crash
    BY <1>5, <1>1, <1>2 DEF Crash, Trouble, zulip
  <1>6. ASSUME NEW m \in Msgs,
              Finish(m) \/ FinishLater(m) \/ TakeJob(m) \/ Resolve(m) \/ ResolveClaim(m) \/
              ResolveLater(m) \/ Activate(m) \/ Ignore(m) \/ MentionFails(m) \/
              NoteAdmitted(m) \/ Submit(m)
       PROVE  gen' \in Nat
    BY <1>6, <1>1, <1>2 DEF Finish, Go, TakeJob, Heard, Resolve, ResolveClaim, SetRegistry,
      Reserve, Forget, ResolveLater, Trouble, NoteAdmitted, Submit, zulip, shared, mains,
      workers, Activate, Ignore, MentionFails, NextMessage, Release, FinishLater, Retired
  <1>7. ASSUME NEW m \in Msgs,
              Steer(m) \/ SteerFails(m) \/ Refresh(m) \/ Look(m) \/ Claim(m) \/
              NotReady(m) \/ Launch(m) \/ LaunchFails(m) \/ Answers(m)
       PROVE  gen' \in Nat
    BY <1>7, <1>1, <1>2 DEF Steer, Go, Refresh, Look, LookAt, Claim, ClaimRoute, Reserve,
      Forget, NotReady, Release, Trouble, Launch, Answers, zulip, shared, mains, LaunchFails,
      SteerFails, Steered
  <1>8. ASSUME NEW m \in Msgs,
              Errs(m) \/ Fetch(m) \/ ReplyLook(m) \/ ReplyClaim(m) \/
              Post(m) \/ PostFails(m) \/ Publish(m)
       PROVE  gen' \in Nat
    BY <1>8, <1>1, <1>2 DEF Errs, Go, Trouble, Fetch, Heard, ReplyLook, LookAt, ReplyClaim,
      ClaimRoute, Reserve, Forget, Post, PostFails, Release, Publish, zulip, shared, mains
  <1>9. ASSUME NEW m \in Msgs,
              PublishFails(m) \/ SaveReply(m) \/ SaveReplyFails(m)
       PROVE  gen' \in Nat
    BY <1>9, <1>1, <1>2 DEF PublishFails, Release, Go, NoteFails, Trouble, SaveReply, zulip,
      mains, SaveReplyFails
  <1>10. ASSUME NEW M \in SUBSET Msgs, FetchPage(M) PROVE gen' \in Nat
    BY <1>10, <1>1, <1>2 DEF FetchPage, zulip, shared
  <1>11. ASSUME NEW m \in Msgs, NEW t \in Topics, PostMessage(m, t) PROVE gen' \in Nat
    BY <1>11, <1>1, <1>2 DEF PostMessage, shared, mains, workers
  <1>12. ASSUME NEW m \in Msgs, NEW t \in Places, MoveMessage(m, t) PROVE gen' \in Nat
    BY <1>12, <1>1, <1>2 DEF MoveMessage, Trouble, shared, mains, workers
  <1>13. ASSUME NEW t \in Topics, NEW u \in Topics, Rename(t, u) PROVE gen' \in Nat
    BY <1>13, <1>1, <1>2 DEF Rename, Trouble, shared, mains, workers
  <1>14. CASE SaveAdmission
    BY <1>14, <1>1, <1>2 DEF SaveAdmission, EndAdmission, Undo, Trouble, zulip, StatesOK, Types
  <1>15. ASSUME NEW m \in Msgs, NoteAdmittedFails(m) PROVE gen' \in Nat
    BY <1>15, <1>1, <1>2 DEF NoteAdmittedFails, Undo, EndAdmission, NoteFails, Trouble, zulip,
      StatesOK, Types
  <1>. QED
    BY <1>3, <1>4, <1>5, <1>6, <1>7, <1>8, <1>9, <1>10, <1>11, <1>12, <1>13, <1>14, <1>15
      DEF Next, MainNext, WorkerNext, Users

\* A reservation is made by a holder, for a topic and an owner.
LEMMA ReservationTypes ==
    ASSUME Types, Next
    PROVE  ReservationsOK'
  <1>1. ReservationsOK
    BY DEF Types
  <1>2. CASE FinishEnds \/ CheckSent \/ StayClaim \/ SaveAttempt
            \/ SaveAttemptFails \/ Patch \/ PatchFails
    BY <1>2, <1>1 DEF FinishEnds, CheckSent, JobEnds, NextJob, Forget, LookAt, StayClaim,
      SaveAttempt, SaveAttemptFails, Release, Trouble, Patch, MoveReply, PatchFails, zulip,
      shared, workers, ReservationsOK, Held
  <1>3. CASE ReconcileLater \/ PublishRoute \/ PublishRouteFails \/ ReconcileEnds \/ LoopSaveFails
            \/ BeginAdmission \/ SaveAdmission \/ SubmitEnds
    BY <1>3, <1>1 DEF ReconcileLater, NextJob, Forget, Trouble, PublishRoute, Release,
      PublishRouteFails, JobEnds, NoteFails, ReconcileEnds, BeginAdmission, SaveAdmission,
      EndAdmission, Undo, SubmitEnds, zulip, shared, workers, ReservationsOK, Held,
      LoopSaveFails
  <1>4. CASE Crash
    BY <1>4, <1>1 DEF Crash, Trouble, zulip, ReservationsOK, Held
  <1>5. ASSUME NEW m \in Msgs,
              Finish(m) \/ FinishLater(m) \/ TakeJob(m) \/ Resolve(m) \/ ResolveLater(m) \/
              Activate(m) \/ Ignore(m) \/
              NoteAdmitted(m) \/ NoteAdmittedFails(m) \/ Submit(m)
       PROVE  ReservationsOK'
    BY <1>5, <1>1 DEF Finish, Go, TakeJob, Heard, Resolve, ResolveLater, Forget, Trouble,
      NoteAdmitted, NoteAdmittedFails, Undo, EndAdmission, NoteFails, Submit, zulip, shared,
      mains, workers, ReservationsOK, Held, Activate, Ignore, NextMessage, Release,
      FinishLater, Retired
  <1>6. ASSUME NEW m \in Msgs,
              Steer(m) \/ SteerFails(m) \/ Refresh(m) \/ Look(m) \/ NotReady(m) \/
              Launch(m) \/ LaunchFails(m) \/ Answers(m) \/ Errs(m)
       PROVE  ReservationsOK'
    BY <1>6, <1>1 DEF Steer, Go, Refresh, Look, LookAt, NotReady, Release, Trouble, Launch,
      Answers, Errs, zulip, shared, mains, ReservationsOK, Held, LaunchFails, SteerFails,
      Steered
  <1>7. ASSUME NEW m \in Msgs,
              Fetch(m) \/ ReplyLook(m) \/ Post(m) \/ PostFails(m) \/
              Publish(m) \/ PublishFails(m) \/ SaveReply(m) \/ SaveReplyFails(m)
       PROVE  ReservationsOK'
    BY <1>7, <1>1 DEF Fetch, Go, Heard, ReplyLook, LookAt, Post, PostFails, Release, Trouble,
      Publish, PublishFails, NoteFails, SaveReply, zulip, shared, mains, ReservationsOK, Held,
      SaveReplyFails
  <1>8. ASSUME NEW M \in SUBSET Msgs, FetchPage(M) PROVE ReservationsOK'
    BY <1>8, <1>1 DEF FetchPage, zulip, shared, ReservationsOK, Held
  <1>9. ASSUME NEW m \in Msgs, NEW t \in Topics, PostMessage(m, t) PROVE ReservationsOK'
    BY <1>9, <1>1 DEF PostMessage, shared, mains, workers, ReservationsOK, Held
  <1>10. ASSUME NEW m \in Msgs, NEW t \in Places, MoveMessage(m, t) PROVE ReservationsOK'
    BY <1>10, <1>1 DEF MoveMessage, Trouble, shared, mains, workers, ReservationsOK, Held
  <1>11. ASSUME NEW t \in Topics, NEW u \in Topics, Rename(t, u) PROVE ReservationsOK'
    BY <1>11, <1>1 DEF Rename, Trouble, shared, mains, workers, ReservationsOK, Held
  <1>12. CASE MoveClaim
    <2>1. cur \in Msgs /\ target \in Topics /\ view[Main].owner \in Owners
      BY <1>12 DEF MoveClaim, Types, MainOK, ViewsOK, RecPcs, Views
    <2>2. Reconciliation(cur) \in Holders
      BY <2>1 DEF Holders
    <2>. QED
      BY <1>12, <1>1, <2>1, <2>2 DEF MoveClaim, Reserve, ReservationsOK, target
  <1>13. ASSUME NEW m \in Msgs, ResolveClaim(m) PROVE ReservationsOK'
    <2>1. target \in Topics /\ view[Main].owner \in Owners
      BY <1>13 DEF ResolveClaim, Types, ViewsOK, Views
    <2>2. Admission(m) \in Holders
      BY DEF Holders
    <2>. QED
      BY <1>13, <1>1, <2>1, <2>2 DEF ResolveClaim, Reserve, ReservationsOK, target
  <1>14. ASSUME NEW m \in Msgs, Claim(m) PROVE ReservationsOK'
    <2>1. view[m].topic \in Topics /\ view[m].owner \in Owners
      BY <1>14 DEF Claim, Types, ViewsOK, Views
    <2>2. Turn(m) \in Holders
      BY DEF Holders
    <2>. QED
      BY <1>14, <1>1, <2>1, <2>2 DEF Claim, ClaimRoute, Reserve, ReservationsOK
  <1>15. ASSUME NEW m \in Msgs, ReplyClaim(m) PROVE ReservationsOK'
    <2>1. view[m].topic \in Topics /\ view[m].owner \in Owners
      BY <1>15 DEF ReplyClaim, Types, ViewsOK, Views
    <2>2. Turn(m) \in Holders
      BY DEF Holders
    <2>. QED
      BY <1>15, <1>1, <2>1, <2>2 DEF ReplyClaim, ClaimRoute, Reserve, ReservationsOK
  <1>16. ASSUME NEW m \in Msgs, MentionFails(m) PROVE ReservationsOK'
    <2>1. Nobody \in Holders
      BY DEF Holders
    <2>. DEFINE lost(r) == [r EXCEPT !.by = IF @ = Admission(m) THEN Nobody ELSE @]
    <2>2. ASSUME NEW r \in rsv PROVE lost(r) \in [by : Holders, topic : Topics, owner : Owners]
      <3>1. r \in [by : Holders, topic : Topics, owner : Owners]
        BY <1>1 DEF ReservationsOK
      <3>. DEFINE b == IF r.by = Admission(m) THEN Nobody ELSE r.by
      <3>2. b \in Holders /\ lost(r) = [r EXCEPT !.by = b]
        BY <2>1, <3>1
      <3>. HIDE DEF b, lost
      <3>. QED
        BY <3>1, <3>2
    <2>3. rsv' = {lost(r) : r \in rsv}
      BY <1>16 DEF MentionFails
    <2>. HIDE DEF lost
    <2>. QED
      BY <2>2, <2>3 DEF ReservationsOK
  <1>. QED
    BY <1>2, <1>3, <1>4, <1>5, <1>6, <1>7, <1>8, <1>9, <1>10, <1>11, <1>12, <1>13, <1>14,
      <1>15, <1>16
      DEF Next, MainNext, WorkerNext, Users

\* The main thread is at a message, or at a job, whenever it needs one.
LEMMA MainTypes ==
    ASSUME Types, Next
    PROVE  MainOK'
  <1>1. MainOK
    BY DEF Types
  <1>2. step \in [Msgs -> Steps]
    BY DEF Types, TurnsOK
  <1>3. CASE StayClaim \/ SaveAttempt \/ SaveAttemptFails \/ Patch
    BY <1>3, <1>1, <1>2 DEF StayClaim, JobEnds, NextJob, Forget, SaveAttempt, SaveAttemptFails,
      Release, Trouble, Patch, MoveReply, zulip, shared, workers, MainOK, Pcs, RecPcs, At
  <1>4. CASE PatchFails \/ ReconcileLater \/ PublishRoute \/ PublishRouteFails
    BY <1>4, <1>1, <1>2 DEF PatchFails, MoveReply, JobEnds, Release, NextJob, Forget, Trouble,
      ReconcileLater, PublishRoute, PublishRouteFails, NoteFails, zulip, workers, MainOK, Pcs,
      RecPcs, At
  <1>5. CASE ReconcileEnds \/ LoopSaveFails \/ BeginAdmission \/ SaveAdmission \/ SubmitEnds
    BY <1>5, <1>1, <1>2 DEF ReconcileEnds, BeginAdmission, SaveAdmission, EndAdmission, Undo,
      Trouble, SubmitEnds, zulip, shared, workers, MainOK, Pcs, RecPcs, At, LoopSaveFails
  <1>6. CASE Crash
    BY <1>6, <1>1, <1>2 DEF Crash, Trouble, zulip, MainOK, Pcs, RecPcs, At
  <1>7. ASSUME NEW m \in Msgs,
              Finish(m) \/ FinishLater(m) \/ Resolve(m) \/ ResolveClaim(m) \/
              ResolveLater(m) \/ Activate(m) \/ Ignore(m) \/ MentionFails(m)
       PROVE  MainOK'
    BY <1>7, <1>1, <1>2 DEF Finish, Go, Resolve, ResolveClaim, SetRegistry, Reserve, Forget,
      ResolveLater, Trouble, zulip, shared, mains, workers, MainOK, Pcs, RecPcs, At, Activate,
      Ignore, MentionFails, NextMessage, Release, FinishLater, Retired
  <1>8. ASSUME NEW m \in Msgs,
              NoteAdmitted(m) \/ NoteAdmittedFails(m) \/ Submit(m) \/ Steer(m) \/ SteerFails(m)
       PROVE  MainOK'
    BY <1>8, <1>1, <1>2 DEF NoteAdmitted, Go, NoteAdmittedFails, Undo, EndAdmission, NoteFails,
      Trouble, Submit, Steer, zulip, shared, mains, MainOK, Pcs, RecPcs, At, SteerFails, Steered
  <1>9. ASSUME NEW m \in Msgs, Refresh(m) \/ Look(m) \/ Claim(m) \/ NotReady(m) PROVE MainOK'
    BY <1>9, <1>1, <1>2 DEF Refresh, Go, Look, LookAt, Claim, ClaimRoute, Reserve, Forget,
      NotReady, Release, Trouble, zulip, shared, mains, MainOK, Pcs, RecPcs, At
  <1>10. ASSUME NEW m \in Msgs,
              Launch(m) \/ LaunchFails(m) \/ Answers(m) \/ Errs(m) \/ Fetch(m)
       PROVE  MainOK'
    BY <1>10, <1>1, <1>2 DEF Launch, Release, Go, Answers, Errs, Trouble, Fetch, Heard, zulip,
      shared, mains, MainOK, Pcs, RecPcs, At, LaunchFails
  <1>11. ASSUME NEW m \in Msgs, ReplyLook(m) \/ ReplyClaim(m) \/ Post(m) \/ PostFails(m)
         PROVE  MainOK'
    BY <1>11, <1>1, <1>2 DEF ReplyLook, LookAt, Go, ReplyClaim, ClaimRoute, Reserve, Forget,
      Post, PostFails, Release, Trouble, zulip, shared, mains, MainOK, Pcs, RecPcs, At
  <1>12. ASSUME NEW m \in Msgs,
              Publish(m) \/ PublishFails(m) \/ SaveReply(m) \/ SaveReplyFails(m)
       PROVE  MainOK'
    BY <1>12, <1>1, <1>2 DEF Publish, Go, PublishFails, Release, NoteFails, Trouble, SaveReply,
      zulip, mains, MainOK, Pcs, RecPcs, At, SaveReplyFails
  <1>13. ASSUME NEW M \in SUBSET Msgs, FetchPage(M) PROVE MainOK'
    BY <1>13, <1>1, <1>2 DEF FetchPage, zulip, shared, MainOK, Pcs, RecPcs, At
  <1>14. ASSUME NEW m \in Msgs, NEW t \in Topics, PostMessage(m, t) PROVE MainOK'
    BY <1>14, <1>1, <1>2 DEF PostMessage, shared, mains, workers, MainOK, Pcs, RecPcs, At
  <1>15. ASSUME NEW m \in Msgs, NEW t \in Places, MoveMessage(m, t) PROVE MainOK'
    BY <1>15, <1>1, <1>2 DEF MoveMessage, Trouble, shared, mains, workers, MainOK, Pcs, RecPcs,
      At
  <1>16. ASSUME NEW t \in Topics, NEW u \in Topics, Rename(t, u) PROVE MainOK'
    BY <1>16, <1>1, <1>2 DEF Rename, Trouble, shared, mains, workers, MainOK, Pcs, RecPcs, At
  <1>17. CASE FinishEnds
    BY <1>17, <1>1, <1>2 DEF FinishEnds, zulip, shared, workers, MainOK, Pcs, RecPcs, At,
      QueuedJobs
  <1>18. CASE CheckSent
    BY <1>18, <1>1, <1>2 DEF CheckSent, JobEnds, NextJob, Forget, LookAt, zulip, workers,
      MainOK, Pcs, RecPcs, At
  <1>19. CASE MoveClaim
    <2>1. Tried(job, target) \in Jobs
      <3>1. job \in Jobs /\ target \in Topics
        BY <1>19 DEF Types, MainOK, ViewsOK, MoveClaim, RecPcs
      <3>. QED
        BY <3>1, TriedFacts
    <2>. QED
      BY <1>19, <1>1, <2>1 DEF MoveClaim, NextJob, MainOK, Pcs, RecPcs
  <1>20. ASSUME NEW m \in Msgs, TakeJob(m) PROVE MainOK'
    <2>1. JobIsOwned(m) => mem.jobs[m] \in Jobs
      BY ThreadFacts DEF JobIsOwned, Known, Types, StatesOK, Good, States, NoJob
    <2>. QED
      BY <1>20, <1>1, <2>1 DEF TakeJob, MainOK, Pcs, RecPcs
  <1>. QED
    BY <1>3, <1>4, <1>5, <1>6, <1>7, <1>8, <1>9, <1>10, <1>11, <1>12, <1>13, <1>14, <1>15,
      <1>16, <1>17, <1>18, <1>19, <1>20
      DEF Next, MainNext, WorkerNext, Users

\* A message has a conversation from its admission to the end of its turn.
LEMMA TurnTypes ==
    ASSUME Types, Next
    PROVE  TurnsOK'
  <1>1. TurnsOK
    BY DEF Types
  <1>2. NoConv.sess = NoSession
    BY DEF NoConv, NoSession
  <1>3. CASE FinishEnds \/ CheckSent \/ StayClaim \/ MoveClaim
    BY <1>3, <1>1, <1>2 DEF FinishEnds, CheckSent, JobEnds, NextJob, Forget, LookAt, StayClaim,
      MoveClaim, Reserve, zulip, shared, workers, TurnsOK, Steps, Routed, TurnSteps, At, Ended,
      InAdmission
  <1>4. CASE SaveAttempt \/ SaveAttemptFails \/ Patch \/ PatchFails
    BY <1>4, <1>1, <1>2 DEF SaveAttempt, SaveAttemptFails, Release, Forget, Trouble, Patch,
      MoveReply, PatchFails, JobEnds, NextJob, zulip, shared, workers, TurnsOK, Steps, Routed,
      TurnSteps, At, Ended, InAdmission
  <1>5. CASE ReconcileLater \/ PublishRoute \/ PublishRouteFails \/ ReconcileEnds \/ LoopSaveFails
    BY <1>5, <1>1, <1>2 DEF ReconcileLater, NextJob, Forget, Trouble, PublishRoute, Release,
      PublishRouteFails, JobEnds, NoteFails, ReconcileEnds, zulip, shared, workers, TurnsOK,
      Steps, Routed, TurnSteps, At, Ended, InAdmission, LoopSaveFails
  <1>6. CASE BeginAdmission \/ SaveAdmission \/ SubmitEnds \/ Crash
    BY <1>6, <1>1, <1>2 DEF BeginAdmission, SaveAdmission, EndAdmission, Undo, Trouble,
      SubmitEnds, Crash, zulip, shared, workers, TurnsOK, Steps, Routed, TurnSteps, At, Ended,
      InAdmission
  <1>7. ASSUME NEW m \in Msgs,
              TakeJob(m) \/ Resolve(m) \/ NoteAdmitted(m) \/ NoteAdmittedFails(m)
       PROVE  TurnsOK'
    BY <1>7, <1>1, <1>2 DEF TakeJob, Heard, Resolve, NoteAdmitted, Go, NoteAdmittedFails, Undo,
      EndAdmission, NoteFails, Trouble, zulip, shared, mains, workers, TurnsOK, Steps, Routed,
      TurnSteps, At, Ended, InAdmission
  <1>8. ASSUME NEW m \in Msgs,
              Submit(m) \/ Steer(m) \/ SteerFails(m) \/ Refresh(m) \/ Look(m)
       PROVE  TurnsOK'
    BY <1>8, <1>1, <1>2 DEF Submit, Go, Steer, Refresh, Look, LookAt, zulip, shared, mains,
      TurnsOK, Steps, Routed, TurnSteps, At, Ended, InAdmission, SteerFails, Steered, Trouble
  <1>9. ASSUME NEW m \in Msgs,
              Claim(m) \/ NotReady(m) \/ Launch(m) \/ LaunchFails(m) \/ Errs(m)
       PROVE  TurnsOK'
    BY <1>9, <1>1, <1>2 DEF Claim, ClaimRoute, Reserve, Go, Forget, NotReady, Release, Trouble,
      Launch, Errs, zulip, shared, mains, TurnsOK, Steps, Routed, TurnSteps, At, Ended,
      InAdmission, LaunchFails
  <1>10. ASSUME NEW m \in Msgs, Fetch(m) \/ ReplyLook(m) \/ Post(m) \/ PostFails(m)
         PROVE  TurnsOK'
    BY <1>10, <1>1, <1>2 DEF Fetch, Go, Heard, ReplyLook, LookAt, Post, PostFails, Release,
      Trouble, zulip, shared, mains, TurnsOK, Steps, Routed, TurnSteps, At, Ended, InAdmission
  <1>11. ASSUME NEW m \in Msgs,
              Publish(m) \/ PublishFails(m) \/ SaveReply(m) \/ SaveReplyFails(m)
       PROVE  TurnsOK'
    BY <1>11, <1>1, <1>2 DEF Publish, Go, PublishFails, Release, NoteFails, Trouble, SaveReply,
      zulip, mains, TurnsOK, Steps, Routed, TurnSteps, At, Ended, InAdmission, SaveReplyFails
  <1>12. ASSUME NEW m \in Msgs, NEW t \in Topics, PostMessage(m, t) PROVE TurnsOK'
    BY <1>12, <1>1, <1>2 DEF PostMessage, shared, mains, workers, TurnsOK, Steps, Routed,
      TurnSteps, At, Ended, InAdmission
  <1>13. ASSUME NEW m \in Msgs, NEW t \in Places, MoveMessage(m, t) PROVE TurnsOK'
    BY <1>13, <1>1, <1>2 DEF MoveMessage, Trouble, shared, mains, workers, TurnsOK, Steps,
      Routed, TurnSteps, At, Ended, InAdmission
  <1>14. ASSUME NEW t \in Topics, NEW u \in Topics, Rename(t, u) PROVE TurnsOK'
    BY <1>14, <1>1, <1>2 DEF Rename, Trouble, shared, mains, workers, TurnsOK, Steps, Routed,
      TurnSteps, At, Ended, InAdmission
  <1>15. ASSUME NEW M \in SUBSET Msgs, FetchPage(M) PROVE TurnsOK'
    <2>1. \A m \in M : where[m] \in Topics /\ step[m] = "idle" /\ m \in Msgs
      BY <1>15 DEF FetchPage, Waiting
    <2>2. \A m \in M : [NoConv EXCEPT !.msg = m, !.topic = where[m]] \in Conversations
      BY <2>1 DEF NoConv, Conversations, NoThread, NoSession
    <2>3. \A m \in M : [NoConv EXCEPT !.msg = m, !.topic = where[m]].sess = NoSession
      BY DEF NoConv, NoSession
    <2>. QED
      BY <1>15, <1>1, <2>1, <2>2, <2>3 DEF FetchPage, TurnsOK, Steps, Routed, TurnSteps
  <1>16. ASSUME NEW m \in Msgs, Finish(m) \/ FinishLater(m) PROVE TurnsOK'
    BY <1>16, <1>1, <1>2 DEF Finish, Go, zulip, mains, TurnsOK, Steps, Routed, TurnSteps, At,
      Ended, InAdmission, FinishLater, Retired, Trouble, workers
  <1>17. ASSUME NEW m \in Msgs, ResolveClaim(m) PROVE TurnsOK'
    <2>1. Admissible => view[Main].owner.thread \in Threads /\ view[Main].owner.sess \in Sessions \cup {NoSession}
      <3>1. Admissible => view[Main].ok
        BY DEF Admissible, Unchanged
      <3>2. view[Main] \in Views
        BY DEF Types, ViewsOK
      <3>. QED
        BY <1>17, <3>1, <3>2 DEF ResolveClaim, Types, ViewsOK, Views, Owners
    <2>2. step[m] = "fetched" /\ m \in Msgs
      BY <1>17 DEF ResolveClaim, Types, MainOK
    <2>3. conv[m] \in Conversations /\ conv[m].sess = NoSession
      BY <1>1, <2>2 DEF TurnsOK, Routed, TurnSteps
    <2>4. CASE Go(m, "resolved") /\ Admissible
               /\ conv' = [conv EXCEPT ![m].thread = view[Main].owner.thread, ![m].sess = view[Main].owner.sess]
      <3>1. conv' = [conv EXCEPT ![m] = [@ EXCEPT !.thread = view[Main].owner.thread, !.sess = view[Main].owner.sess]]
        BY <2>4
      <3>2. conv'[m] \in Conversations /\ conv'[m].thread \in Threads
        BY <1>1, <2>1, <2>3, <2>4, <3>1 DEF TurnsOK, Conversations
      <3>. QED
        BY <1>17, <1>1, <2>4, <3>1, <3>2 DEF ResolveClaim, Go, TurnsOK, Steps, Routed, TurnSteps
    <2>5. CASE Go(m, "refused") /\ UNCHANGED conv
      BY <1>17, <1>1, <2>3, <2>5 DEF ResolveClaim, Go, TurnsOK, Steps, Routed, TurnSteps
    <2>. QED
      BY <1>17, <2>4, <2>5 DEF ResolveClaim
  <1>18. ASSUME NEW m \in Msgs,
              ResolveLater(m) \/ Activate(m) \/ Ignore(m) \/ MentionFails(m)
       PROVE  TurnsOK'
    BY <1>18, <1>1, <1>2 DEF ResolveLater, Go, Forget, Trouble, zulip, shared, TurnsOK, Steps,
      Routed, TurnSteps, At, Ended, InAdmission, Types, MainOK, Activate, Ignore, MentionFails,
      NextMessage, Release
  <1>19. ASSUME NEW m \in Msgs, Answers(m) PROVE TurnsOK'
    <2>1. CASE UNCHANGED <<conv, sessions>>
      BY <1>19, <1>1, <2>1 DEF Answers, Go, TurnsOK, Steps, Routed, TurnSteps
    <2>2. CASE sessions + 1 \in Sessions /\ sessions' = sessions + 1 /\ conv' = [conv EXCEPT ![m].sess = sessions']
      <3>1. conv[m] \in Conversations /\ conv[m].thread \in Threads /\ step[m] = "run"
        BY <1>19, <1>1 DEF Answers, TurnsOK, Routed, TurnSteps
      <3>2. conv'[m] \in Conversations /\ conv'[m].thread \in Threads
        BY <1>1, <2>2, <3>1 DEF TurnsOK, Conversations
      <3>. QED
        BY <1>19, <1>1, <2>2, <3>1, <3>2 DEF Answers, Go, TurnsOK, Steps, Routed, TurnSteps
    <2>. QED
      BY <1>19, <2>1, <2>2 DEF Answers
  <1>20. ASSUME NEW m \in Msgs, ReplyClaim(m) PROVE TurnsOK'
    <2>1. view[m].topic \in Topics
      BY <1>20 DEF ReplyClaim, Types, ViewsOK
    <2>. QED
      BY <1>20, <1>1, <2>1 DEF ReplyClaim, ClaimRoute, Go, TurnsOK, Steps, Routed, TurnSteps,
        Conversations
  <1>. QED
    BY <1>3, <1>4, <1>5, <1>6, <1>7, <1>8, <1>9, <1>10, <1>11, <1>12, <1>13, <1>14, <1>15,
      <1>16, <1>17, <1>18, <1>19, <1>20
      DEF Next, MainNext, WorkerNext, Users

LookingTypes ==
    /\ \A m \in Msgs : step[m] \in {"replyLook", "replyClaim", "claim"} => view[m].topic \in Topics
    /\ pc \in RecPcs \cup {"claim"} => target \in Topics
    /\ pc = "claim" /\ view[Main].ok => view[Main].owner.thread \in Threads

\* Who looks at a destination has heard of its topic.
LEMMA LookingStep ==
    ASSUME Types, Next
    PROVE  LookingTypes'
  <1>1. /\ view \in [Actors -> Views]
        /\ step \in [Msgs -> Steps]
        /\ LookingTypes
    BY DEF Types, ViewsOK, TurnsOK, LookingTypes, Actors
  <1>2. Main \in Actors /\ (\A m \in Msgs : m \in Actors /\ m # Main)
    BY MainIsNoMessage DEF Actors
  <1>3. CASE FinishEnds \/ SaveAttempt \/ SaveAttemptFails \/ Patch
    BY <1>3, <1>1, <1>2 DEF FinishEnds, SaveAttempt, SaveAttemptFails, Release, Forget, Trouble,
      Patch, MoveReply, zulip, shared, workers, LookingTypes, RecPcs, target
  <1>4. CASE PatchFails \/ ReconcileLater \/ PublishRoute \/ PublishRouteFails
    BY <1>4, <1>1, <1>2 DEF PatchFails, MoveReply, JobEnds, Release, NextJob, Forget, Trouble,
      ReconcileLater, PublishRoute, PublishRouteFails, NoteFails, zulip, workers, LookingTypes,
      RecPcs, target
  <1>5. CASE ReconcileEnds \/ LoopSaveFails \/ BeginAdmission \/ SaveAdmission \/ SubmitEnds
    BY <1>5, <1>1, <1>2 DEF ReconcileEnds, BeginAdmission, SaveAdmission, EndAdmission, Undo,
      Trouble, SubmitEnds, zulip, shared, workers, LookingTypes, RecPcs, target, LoopSaveFails
  <1>6. CASE Crash
    BY <1>6, <1>1, <1>2 DEF Crash, Trouble, zulip, LookingTypes, RecPcs, target
  <1>7. ASSUME NEW m \in Msgs,
              Finish(m) \/ FinishLater(m) \/ ResolveClaim(m) \/ ResolveLater(m) \/
              Activate(m) \/ Ignore(m) \/ MentionFails(m) \/ NoteAdmitted(m)
       PROVE  LookingTypes'
    BY <1>7, <1>1, <1>2 DEF Finish, Go, ResolveClaim, SetRegistry, Reserve, Forget,
      ResolveLater, Trouble, NoteAdmitted, zulip, shared, mains, workers, LookingTypes, RecPcs,
      target, Activate, Ignore, MentionFails, NextMessage, Release, FinishLater, Retired
  <1>8. ASSUME NEW m \in Msgs,
              NoteAdmittedFails(m) \/ Submit(m) \/ Steer(m) \/ SteerFails(m) \/ Refresh(m)
        PROVE  LookingTypes'
    BY <1>8, <1>1, <1>2 DEF NoteAdmittedFails, Undo, EndAdmission, NoteFails, Trouble, Submit,
      Go, Steer, Refresh, zulip, shared, mains, LookingTypes, RecPcs, target, SteerFails,
      Steered
  <1>9. ASSUME NEW m \in Msgs, Claim(m) \/ NotReady(m) \/ Launch(m) \/ LaunchFails(m) \/ Answers(m)
        PROVE  LookingTypes'
    BY <1>9, <1>1, <1>2 DEF Claim, ClaimRoute, Reserve, Go, Forget, NotReady, Release, Trouble,
      Launch, Answers, zulip, shared, mains, LookingTypes, RecPcs, target, LaunchFails
  <1>10. ASSUME NEW m \in Msgs, Errs(m) \/ ReplyLook(m) \/ ReplyClaim(m) \/ Post(m)
         PROVE  LookingTypes'
    BY <1>10, <1>1, <1>2 DEF Errs, Go, Trouble, ReplyLook, LookAt, ReplyClaim, ClaimRoute,
      Reserve, Forget, Post, zulip, shared, mains, LookingTypes, RecPcs, target
  <1>11. ASSUME NEW m \in Msgs,
              PostFails(m) \/ Publish(m) \/ PublishFails(m) \/ SaveReply(m) \/ SaveReplyFails(m)
       PROVE  LookingTypes'
    BY <1>11, <1>1, <1>2 DEF PostFails, Release, Go, Trouble, Publish, PublishFails, NoteFails,
      SaveReply, zulip, mains, LookingTypes, RecPcs, target, SaveReplyFails
  <1>12. ASSUME NEW M \in SUBSET Msgs, FetchPage(M) PROVE LookingTypes'
    BY <1>12, <1>1, <1>2 DEF FetchPage, zulip, shared, LookingTypes, RecPcs, target
  <1>13. ASSUME NEW m \in Msgs, NEW t \in Topics, PostMessage(m, t) PROVE LookingTypes'
    BY <1>13, <1>1, <1>2 DEF PostMessage, shared, mains, workers, LookingTypes, RecPcs, target
  <1>14. ASSUME NEW m \in Msgs, NEW t \in Places, MoveMessage(m, t) PROVE LookingTypes'
    BY <1>14, <1>1, <1>2 DEF MoveMessage, Trouble, shared, mains, workers, LookingTypes, RecPcs,
      target
  <1>15. ASSUME NEW t \in Topics, NEW u \in Topics, Rename(t, u) PROVE LookingTypes'
    BY <1>15, <1>1, <1>2 DEF Rename, Trouble, shared, mains, workers, LookingTypes, RecPcs,
      target
  <1>16. CASE CheckSent
    BY <1>16, <1>1, <1>2 DEF CheckSent, JobEnds, NextJob, Forget, LookAt, zulip, workers,
      LookingTypes, RecPcs, target
  <1>17. CASE StayClaim
    BY <1>17, <1>1, <1>2 DEF StayClaim, JobEnds, NextJob, Forget, zulip, workers, LookingTypes,
      RecPcs, target
  <1>18. CASE MoveClaim
    BY <1>18, <1>1, <1>2 DEF MoveClaim, JobEnds, NextJob, Forget, Reserve, zulip, workers,
      LookingTypes, RecPcs, target
  <1>19. ASSUME NEW m \in Msgs, TakeJob(m) PROVE LookingTypes'
    BY <1>19, <1>1, <1>2 DEF TakeJob, Heard, zulip, workers, LookingTypes, RecPcs, target, Views
  <1>20. ASSUME NEW m \in Msgs, Resolve(m) PROVE LookingTypes'
    <2>1. conv[m].topic \in Topics
      BY <1>20 DEF Resolve, At, Types, TurnsOK, Conversations
    <2>2. CanResolve(mem.reg, where, m, conv[m].topic)
            => OwnerOf(Resolved(mem.reg, where, m, conv[m].topic)).thread \in Threads
      <3>1. RegistryOK(mem.reg)
        BY DEF Types, StatesOK, Good
      <3>. QED
        BY <2>1, <3>1, ResolvedFacts DEF OwnerOf
    <2>. QED
      BY <1>20, <1>1, <1>2, <2>1, <2>2 DEF Resolve, LookingTypes, RecPcs, target, workers
  <1>21. ASSUME NEW m \in Msgs, Look(m) PROVE LookingTypes'
    <2>1. conv[m].topic \in Topics
      BY <1>21 DEF Look, Types, TurnsOK, Conversations
    <2>. QED
      BY <1>21, <1>1, <1>2, <2>1 DEF Look, LookAt, Go, LookingTypes, RecPcs, target, mains
  <1>22. ASSUME NEW m \in Msgs, Fetch(m) PROVE LookingTypes'
    BY <1>22, <1>1, <1>2 DEF Fetch, Go, Heard, zulip, shared, mains, LookingTypes, RecPcs,
      target, Views
  <1>. QED
    BY <1>3, <1>4, <1>5, <1>6, <1>7, <1>8, <1>9, <1>10, <1>11, <1>12, <1>13, <1>14, <1>15,
      <1>16, <1>17, <1>18, <1>19, <1>20, <1>21, <1>22
      DEF Next, MainNext, WorkerNext, Users

\* The types hold at the start.
LEMMA TypesInit == Init => Types
  <1>. SUFFICES ASSUME Init PROVE Types
    OBVIOUS
  <1>1. Good(EmptyState) /\ EmptyState \in States
    BY EmptyIsGood DEF Good
  <1>2. NoView \in Views
    BY DEF NoView, NoOwner, Views, Owners
  <1>3. PlacesOK /\ StatesOK /\ ReservationsOK
    BY <1>1 DEF Init, InitMain, PlacesOK, StatesOK, ReservationsOK
  <1>4. MainOK /\ ViewsOK
    BY <1>2 DEF Init, InitMain, MainOK, ViewsOK, Pcs, RecPcs
  <1>5. TurnsOK
    BY DEF Init, TurnsOK, Steps, Routed, TurnSteps, NoConv, NoSession
  <1>. QED
    BY <1>3, <1>4, <1>5 DEF Types

\* They hold after every step.
LEMMA TypesStep == Types /\ [Next]_vars => Types'
  <1>. SUFFICES ASSUME Types, [Next]_vars PROVE Types'
    OBVIOUS
  <1>1. CASE Next
    <2>1. PlacesOK' /\ ReservationsOK' /\ MainOK' /\ TurnsOK' /\ LookingTypes'
      BY <1>1, PlacesTypes, ReservationTypes, MainTypes, TurnTypes, LookingStep
    <2>2. StatesOK'
      BY <1>1, StatesStep, GenerationTypes DEF StatesOK
    <2>3. ViewsOK'
      BY <1>1, <2>1, ViewTypes DEF ViewsOK, LookingTypes, Actors
    <2>. QED
      BY <2>1, <2>2, <2>3 DEF Types
  <1>2. CASE UNCHANGED vars
    <2>1. PlacesOK' /\ ReservationsOK'
      BY <1>2 DEF vars, zulip, shared, Types, PlacesOK, ReservationsOK
    <2>2. StatesOK'
      BY <1>2 DEF vars, shared, mains, Types, StatesOK, Good
    <2>3. MainOK' /\ ViewsOK' /\ TurnsOK'
      BY <1>2 DEF vars, mains, workers, Types, MainOK, ViewsOK, TurnsOK, target
    <2>. QED
      BY <2>1, <2>2, <2>3 DEF Types
  <1>. QED
    BY <1>1, <1>2

\* The type invariant of the runs is a part of them.
LEMMA TypesImplyTypeOK == Types => TypeOK
  BY DEF Types, PlacesOK, StatesOK, ReservationsOK, MainOK, TurnsOK, Good, RegistryOK, TypeOK

\* Every variable keeps its type, with any number of moves, faults and crashes: a job has
\* less than MAX_DURABLE_ATTEMPTS attempts behind it, and its list of attempted routes is
\* bounded and names no topic twice (_record_attempted_route,
\* _reschedule_reconciliation_job of bridge.py).
THEOREM TypeCorrect == Spec => []TypeOK
  <1>1. Init => Types
    BY TypesInit
  <1>2. Types /\ [Next]_vars => Types'
    BY TypesStep
  <1>3. Types => TypeOK
    BY TypesImplyTypeOK
  <1>. QED
    BY <1>1, <1>2, <1>3, PTL DEF Spec

(***************************************************************************)
(* The claims on a session: all that is written anywhere of the thread a   *)
(* session belongs to agrees, in the state and its copies, in the jobs,    *)
(* the turns and what the actors saw.                                      *)
(***************************************************************************)
StateClaims(st, x, s) ==
    \/ st.reg.sess[x] = s
    \/ \E m \in Msgs : st.jobs[m].thread = x /\ st.jobs[m].sess = s

TurnClaims(x, s) == \E m \in Msgs : conv[m].thread = x /\ conv[m].sess = s
JobClaims(x, s) == job.thread = x /\ job.sess = s
ViewClaims(x, s) == \E a \in Actors : view[a].owner.thread = x /\ view[a].owner.sess = s

Claimed(x, s) ==
    \/ StateClaims(mem, x, s) \/ StateClaims(disk, x, s) \/ StateClaims(saved.mem, x, s)
    \/ TurnClaims(x, s) \/ JobClaims(x, s) \/ ViewClaims(x, s)

OneClaim == \A s \in Sessions : \A x, y \in Threads : Claimed(x, s) /\ Claimed(y, s) => x = y
ClaimsAreOld == \A s \in Sessions : \A x \in Threads : Claimed(x, s) => s <= sessions

NamesOwned ==
    \A st \in {mem, disk, saved.mem} : NamesAreOwned(st.reg, leftover) /\ Backed(st.reg)

\* The job j is k after some attempts.
Continues(j, k) ==
    /\ j.topic = k.topic /\ j.thread = k.thread /\ j.sess = k.sess
    /\ Range(k.tried) \subseteq Range(j.tried) \/ Len(j.tried) = MaxTried
    /\ Len(k.tried) = MaxTried => Len(j.tried) = MaxTried

\* The jobs after a step: those of a state, the one under reconciliation, or that of
\* a reply that was posted.
JobStep(n, j) ==
    \/ j \in {mem.jobs[n], disk.jobs[n], saved.mem.jobs[n], NoJob}
    \/ pc \in RecPcs /\ n = cur /\ Continues(j, job)
    \/ Publish(n) /\ j = JobOf(conv[n])

\* No step changes a job in another way.
LEMMA JobsSteps ==
    ASSUME Types, Next
    PROVE  \A n \in Msgs : JobStep(n, mem'.jobs[n])
  <1>. DEFINE G == \A n \in Msgs : JobStep(n, mem'.jobs[n])
  <1>1. mem \in States /\ disk \in States /\ saved.mem \in States
    BY DEF Types, StatesOK, Good
  <1>2. CASE FinishEnds \/ CheckSent \/ StayClaim \/ SaveAttempt
    BY <1>2, <1>1 DEF FinishEnds, CheckSent, JobEnds, NextJob, Forget, LookAt, StayClaim,
      SaveAttempt, zulip, shared, workers, JobStep, States
  <1>3. CASE SaveAttemptFails \/ Patch \/ ReconcileEnds \/ LoopSaveFails \/ BeginAdmission
    BY <1>3, <1>1 DEF SaveAttemptFails, Release, Forget, Trouble, Patch, MoveReply,
      ReconcileEnds, BeginAdmission, zulip, shared, workers, JobStep, States, LoopSaveFails
  <1>4. CASE SaveAdmission \/ SubmitEnds
    BY <1>4, <1>1 DEF SaveAdmission, EndAdmission, Undo, Trouble, SubmitEnds, zulip, shared,
      workers, JobStep, States
  <1>5. ASSUME NEW m \in Msgs,
              Finish(m) \/ FinishLater(m) \/ TakeJob(m) \/ Resolve(m) \/ ResolveClaim(m)
       PROVE  G
    BY <1>5, <1>1 DEF Finish, Go, TakeJob, Heard, Resolve, ResolveClaim, SetRegistry, Reserve,
      Forget, zulip, shared, mains, workers, JobStep, States, FinishLater, Retired, Trouble
  <1>6. ASSUME NEW m \in Msgs,
              ResolveLater(m) \/ Activate(m) \/ Ignore(m) \/ MentionFails(m) \/
              NoteAdmitted(m) \/ NoteAdmittedFails(m) \/ Submit(m)
       PROVE  G
    BY <1>6, <1>1 DEF ResolveLater, Go, Forget, Trouble, NoteAdmitted, NoteAdmittedFails, Undo,
      EndAdmission, NoteFails, Submit, zulip, shared, mains, JobStep, States, Activate, Ignore,
      MentionFails, NextMessage, Release
  <1>7. ASSUME NEW m \in Msgs,
              Steer(m) \/ SteerFails(m) \/ Refresh(m) \/ Look(m) \/ Claim(m)
       PROVE  G
    BY <1>7, <1>1 DEF Steer, Go, Refresh, Look, LookAt, Claim, ClaimRoute, Reserve, Forget,
      zulip, shared, mains, JobStep, States, SteerFails, Steered, Trouble
  <1>8. ASSUME NEW m \in Msgs,
              NotReady(m) \/ Launch(m) \/ LaunchFails(m) \/ Answers(m) \/ Errs(m)
       PROVE  G
    BY <1>8, <1>1 DEF NotReady, Release, Go, Trouble, Launch, Answers, Errs, zulip, shared,
      mains, JobStep, States, LaunchFails
  <1>9. ASSUME NEW m \in Msgs, Fetch(m) \/ ReplyLook(m) \/ ReplyClaim(m) \/ Post(m) PROVE G
    BY <1>9, <1>1 DEF Fetch, Go, Heard, ReplyLook, LookAt, ReplyClaim, ClaimRoute, Reserve,
      Forget, Post, zulip, shared, mains, JobStep, States
  <1>10. ASSUME NEW m \in Msgs,
              PostFails(m) \/ PublishFails(m) \/ SaveReply(m) \/ SaveReplyFails(m)
       PROVE  G
    BY <1>10, <1>1 DEF PostFails, Release, Go, Trouble, PublishFails, NoteFails, SaveReply,
      zulip, mains, JobStep, States, SaveReplyFails
  <1>11. ASSUME NEW M \in SUBSET Msgs, FetchPage(M) PROVE G
    BY <1>11, <1>1 DEF FetchPage, zulip, shared, JobStep, States
  <1>12. ASSUME NEW m \in Msgs, NEW t \in Topics, PostMessage(m, t) PROVE G
    BY <1>12, <1>1 DEF PostMessage, shared, mains, workers, JobStep, States
  <1>13. ASSUME NEW m \in Msgs, NEW t \in Places, MoveMessage(m, t) PROVE G
    BY <1>13, <1>1 DEF MoveMessage, Trouble, shared, mains, workers, JobStep, States
  <1>14. ASSUME NEW t \in Topics, NEW u \in Topics, Rename(t, u) PROVE G
    BY <1>14, <1>1 DEF Rename, Trouble, shared, mains, workers, JobStep, States
  <1>15. CASE MoveClaim
    <2>1. Continues(Tried(job, target), job) /\ pc \in RecPcs
      <3>1. job \in Jobs /\ target \in Topics
        BY <1>15 DEF Types, MainOK, ViewsOK, MoveClaim, RecPcs
      <3>. QED
        BY <1>15, <3>1, TriedFacts DEF Continues, MoveClaim, RecPcs
    <2>2. \A n \in Msgs : \/ mem'.jobs[n] \in {mem.jobs[n], NoJob}
                          \/ n = cur /\ mem'.jobs[n] = Tried(job, target)
      BY <1>15, <1>1 DEF MoveClaim, JobEnds, States
    <2>. QED
      BY <2>1, <2>2 DEF JobStep
  <1>16. CASE PatchFails
    <2>1. pc \in RecPcs /\ job \in Jobs
      BY <1>16 DEF PatchFails, RecPcs, Types, MainOK
    <2>2. \A n \in Msgs : JobStep(n, Rescheduled.jobs[n])
      <3>1. Continues([job EXCEPT !.attempts = job.attempts + 1], job)
        BY <2>1 DEF Jobs, Continues
      <3>. QED
        BY <2>1, <3>1, RescheduledFacts DEF JobStep
    <2>3. mem' = Rescheduled \/ JobEnds
      BY <1>16 DEF PatchFails
    <2>4. CASE JobEnds
      BY <1>1, <2>4 DEF JobEnds, JobStep, States
    <2>. QED
      BY <2>2, <2>3, <2>4
  <1>17. CASE ReconcileLater
    <2>1. pc \in RecPcs /\ job \in Jobs
      BY <1>17 DEF ReconcileLater, RecPcs, Types, MainOK
    <2>2. \A n \in Msgs : JobStep(n, Rescheduled.jobs[n])
      <3>1. Continues([job EXCEPT !.attempts = job.attempts + 1], job)
        BY <2>1 DEF Jobs, Continues
      <3>. QED
        BY <2>1, <3>1, RescheduledFacts DEF JobStep
    <2>3. mem' = Rescheduled \/ JobEnds
      BY <1>17 DEF ReconcileLater
    <2>4. CASE JobEnds
      BY <1>1, <2>4 DEF JobEnds, JobStep, States
    <2>. QED
      BY <2>2, <2>3, <2>4
  <1>18. CASE PublishRoute
    BY <1>18, <1>1 DEF PublishRoute, Release, NextJob, Forget, zulip, workers, JobStep, States
  <1>19. CASE PublishRouteFails
    BY <1>19, <1>1 DEF PublishRouteFails, JobEnds, Release, NextJob, Forget, NoteFails, Trouble,
      zulip, workers, JobStep, States
  <1>20. CASE Crash
    BY <1>20, <1>1, RecoveredFacts DEF Crash, JobStep
  <1>21. ASSUME NEW m \in Msgs, Publish(m) PROVE G
    <2>1. mem' = [mem EXCEPT !.reg = Note(@, conv[m]), !.jobs[m] = JobOf(conv[m])]
      BY <1>21 DEF Publish, JobOf
    <2>2. \A n \in Msgs : mem'.jobs[n] = IF n = m THEN JobOf(conv[m]) ELSE mem.jobs[n]
      BY <1>1, <2>1 DEF States
    <2>. QED
      BY <1>21, <2>2 DEF JobStep
  <1>. QED
    BY <1>2, <1>3, <1>4, <1>5, <1>6, <1>7, <1>8, <1>9, <1>10, <1>11, <1>12, <1>13, <1>14, <1>15,
      <1>16, <1>17, <1>18, <1>19, <1>20, <1>21
      DEF Next, MainNext, WorkerNext, Users

JobTaken ==
    \/ job' \in {job, NoJob} /\ pc' \notin RecPcs
    \/ UNCHANGED <<job, cur>> /\ (pc' \in RecPcs => pc \in RecPcs)
    \/ pc \in RecPcs /\ UNCHANGED cur /\ Continues(job', job)
    \/ \E m \in Msgs : job' = mem.jobs[m] /\ job' # NoJob /\ cur' = m
                       /\ JobIsOwned(m) /\ mem' = mem /\ pc' = "sent"

\* The job under reconciliation is one of the list, after some attempts.
LEMMA JobTakenSteps ==
    ASSUME Types, Next
    PROVE  JobTaken
  <1>1. CASE FinishEnds \/ CheckSent \/ StayClaim \/ SaveAttempt
            \/ SaveAttemptFails
    BY <1>1 DEF FinishEnds, CheckSent, JobEnds, NextJob, Forget, LookAt, StayClaim, SaveAttempt,
      SaveAttemptFails, Release, Trouble, zulip, shared, workers, JobTaken, RecPcs
  <1>2. CASE Patch \/ PatchFails \/ ReconcileLater \/ PublishRoute
            \/ PublishRouteFails
    BY <1>2 DEF Patch, MoveReply, PatchFails, JobEnds, Release, NextJob, Forget, Trouble,
      ReconcileLater, PublishRoute, PublishRouteFails, NoteFails, zulip, shared, workers,
      JobTaken, RecPcs
  <1>3. CASE ReconcileEnds \/ LoopSaveFails \/ BeginAdmission \/ SaveAdmission \/ SubmitEnds
            \/ Crash
    BY <1>3 DEF ReconcileEnds, BeginAdmission, SaveAdmission, EndAdmission, Undo, Trouble,
      SubmitEnds, Crash, zulip, shared, workers, JobTaken, RecPcs, LoopSaveFails
  <1>4. ASSUME NEW m \in Msgs,
              Finish(m) \/ FinishLater(m) \/ Resolve(m) \/ ResolveClaim(m) \/
              ResolveLater(m) \/ Activate(m) \/ Ignore(m) \/ MentionFails(m) \/
              NoteAdmitted(m)
       PROVE  JobTaken
    BY <1>4 DEF Finish, Go, Resolve, ResolveClaim, SetRegistry, Reserve, Forget, ResolveLater,
      Trouble, NoteAdmitted, zulip, shared, mains, workers, JobTaken, RecPcs, Activate, Ignore,
      MentionFails, NextMessage, Release, FinishLater, Retired
  <1>5. ASSUME NEW m \in Msgs,
              NoteAdmittedFails(m) \/ Submit(m) \/ Steer(m) \/ SteerFails(m) \/ Refresh(m) \/
              Look(m)
       PROVE  JobTaken
    BY <1>5 DEF NoteAdmittedFails, Undo, EndAdmission, NoteFails, Trouble, Submit, Go, Steer,
      Refresh, Look, LookAt, zulip, shared, mains, JobTaken, RecPcs, SteerFails, Steered
  <1>6. ASSUME NEW m \in Msgs,
              Claim(m) \/ NotReady(m) \/ Launch(m) \/ LaunchFails(m) \/ Answers(m) \/
              Errs(m)
       PROVE  JobTaken
    BY <1>6 DEF Claim, ClaimRoute, Reserve, Go, Forget, NotReady, Release, Trouble, Launch,
      Answers, Errs, zulip, shared, mains, JobTaken, RecPcs, LaunchFails
  <1>7. ASSUME NEW m \in Msgs,
              Fetch(m) \/ ReplyLook(m) \/ ReplyClaim(m) \/ Post(m) \/
              PostFails(m)
       PROVE  JobTaken
    BY <1>7 DEF Fetch, Go, Heard, ReplyLook, LookAt, ReplyClaim, ClaimRoute, Reserve, Forget,
      Post, PostFails, Release, Trouble, zulip, shared, mains, JobTaken, RecPcs
  <1>8. ASSUME NEW m \in Msgs,
              Publish(m) \/ PublishFails(m) \/ SaveReply(m) \/ SaveReplyFails(m)
       PROVE  JobTaken
    BY <1>8 DEF Publish, Go, PublishFails, Release, NoteFails, Trouble, SaveReply, zulip, mains,
      JobTaken, RecPcs, SaveReplyFails
  <1>9. ASSUME NEW M \in SUBSET Msgs, FetchPage(M) PROVE JobTaken
    BY <1>9 DEF FetchPage, zulip, shared, JobTaken, RecPcs
  <1>10. ASSUME NEW m \in Msgs, NEW t \in Topics, PostMessage(m, t) PROVE JobTaken
    BY <1>10 DEF PostMessage, shared, mains, workers, JobTaken, RecPcs
  <1>11. ASSUME NEW m \in Msgs, NEW t \in Places, MoveMessage(m, t) PROVE JobTaken
    BY <1>11 DEF MoveMessage, Trouble, shared, mains, workers, JobTaken, RecPcs
  <1>12. ASSUME NEW t \in Topics, NEW u \in Topics, Rename(t, u) PROVE JobTaken
    BY <1>12 DEF Rename, Trouble, shared, mains, workers, JobTaken, RecPcs
  <1>13. CASE MoveClaim
    <2>1. Continues(Tried(job, target), job) /\ pc \in RecPcs
      <3>1. job \in Jobs /\ target \in Topics
        BY <1>13 DEF Types, MainOK, ViewsOK, MoveClaim, RecPcs
      <3>. QED
        BY <1>13, <3>1, TriedFacts DEF Continues, MoveClaim, RecPcs
    <2>. QED
      BY <1>13, <2>1 DEF MoveClaim, NextJob, JobTaken, RecPcs
  <1>14. ASSUME NEW m \in Msgs, TakeJob(m) PROVE JobTaken
    <2>1. JobIsOwned(m) => mem.jobs[m] # NoJob
      BY ThreadFacts DEF JobIsOwned, Known, NoJob
    <2>. QED
      BY <1>14, <2>1 DEF TakeJob, JobTaken, RecPcs
  <1>. QED
    BY <1>1, <1>2, <1>3, <1>4, <1>5, <1>6, <1>7, <1>8, <1>9, <1>10, <1>11, <1>12, <1>13, <1>14
      DEF Next, MainNext, WorkerNext, Users

\* The conversations after a step: a turn takes what the resolution saw, and Hermes
\* gives a new session to the thread y.
ConvStep(m, y) ==
    \/ conv'[m].sess = NoSession
    \/ conv'[m].thread = conv[m].thread /\ conv'[m].sess = conv[m].sess
    \/ conv'[m].thread = view[Main].owner.thread /\ conv'[m].sess = view[Main].owner.sess
    \/ conv'[m].thread = y /\ conv'[m].sess = sessions + 1 /\ sessions' = sessions + 1

ConvSteps ==
    /\ sessions' \in {sessions, sessions + 1}
    /\ \E y : \A m \in Msgs : ConvStep(m, y)

\* No step changes a conversation in another way.
LEMMA ConvFacts ==
    ASSUME Types, Next
    PROVE  ConvSteps
  <1>1. conv \in [Msgs -> Conversations \cup {NoConv}]
    BY DEF Types, TurnsOK
  <1>2. NoConv.sess = NoSession
    BY DEF NoConv
  <1>3. CASE FinishEnds \/ CheckSent \/ StayClaim \/ MoveClaim
    BY <1>3, <1>1, <1>2 DEF FinishEnds, CheckSent, JobEnds, NextJob, Forget, LookAt, StayClaim,
      MoveClaim, Reserve, zulip, shared, workers, ConvStep, ConvSteps
  <1>4. CASE SaveAttempt \/ SaveAttemptFails \/ Patch \/ PatchFails
    BY <1>4, <1>1, <1>2 DEF SaveAttempt, SaveAttemptFails, Release, Forget, Trouble, Patch,
      MoveReply, PatchFails, JobEnds, NextJob, zulip, shared, workers, ConvStep, ConvSteps
  <1>5. CASE ReconcileLater \/ PublishRoute \/ PublishRouteFails \/ ReconcileEnds \/ LoopSaveFails
    BY <1>5, <1>1, <1>2 DEF ReconcileLater, NextJob, Forget, Trouble, PublishRoute, Release,
      PublishRouteFails, JobEnds, NoteFails, ReconcileEnds, zulip, shared, workers, ConvStep,
      ConvSteps, LoopSaveFails
  <1>6. CASE BeginAdmission \/ SaveAdmission \/ SubmitEnds \/ Crash
    BY <1>6, <1>1, <1>2 DEF BeginAdmission, SaveAdmission, EndAdmission, Undo, Trouble,
      SubmitEnds, Crash, zulip, shared, workers, ConvStep, ConvSteps
  <1>7. ASSUME NEW m \in Msgs,
              Finish(m) \/ FinishLater(m) \/ TakeJob(m) \/ Resolve(m) \/ ResolveLater(m) \/
              Activate(m) \/ Ignore(m) \/ MentionFails(m)
        PROVE  ConvSteps
    BY <1>7, <1>1, <1>2 DEF Finish, Go, TakeJob, Heard, Resolve, ResolveLater, Forget, Trouble,
      zulip, shared, mains, workers, ConvStep, ConvSteps, Activate, Ignore, MentionFails,
      NextMessage, Release, FinishLater, Retired
  <1>8. ASSUME NEW m \in Msgs,
              NoteAdmitted(m) \/ NoteAdmittedFails(m) \/ Submit(m) \/ Steer(m) \/ SteerFails(m)
       PROVE  ConvSteps
    BY <1>8, <1>1, <1>2 DEF NoteAdmitted, Go, NoteAdmittedFails, Undo, EndAdmission, NoteFails,
      Trouble, Submit, Steer, zulip, shared, mains, ConvStep, ConvSteps, SteerFails, Steered
  <1>9. ASSUME NEW m \in Msgs, Refresh(m) \/ Look(m) \/ Claim(m) \/ NotReady(m) PROVE ConvSteps
    BY <1>9, <1>1, <1>2 DEF Refresh, Go, Look, LookAt, Claim, ClaimRoute, Reserve, Forget,
      NotReady, Release, Trouble, zulip, shared, mains, ConvStep, ConvSteps
  <1>10. ASSUME NEW m \in Msgs,
              Launch(m) \/ LaunchFails(m) \/ Errs(m) \/ Fetch(m) \/ ReplyLook(m)
       PROVE  ConvSteps
    BY <1>10, <1>1, <1>2 DEF Launch, Release, Go, Errs, Trouble, Fetch, Heard, ReplyLook,
      LookAt, zulip, shared, mains, ConvStep, ConvSteps, LaunchFails
  <1>11. ASSUME NEW m \in Msgs, Post(m) \/ PostFails(m) \/ Publish(m) \/ PublishFails(m)
         PROVE  ConvSteps
    BY <1>11, <1>1, <1>2 DEF Post, Go, PostFails, Release, Trouble, Publish, PublishFails,
      NoteFails, zulip, shared, mains, ConvStep, ConvSteps
  <1>12. ASSUME NEW m \in Msgs, SaveReply(m) \/ SaveReplyFails(m) PROVE ConvSteps
    BY <1>12, <1>1, <1>2 DEF SaveReply, Release, Go, zulip, mains, ConvStep, ConvSteps,
      SaveReplyFails, Trouble
  <1>13. ASSUME NEW m \in Msgs, NEW t \in Topics, PostMessage(m, t) PROVE ConvSteps
    BY <1>13, <1>1, <1>2 DEF PostMessage, shared, mains, workers, ConvStep, ConvSteps
  <1>14. ASSUME NEW m \in Msgs, NEW t \in Places, MoveMessage(m, t) PROVE ConvSteps
    BY <1>14, <1>1, <1>2 DEF MoveMessage, Trouble, shared, mains, workers, ConvStep, ConvSteps
  <1>15. ASSUME NEW t \in Topics, NEW u \in Topics, Rename(t, u) PROVE ConvSteps
    BY <1>15, <1>1, <1>2 DEF Rename, Trouble, shared, mains, workers, ConvStep, ConvSteps
  <1>16. ASSUME NEW M \in SUBSET Msgs, FetchPage(M) PROVE ConvSteps
    <2>1. \A m \in M : [NoConv EXCEPT !.msg = m, !.topic = where[m]].sess = NoSession
      BY DEF NoConv, NoSession
    <2>2. sessions' = sessions /\ (\A n \in Msgs : ConvStep(n, 0))
      BY <1>16, <1>1, <2>1 DEF FetchPage, ConvStep
    <2>. QED
      BY <2>2 DEF ConvSteps
  <1>17. ASSUME NEW m \in Msgs, ResolveClaim(m) PROVE ConvSteps
    <2>1. CASE UNCHANGED conv
      BY <1>17, <2>1 DEF ResolveClaim, ConvStep, ConvSteps
    <2>2. CASE conv' = [conv EXCEPT ![m].thread = view[Main].owner.thread, ![m].sess = view[Main].owner.sess]
      <3>1. conv[m] \in Conversations
        BY <1>17 DEF ResolveClaim, Types, MainOK, TurnsOK
      <3>2. conv'[m].thread = view[Main].owner.thread /\ conv'[m].sess = view[Main].owner.sess
        BY <1>1, <2>2, <3>1 DEF Conversations
      <3>3. sessions' = sessions /\ (\A n \in Msgs : ConvStep(n, 0))
        BY <1>17, <1>1, <2>2, <3>2 DEF ResolveClaim, ConvStep
      <3>. QED
        BY <3>3 DEF ConvSteps
    <2>. QED
      BY <1>17, <2>1, <2>2 DEF ResolveClaim
  <1>18. ASSUME NEW m \in Msgs, Answers(m) PROVE ConvSteps
    <2>1. sessions' \in {sessions, sessions + 1} /\ (\A n \in Msgs : ConvStep(n, conv[m].thread))
      <3>1. CASE UNCHANGED <<conv, sessions>>
        BY <3>1 DEF ConvStep
      <3>2. CASE sessions' = sessions + 1 /\ conv' = [conv EXCEPT ![m].sess = sessions']
        <4>1. step[m] = "run"
          BY <1>18 DEF Answers
        <4>2. conv[m] \in Conversations
          BY <4>1 DEF Types, TurnsOK
        <4>3. conv'[m].thread = conv[m].thread /\ conv'[m].sess = sessions + 1
          BY <1>1, <3>2, <4>2 DEF Conversations
        <4>. QED
          BY <1>1, <3>2, <4>3 DEF ConvStep
      <3>. QED
        BY <1>18, <3>1, <3>2 DEF Answers
    <2>. QED
      BY <2>1 DEF ConvSteps
  <1>19. ASSUME NEW m \in Msgs, ReplyClaim(m) PROVE ConvSteps
    <2>1. conv[m] \in Conversations
      BY <1>19 DEF ReplyClaim, Types, TurnsOK
    <2>2. conv'[m].thread = conv[m].thread /\ conv'[m].sess = conv[m].sess
      BY <1>19, <1>1, <2>1 DEF ReplyClaim, Conversations
    <2>3. sessions' = sessions /\ (\A n \in Msgs : ConvStep(n, 0))
      BY <1>19, <1>1, <2>2 DEF ReplyClaim, ClaimRoute, ConvStep
    <2>. QED
      BY <2>3 DEF ConvSteps
  <1>. QED
    BY <1>3, <1>4, <1>5, <1>6, <1>7, <1>8, <1>9, <1>10, <1>11, <1>12, <1>13, <1>14, <1>15,
      <1>16, <1>17, <1>18, <1>19
      DEF Next, MainNext, WorkerNext, Users

\* No note, expiry or rollback gives a session to a thread that had no claim on it.
LEMMA StateClaimsStep ==
    ASSUME Types, Next, NEW x \in Threads, NEW s \in Sessions
    PROVE  /\ StateClaims(mem', x, s) => Claimed(x, s)
           /\ StateClaims(disk', x, s) => Claimed(x, s)
           /\ StateClaims(saved'.mem, x, s) => Claimed(x, s)
  <1>1. /\ RegistryOK(mem.reg) /\ s # NoSession
        /\ pc \in RecPcs \cup {"claim", "mention"} => cur \in Msgs
    BY SessionFacts DEF Types, StatesOK, MainOK, Good
  <1>2. \A c \in Carried : c.thread = x /\ c.sess = s => Claimed(x, s)
    BY DEF Carried, JobConversation, Claimed, TurnClaims, JobClaims
  <1>3. ASSUME mem'.reg.sess[x] = s PROVE Claimed(x, s)
    <2>1. CASE mem'.reg \in {mem.reg, saved.mem.reg, disk.reg}
      BY <1>3, <2>1 DEF Claimed, StateClaims
    <2>2. CASE pc = "claim" /\ mem'.reg = Cleared
      <3>1. target \in Topics
        BY <2>2 DEF Types, ViewsOK
      <3>2. Expire(mem.reg, target, view[Main].stale).sess = mem.reg.sess
        BY <1>1, <3>1, ExpireFacts
      <3>3. mem'.reg.sess = mem.reg.sess
        BY <2>2, <3>2 DEF Cleared
      <3>. QED
        BY <1>3, <3>3 DEF Claimed, StateClaims
    <2>3. ASSUME NEW c \in Carried, CanNoteThread(mem.reg, rsv, c), mem'.reg = NoteThread(mem.reg, c)
          PROVE  Claimed(x, s)
      <3>1. c \in Conversations /\ c.thread \in Threads
        BY DEF Carried
      <3>2. \A z \in Threads : \/ NoteThread(mem.reg, c).sess[z] = mem.reg.sess[z]
                               \/ z = c.thread /\ NoteThread(mem.reg, c).sess[z] = c.sess
        BY <1>1, <2>3, <3>1, NoteThreadFacts
      <3>. QED
        BY <1>2, <1>3, <2>3, <3>2 DEF Claimed, StateClaims
    <2>4. ASSUME NEW c \in Carried, CanNote(mem.reg, rsv, c), mem'.reg = Note(mem.reg, c)
          PROVE  Claimed(x, s)
      <3>1. c \in Conversations /\ c.thread \in Threads
        BY DEF Carried
      <3>2. NoteEffect(mem.reg, c, mem'.reg)
        BY <1>1, <2>4, <3>1, NoteFacts
      <3>3. \A z \in Threads : mem'.reg.sess[z] = mem.reg.sess[z] \/ (z = c.thread /\ mem'.reg.sess[z] = c.sess)
        BY <3>2 DEF NoteEffect
      <3>. QED
        BY <1>2, <1>3, <3>3 DEF Claimed, StateClaims
    <2>. QED
      BY <2>1, <2>2, <2>3, <2>4, RegistrySteps DEF RegistryStep
  <1>4. ASSUME NEW n \in Msgs, mem'.jobs[n].thread = x, mem'.jobs[n].sess = s
        PROVE  Claimed(x, s)
    <2>1. JobStep(n, mem'.jobs[n])
      BY JobsSteps
    <2>2. mem'.jobs[n] # NoJob
      BY <1>1, <1>4 DEF NoJob
    <2>. QED
      BY <1>4, <2>1, <2>2 DEF JobStep, Continues, JobOf, Claimed, StateClaims, TurnClaims,
        JobClaims
  <1>5. StateClaims(mem', x, s) => Claimed(x, s)
    BY <1>3, <1>4 DEF StateClaims
  <1>6. StateClaims(disk', x, s) => Claimed(x, s)
    BY <1>5, FileFacts DEF Claimed, StateClaims
  <1>7. ~ StateClaims(EmptyState, x, s)
    BY <1>1 DEF StateClaims, EmptyState, EmptyRegistry, NoJob
  <1>8. StateClaims(saved'.mem, x, s) => Claimed(x, s)
    <2>1. saved'.mem \in {saved.mem, mem, EmptyState}
      BY CopySteps
    <2>. QED
      BY <1>7, <2>1 DEF Claimed
  <1>. QED
    BY <1>5, <1>6, <1>8

\* The job under reconciliation claims what a job of the state claimed.
LEMMA JobClaimsStep ==
    ASSUME Types, Next, NEW x \in Threads, NEW s \in Sessions, JobClaims(x, s)'
    PROVE  Claimed(x, s)
  <1>1. NoJob.sess = NoSession /\ s # NoSession
    BY SessionFacts DEF NoJob
  <1>. QED
    BY <1>1, JobTakenSteps DEF JobTaken, Continues, JobClaims, Claimed, StateClaims

\* What an actor sees of a session is what the registry or its conversation has.
LEMMA ViewClaimsStep ==
    ASSUME Types, NamesOwned, Next, NEW x \in Threads, NEW s \in Sessions, ViewClaims(x, s)'
    PROVE  Claimed(x, s)
  <1>1. /\ RegistryOK(mem.reg) /\ Backed(mem.reg) /\ s # NoSession
        /\ view \in [Actors -> Views]
    BY SessionFacts DEF Types, StatesOK, Good, NamesOwned, ViewsOK, Actors
  <1>2. NoOwner.sess = NoSession /\ NoView.owner.sess = NoSession
    BY DEF NoOwner, NoView
  <1>3. PICK a \in Actors : view'[a].owner.thread = x /\ view'[a].owner.sess = s
    BY DEF ViewClaims
  <1>4. CASE view'[a] \in {view[a], NoView}
    BY <1>1, <1>2, <1>3, <1>4 DEF Claimed, ViewClaims
  <1>5. ASSUME NEW t \in Topics, view'[a] = [view[a] EXCEPT !.topic = t] PROVE Claimed(x, s)
    <2>1. view'[a].owner = view[a].owner
      BY <1>1, <1>5 DEF Views
    <2>. QED
      BY <1>3, <2>1 DEF Claimed, ViewClaims
  <1>6. ASSUME NEW c \in Carried, NEW t \in Topics, view'[a] = Looked(c, t) PROVE Claimed(x, s)
    <2>1. c \in Conversations /\ c.thread \in Threads
      BY DEF Carried
    <2>2. /\ view'[a].owner.thread = c.thread
          /\ view'[a].owner.sess = IF c.sess # NoSession THEN c.sess ELSE mem.reg.sess[c.thread]
      BY <1>1, <1>6, <2>1, SourceOwnerFacts DEF Looked
    <2>3. CASE c.thread = x /\ c.sess = s
      BY <2>3 DEF Carried, JobConversation, Claimed, TurnClaims, JobClaims
    <2>4. CASE mem.reg.sess[x] = s
      BY <2>4 DEF Claimed, StateClaims
    <2>. QED
      BY <1>3, <2>2, <2>3, <2>4
  <1>7. ASSUME NEW m \in Msgs, NEW t \in Topics, NEW stale \in Owners, NEW ok \in BOOLEAN,
               ok => CanResolve(mem.reg, where, m, t), view'[a] = HasResolved(m, t, ok, stale)
        PROVE  Claimed(x, s)
    <2>1. ok
      BY <1>1, <1>2, <1>3, <1>7 DEF HasResolved
    <2>. DEFINE c == Resolved(mem.reg, where, m, t)
    <2>2. c.sess = mem.reg.sess[c.thread]
      BY <1>1, <1>7, <2>1, ResolvedFacts
    <2>3. view'[a].owner.thread = c.thread /\ view'[a].owner.sess = c.sess
      BY <1>7, <2>1 DEF HasResolved, OwnerOf
    <2>. HIDE DEF c
    <2>4. mem.reg.sess[x] = s
      BY <1>3, <2>2, <2>3
    <2>. QED
      BY <2>4 DEF Claimed, StateClaims
  <1>. QED
    BY <1>4, <1>5, <1>6, <1>7, ViewSteps DEF ViewStep

\* A step makes at most one new claim: that of a thread on the session that Hermes
\* has just created for it.
LEMMA ClaimsStep ==
    ASSUME Types, NamesOwned, Next
    PROVE  /\ sessions' \in {sessions, sessions + 1}
           /\ \E y : \A x \in Threads, s \in Sessions :
                Claimed(x, s)' => Claimed(x, s) \/ (x = y /\ s = sessions + 1 /\ sessions' = sessions + 1)
  <1>1. PICK y : \A m \in Msgs : ConvStep(m, y)
    BY ConvFacts DEF ConvSteps
  <1>2. Main \in Actors
    BY DEF Actors
  <1>3. ASSUME NEW x \in Threads, NEW s \in Sessions, Claimed(x, s)'
        PROVE  Claimed(x, s) \/ (x = y /\ s = sessions + 1 /\ sessions' = sessions + 1)
    <2>1. ASSUME TurnClaims(x, s)'
          PROVE  Claimed(x, s) \/ (x = y /\ s = sessions + 1 /\ sessions' = sessions + 1)
      <3>1. PICK m \in Msgs : conv'[m].thread = x /\ conv'[m].sess = s
        BY <2>1 DEF TurnClaims
      <3>2. s # NoSession /\ ConvStep(m, y)
        BY <1>1, SessionFacts
      <3>. QED
        BY <1>2, <3>1, <3>2 DEF ConvStep, Claimed, TurnClaims, ViewClaims
    <2>2. (StateClaims(mem, x, s) \/ StateClaims(disk, x, s) \/ StateClaims(saved.mem, x, s))' => Claimed(x, s)
      <3>1. /\ StateClaims(mem, x, s)' => StateClaims(mem', x, s)
            /\ StateClaims(disk, x, s)' => StateClaims(disk', x, s)
            /\ StateClaims(saved.mem, x, s)' => StateClaims(saved'.mem, x, s)
        BY DEF StateClaims
      <3>. QED
        BY <3>1, StateClaimsStep
    <2>3. JobClaims(x, s)' => Claimed(x, s)
      BY JobClaimsStep
    <2>4. ViewClaims(x, s)' => Claimed(x, s)
      BY ViewClaimsStep
    <2>. QED
      BY <1>3, <2>1, <2>2, <2>3, <2>4 DEF Claimed
  <1>. QED
    BY <1>3, ConvFacts DEF ConvSteps

\* A session has one thread everywhere, and a new session is new everywhere.
LEMMA OneClaimStep ==
    ASSUME Types, NamesOwned, OneClaim, ClaimsAreOld, Next
    PROVE  OneClaim' /\ ClaimsAreOld'
  <1>1. sessions \in Nat /\ sessions' \in {sessions, sessions + 1}
    BY ClaimsStep DEF Types, TurnsOK
  <1>2. PICK y : \A x \in Threads, s \in Sessions :
            Claimed(x, s)' => Claimed(x, s) \/ (x = y /\ s = sessions + 1 /\ sessions' = sessions + 1)
    BY ClaimsStep
  <1>3. \A s \in Sessions : s \in Nat
    BY SessionFacts
  <1>4. OneClaim'
    <2>. SUFFICES ASSUME NEW s \in Sessions, NEW x \in Threads, NEW z \in Threads,
                         Claimed(x, s)', Claimed(z, s)'
                  PROVE  x = z
      BY DEF OneClaim
    <2>1. CASE s = sessions + 1
      <3>1. ~ Claimed(x, s) /\ ~ Claimed(z, s)
        BY <1>1, <2>1 DEF ClaimsAreOld
      <3>. QED
        BY <1>2, <3>1
    <2>2. CASE s # sessions + 1
      BY <1>2, <2>2 DEF OneClaim
    <2>. QED
      BY <2>1, <2>2
  <1>5. ClaimsAreOld'
    <2>. SUFFICES ASSUME NEW s \in Sessions, NEW x \in Threads, Claimed(x, s)'
                  PROVE  s <= sessions'
      BY DEF ClaimsAreOld
    <2>1. CASE Claimed(x, s)
      <3>1. s <= sessions
        BY <2>1 DEF ClaimsAreOld
      <3>. QED
        BY <1>1, <1>3, <3>1
    <2>2. CASE s = sessions + 1 /\ sessions' = sessions + 1
      BY <1>1, <2>2
    <2>. QED
      BY <1>2, <2>1, <2>2
  <1>. QED
    BY <1>4, <1>5

\* What is left over stays so.
LEMMA LeftoverSteps ==
    ASSUME Next
    PROVE  leftover \subseteq leftover'
  <1>1. CASE MainNext
    <2>1. CASE FinishEnds \/ CheckSent \/ StayClaim \/ MoveClaim \/ SaveAttempt \/ SaveAttemptFails
               \/ Patch \/ PatchFails \/ ReconcileLater \/ PublishRoute \/ PublishRouteFails
               \/ ReconcileEnds \/ LoopSaveFails \/ BeginAdmission \/ SaveAdmission \/ SubmitEnds
      BY <2>1 DEF FinishEnds, CheckSent, StayClaim, MoveClaim, SaveAttempt, SaveAttemptFails,
        Patch, PatchFails, ReconcileLater, PublishRoute, PublishRouteFails, ReconcileEnds,
        LoopSaveFails, BeginAdmission, SaveAdmission, SubmitEnds
    <2>2. ASSUME NEW m \in Msgs,
                 Finish(m) \/ FinishLater(m) \/ TakeJob(m) \/ Resolve(m) \/ ResolveClaim(m)
                 \/ ResolveLater(m) \/ Activate(m) \/ Ignore(m) \/ MentionFails(m)
                 \/ NoteAdmitted(m) \/ NoteAdmittedFails(m) \/ Submit(m) \/ Steer(m) \/ SteerFails(m)
          PROVE  leftover \subseteq leftover'
      BY <2>2 DEF Finish, FinishLater, TakeJob, Resolve, ResolveClaim, ResolveLater, Activate,
        Ignore, MentionFails, NoteAdmitted, NoteAdmittedFails, Submit, Steer, SteerFails
    <2>3. ASSUME NEW M \in SUBSET Msgs, FetchPage(M) PROVE leftover \subseteq leftover'
      BY <2>3 DEF FetchPage
    <2>. QED
      BY <1>1, <2>1, <2>2, <2>3 DEF MainNext
  <1>2. ASSUME NEW m \in Msgs, WorkerNext(m) PROVE leftover \subseteq leftover'
    BY <1>2 DEF WorkerNext, Refresh, Look, Claim, ClaimRoute, NotReady, Launch, LaunchFails,
      Answers, Errs, Fetch, ReplyLook, ReplyClaim, Post, PostFails, Publish, PublishFails,
      SaveReply, SaveReplyFails
  <1>3. CASE Users \/ Crash
    BY <1>3 DEF Users, PostMessage, MoveMessage, Rename, Crash
  <1>. QED
    BY <1>1, <1>2, <1>3 DEF Next

\* More may be left over.
LEMMA NamesWeaken ==
    ASSUME NEW reg, NEW L, NEW M, NamesAreOwned(reg, L), L \subseteq M
    PROVE  NamesAreOwned(reg, M)
  BY DEF NamesAreOwned

\* A session that a name is claimed for stays that of its thread.
LEMMA NamesStep ==
    ASSUME Types, NamesOwned, Next
    PROVE  NamesOwned'
  <1>. DEFINE OK(reg) == NamesAreOwned(reg, leftover') /\ Backed(reg)
  <1>1. RegistryOK(mem.reg) /\ NamesAreOwned(mem.reg, leftover) /\ Backed(mem.reg)
    BY DEF Types, StatesOK, Good, NamesOwned
  <1>2. OK(mem.reg) /\ OK(disk.reg) /\ OK(saved.mem.reg)
    BY LeftoverSteps, NamesWeaken DEF NamesOwned
  <1>3. OK(mem'.reg)
    <2>1. CASE mem'.reg \in {mem.reg, saved.mem.reg, disk.reg}
      BY <1>2, <2>1
    <2>2. CASE /\ pc = "claim" /\ mem'.reg = Cleared
               /\ leftover' = leftover \cup
                    (IF Cleared = mem.reg THEN {} ELSE Leftovers(mem.reg, target, view[Main].stale))
      <3>. DEFINE stale == view[Main].stale
      <3>1. target \in Topics
        BY <2>2 DEF Types, ViewsOK
      <3>2. CASE Unchanged /\ stale # NoOwner /\ Cleared # mem.reg
        <4>1. StoredOwner(mem.reg, target) = stale /\ ClaimsAgree(mem.reg, target)
          BY <3>2 DEF Unchanged
        <4>. DEFINE new == Expire(mem.reg, target, stale)
        <4>2. Backed(new) /\ NamesAreOwned(new, leftover \cup Leftovers(mem.reg, target, stale))
          BY <1>1, <3>1, <4>1, ExpireFacts
        <4>3. mem'.reg = new /\ leftover' = leftover \cup Leftovers(mem.reg, target, stale)
          BY <2>2, <3>2 DEF Cleared
        <4>. QED
          BY <4>2, <4>3
      <3>3. CASE ~ (Unchanged /\ stale # NoOwner /\ Cleared # mem.reg)
        BY <1>2, <2>2, <3>3 DEF Cleared
      <3>. QED
        BY <3>2, <3>3
    <2>3. ASSUME NEW c \in Carried, CanNoteThread(mem.reg, rsv, c), mem'.reg = NoteThread(mem.reg, c)
          PROVE  OK(mem'.reg)
      <3>1. NoteEffect(mem.reg, c, NoteThread(mem.reg, c))
        BY <1>1, <2>3, NoteThreadEffect DEF Carried
      <3>. QED
        BY <1>2, <2>3, <3>1 DEF NoteEffect
    <2>4. ASSUME NEW c \in Carried, CanNote(mem.reg, rsv, c), mem'.reg = Note(mem.reg, c)
          PROVE  OK(mem'.reg)
      <3>1. NoteEffect(mem.reg, c, Note(mem.reg, c))
        BY <1>1, <2>4, NoteFacts DEF Carried
      <3>. QED
        BY <1>2, <2>4, <3>1 DEF NoteEffect
    <2>. QED
      BY <2>1, <2>2, <2>3, <2>4, RegistrySteps DEF RegistryStep
  <1>4. OK(disk'.reg)
    BY <1>2, <1>3, FileFacts
  <1>5. OK(saved'.mem.reg)
    <2>1. OK(EmptyState.reg)
      BY DEF NamesAreOwned, Backed, EmptyState, EmptyRegistry
    <2>. QED
      BY <1>2, <2>1, CopySteps
  <1>. QED
    BY <1>3, <1>4, <1>5 DEF NamesOwned

\* No topic has claims that disagree, but for what was left over, and no session two threads.
LEMMA OwnersAgreeFromClaims ==
    ASSUME Types, NamesOwned, OneClaim
    PROVE  OwnersAgree
  <1>1. \A st \in {mem, disk} : RegistryOK(st.reg) /\ NamesAreOwned(st.reg, leftover)
    BY DEF Types, StatesOK, Good, NamesOwned
  <1>2. ASSUME NEW st \in {mem, disk}, NEW s \in Sessions, NEW x \in ThreadsOf(st.reg, s),
               NEW y \in ThreadsOf(st.reg, s)
        PROVE  x = y
    <2>1. /\ x \in Threads /\ y \in Threads
          /\ st.reg.sess[x] = s /\ st.reg.sess[y] = s
      BY <1>2 DEF ThreadsOf
    <2>. QED
      BY <2>1 DEF OneClaim, Claimed, StateClaims
  <1>3. ASSUME NEW st \in {mem, disk}, NEW t \in Topics, <<t, st.reg.topicSess[t]>> \notin leftover
        PROVE  ClaimsAgree(st.reg, t)
    <2>. DEFINE reg == st.reg
                a == reg.alias[Name[t]]
    <2>1. a \in Threads \cup {NoThread} /\ \A x \in Threads : reg.sess[x] \in Sessions \cup {NoSession}
      BY <1>1, SessionFacts DEF RegistryOK, Registries
    <2>2. \A s \in SessionClaims(reg, t) : s # NoSession /\ a # NoThread /\ s = reg.sess[a]
      BY <1>1, <1>3 DEF SessionClaims, SessionOf, NamesAreOwned
    <2>3. \A s1, s2 \in SessionClaims(reg, t) : s1 = s2
      BY <2>2
    <2>4. ASSUME NEW s \in SessionClaims(reg, t)
          PROVE  /\ \A x1, x2 \in ThreadsOf(reg, s) : x1 = x2
                 /\ ThreadsOf(reg, s) \subseteq {a}
      <3>1. s \in Sessions /\ a \in ThreadsOf(reg, s)
        BY <2>1, <2>2 DEF ThreadsOf
      <3>. QED
        BY <1>2, <3>1
    <2>. QED
      BY <2>3, <2>4 DEF ClaimsAgree
  <1>. QED
    BY <1>2, <1>3 DEF OwnersAgree

\* Nothing is claimed at the start.
LEMMA ClaimsInit == Init => NamesOwned /\ OneClaim /\ ClaimsAreOld
  <1>. SUFFICES ASSUME Init PROVE NamesOwned /\ OneClaim /\ ClaimsAreOld
    OBVIOUS
  <1>1. NamesOwned
    BY DEF Init, InitMain, NamesOwned, NamesAreOwned, Backed, EmptyState, EmptyRegistry
  <1>2. ASSUME NEW x \in Threads, NEW s \in Sessions PROVE ~ Claimed(x, s)
    <2>1. s # NoSession
      BY SessionFacts
    <2>2. ~ StateClaims(EmptyState, x, s)
      BY <2>1 DEF StateClaims, EmptyState, EmptyRegistry, NoJob
    <2>. QED
      BY <2>1, <2>2 DEF Init, InitMain, Claimed, TurnClaims, JobClaims, ViewClaims, NoConv,
        NoJob, NoView, NoOwner, Actors
  <1>. QED
    BY <1>1, <1>2 DEF OneClaim, ClaimsAreOld

\* A stuttering step claims nothing.
LEMMA ClaimsUnchanged ==
    ASSUME Types, NamesOwned, OneClaim, ClaimsAreOld, UNCHANGED vars
    PROVE  (NamesOwned /\ OneClaim /\ ClaimsAreOld)'
  BY DEF vars, shared, mains, workers, NamesOwned, OneClaim, ClaimsAreOld, Claimed,
    StateClaims, TurnClaims, JobClaims, ViewClaims

\* No note, expiry, rollback, restart or failed save of bridge.py leaves a topic whose claims
\* disagree (_stored_topic_owner would refuse it for good), but for a claim that another
\* spelling of the name had and _expire_stale_topic_owner_unlocked left over; and none
\* leaves a session of two threads, in memory or in the state file.
THEOREM OwnersAlwaysAgree == Spec => []OwnersAgree
  <1>. DEFINE Inv == Types /\ NamesOwned /\ OneClaim /\ ClaimsAreOld
  <1>1. Init => Inv
    BY TypesInit, ClaimsInit
  <1>2. Inv /\ [Next]_vars => Inv'
    <2>1. Inv /\ Next => Inv'
      BY TypesStep, NamesStep, OneClaimStep
    <2>2. Inv /\ UNCHANGED vars => Inv'
      BY TypesStep, ClaimsUnchanged
    <2>. QED
      BY <2>1, <2>2
  <1>3. Inv => OwnersAgree
    BY OwnersAgreeFromClaims
  <1>. QED
    BY <1>1, <1>2, <1>3, PTL DEF Spec

(***************************************************************************)
(* The turns under way.                                                    *)
(***************************************************************************)
TurnsApart ==
    \A m, n \in Msgs :
        step[m] \in TurnSteps /\ step[n] \in TurnSteps /\ m # n => conv[m].thread # conv[n].thread

\* A turn begins with its submission, and keeps its thread to the end.
TurnStep(m) ==
    step'[m] \in TurnSteps =>
        /\ conv'[m].thread = conv[m].thread
        /\ step[m] \in TurnSteps \/ Submit(m)

\* No step begins a turn but its submission.
LEMMA TurnsGoOn ==
    ASSUME Types, Next
    PROVE  \A m \in Msgs : TurnStep(m)
  <1>. DEFINE G == \A n \in Msgs : TurnStep(n)
  <1>1. conv \in [Msgs -> Conversations \cup {NoConv}] /\ step \in [Msgs -> Steps]
    BY DEF Types, TurnsOK
  <1>2. CASE FinishEnds \/ CheckSent \/ StayClaim \/ MoveClaim
    BY <1>2, <1>1 DEF FinishEnds, CheckSent, JobEnds, NextJob, Forget, LookAt, StayClaim,
      MoveClaim, Reserve, zulip, shared, workers, TurnStep, TurnSteps, At, InAdmission
  <1>3. CASE SaveAttempt \/ SaveAttemptFails \/ Patch \/ PatchFails
    BY <1>3, <1>1 DEF SaveAttempt, SaveAttemptFails, Release, Forget, Trouble, Patch, MoveReply,
      PatchFails, JobEnds, NextJob, zulip, shared, workers, TurnStep, TurnSteps, At,
      InAdmission
  <1>4. CASE ReconcileLater \/ PublishRoute \/ PublishRouteFails \/ ReconcileEnds \/ LoopSaveFails
    BY <1>4, <1>1 DEF ReconcileLater, NextJob, Forget, Trouble, PublishRoute, Release,
      PublishRouteFails, JobEnds, NoteFails, ReconcileEnds, zulip, shared, workers, TurnStep,
      TurnSteps, At, InAdmission, LoopSaveFails
  <1>5. CASE BeginAdmission \/ SaveAdmission \/ SubmitEnds \/ Crash
    BY <1>5, <1>1 DEF BeginAdmission, SaveAdmission, EndAdmission, Undo, Trouble, SubmitEnds,
      Crash, zulip, shared, workers, TurnStep, TurnSteps, At, InAdmission
  <1>6. ASSUME NEW m \in Msgs,
              TakeJob(m) \/ Resolve(m) \/ NoteAdmitted(m) \/ Steer(m) \/ SteerFails(m)
       PROVE  G
    BY <1>6, <1>1 DEF TakeJob, Heard, Resolve, NoteAdmitted, Go, Steer, zulip, shared, mains,
      workers, TurnStep, TurnSteps, At, InAdmission, SteerFails, Steered, Trouble
  <1>7. ASSUME NEW m \in Msgs, Refresh(m) \/ Look(m) \/ Claim(m) \/ NotReady(m) PROVE G
    BY <1>7, <1>1 DEF Refresh, Go, Look, LookAt, Claim, ClaimRoute, Reserve, Forget, NotReady,
      Release, Trouble, zulip, shared, mains, TurnStep, TurnSteps, At, InAdmission
  <1>8. ASSUME NEW m \in Msgs,
              Launch(m) \/ LaunchFails(m) \/ Errs(m) \/ Fetch(m) \/ ReplyLook(m)
       PROVE  G
    BY <1>8, <1>1 DEF Launch, Release, Go, Errs, Trouble, Fetch, Heard, ReplyLook, LookAt,
      zulip, shared, mains, TurnStep, TurnSteps, At, InAdmission, LaunchFails
  <1>9. ASSUME NEW m \in Msgs, Post(m) \/ PostFails(m) \/ Publish(m) \/ PublishFails(m) PROVE G
    BY <1>9, <1>1 DEF Post, Go, PostFails, Release, Trouble, Publish, PublishFails, NoteFails,
      zulip, shared, mains, TurnStep, TurnSteps, At, InAdmission
  <1>10. ASSUME NEW m \in Msgs, SaveReply(m) \/ SaveReplyFails(m) PROVE G
    BY <1>10, <1>1 DEF SaveReply, Release, Go, zulip, mains, TurnStep, TurnSteps, At,
      InAdmission, SaveReplyFails, Trouble
  <1>11. ASSUME NEW m \in Msgs, NEW t \in Topics, PostMessage(m, t) PROVE G
    BY <1>11, <1>1 DEF PostMessage, shared, mains, workers, TurnStep, TurnSteps, At,
      InAdmission
  <1>12. ASSUME NEW m \in Msgs, NEW t \in Places, MoveMessage(m, t) PROVE G
    BY <1>12, <1>1 DEF MoveMessage, Trouble, shared, mains, workers, TurnStep, TurnSteps,
      At, InAdmission
  <1>13. ASSUME NEW t \in Topics, NEW u \in Topics, Rename(t, u) PROVE G
    BY <1>13, <1>1 DEF Rename, Trouble, shared, mains, workers, TurnStep, TurnSteps, At,
      InAdmission
  <1>14. ASSUME NEW M \in SUBSET Msgs, FetchPage(M) PROVE G
    BY <1>14, <1>1 DEF FetchPage, zulip, shared, TurnStep, TurnSteps, At, InAdmission
  <1>15. ASSUME NEW m \in Msgs, Finish(m) \/ FinishLater(m) PROVE G
    BY <1>15, <1>1 DEF Finish, Go, zulip, mains, workers, TurnStep, TurnSteps, At, InAdmission,
      FinishLater, Retired, Trouble
  <1>16. ASSUME NEW m \in Msgs, ResolveClaim(m) PROVE G
    BY <1>16, <1>1 DEF ResolveClaim, SetRegistry, Reserve, Go, Forget, zulip, TurnStep,
      TurnSteps, Steps, At, InAdmission
  <1>17. ASSUME NEW m \in Msgs,
              ResolveLater(m) \/ Activate(m) \/ Ignore(m) \/ MentionFails(m)
       PROVE  G
    BY <1>17, <1>1 DEF ResolveLater, Go, Forget, Trouble, zulip, shared, TurnStep, TurnSteps,
      Steps, At, InAdmission, Activate, Ignore, MentionFails, NextMessage, Release
  <1>18. ASSUME NEW m \in Msgs, NoteAdmittedFails(m) PROVE G
    BY <1>18, <1>1 DEF NoteAdmittedFails, Undo, EndAdmission, NoteFails, Trouble, zulip,
      TurnStep, TurnSteps, At, InAdmission
  <1>19. ASSUME NEW m \in Msgs, Submit(m) PROVE G
    BY <1>19, <1>1 DEF Submit, Go, zulip, shared, mains, TurnStep, TurnSteps, At,
      InAdmission
  <1>20. ASSUME NEW m \in Msgs, Answers(m) PROVE G
    <2>1. conv[m] \in Conversations
      BY <1>20 DEF Answers, Types, TurnsOK
    <2>2. conv'[m].thread = conv[m].thread
      BY <1>20, <1>1, <2>1 DEF Answers, Conversations
    <2>. QED
      BY <1>20, <1>1, <2>2 DEF Answers, Go, TurnStep, TurnSteps
  <1>21. ASSUME NEW m \in Msgs, ReplyClaim(m) PROVE G
    <2>1. conv[m] \in Conversations
      BY <1>21 DEF ReplyClaim, Types, TurnsOK
    <2>2. conv'[m].thread = conv[m].thread
      BY <1>21, <1>1, <2>1 DEF ReplyClaim, Conversations
    <2>. QED
      BY <1>21, <1>1, <2>2 DEF ReplyClaim, ClaimRoute, Go, TurnStep, TurnSteps
  <1>. QED
    BY <1>2, <1>3, <1>4, <1>5, <1>6, <1>7, <1>8, <1>9, <1>10, <1>11, <1>12, <1>13, <1>14, <1>15,
      <1>16, <1>17, <1>18, <1>19, <1>20, <1>21
      DEF Next, MainNext, WorkerNext, Users

\* A turn is submitted when its thread has none.
LEMMA TurnsApartStep ==
    ASSUME Types, TurnsApart, Next
    PROVE  TurnsApart'
  <1>. SUFFICES ASSUME NEW m \in Msgs, NEW n \in Msgs, m # n,
                       step'[m] \in TurnSteps, step'[n] \in TurnSteps
                PROVE  conv'[m].thread # conv'[n].thread
    BY DEF TurnsApart
  <1>1. TurnStep(m) /\ TurnStep(n) /\ step \in [Msgs -> Steps]
    BY TurnsGoOn DEF Types, TurnsOK
  <1>2. conv'[m].thread = conv[m].thread /\ conv'[n].thread = conv[n].thread
    BY <1>1 DEF TurnStep
  <1>3. CASE step[m] \in TurnSteps /\ step[n] \in TurnSteps
    BY <1>2, <1>3 DEF TurnsApart
  <1>4. ASSUME NEW a \in Msgs, NEW b \in Msgs, Submit(a), step[b] \in TurnSteps, a # b
        PROVE  conv[a].thread # conv[b].thread
    BY <1>4 DEF Submit, Steers, Active, TurnSteps
  <1>5. ~ (Submit(m) /\ Submit(n))
    BY <1>1 DEF Submit
  <1>. QED
    BY <1>1, <1>2, <1>3, <1>4, <1>5 DEF TurnStep

\* Turns of two threads have two sessions.
LEMMA OneTurnFromClaims ==
    ASSUME Types, OneClaim, TurnsApart
    PROVE  OneTurnPerSession
  <1>. SUFFICES ASSUME NEW m \in UnderWay, NEW n \in UnderWay, m # n
                PROVE  /\ conv[m].thread # conv[n].thread
                       /\ conv[m].sess # NoSession => conv[m].sess # conv[n].sess
    BY DEF OneTurnPerSession
  <1>1. m \in Msgs /\ n \in Msgs /\ step[m] \in TurnSteps /\ step[n] \in TurnSteps
    BY DEF UnderWay, At, TurnSteps
  <1>2. conv[m].thread # conv[n].thread
    BY <1>1 DEF TurnsApart
  <1>3. /\ conv[m].thread \in Threads /\ conv[n].thread \in Threads
        /\ conv[m].sess \in Sessions \cup {NoSession}
    BY <1>1 DEF Types, TurnsOK, Routed, TurnSteps, Conversations
  <1>4. ASSUME conv[m].sess # NoSession, conv[m].sess = conv[n].sess PROVE FALSE
    <2>1. Claimed(conv[m].thread, conv[m].sess) /\ Claimed(conv[n].thread, conv[m].sess)
      BY <1>1, <1>4 DEF Claimed, TurnClaims
    <2>. QED
      BY <1>2, <1>3, <1>4, <2>1 DEF OneClaim
  <1>. QED
    BY <1>2, <1>4

(***************************************************************************)
(* The whereabouts of the replies.                                         *)
(***************************************************************************)
\* The job j knows where the reply to m is, which was posted and is not posted again.
Traced(j, m) ==
    m \in strayed \/ (Found(j, at[m]) /\ at[m] # NoTopic /\ step[m] # "publish")

JobsTraced ==
    \A m \in Msgs : \A st \in {mem, disk, saved.mem} :
        st.jobs[m] # NoJob => Traced(st.jobs[m], m)

\* The attempt is recorded in the job, and in the state file before the PATCH.
AttemptsTraced ==
    /\ pc \in RecPcs => Traced(job, cur)
    /\ pc \in {"recSave", "patch"} => target \in Range(job.tried)
    /\ pc = "patch" /\ Queued => disk.jobs[cur] = job

PostsTraced == \A m \in Msgs : step[m] = "publish" => m \in strayed \/ at[m] = conv[m].topic

\* What changes the place of a reply: its users, its post or the PATCH of its job.
PlaceStep(m) ==
    /\ m \in strayed => m \in strayed'
    /\ \/ m \in strayed'
       \/ at'[m] = at[m] /\ (step'[m] = "publish" => step[m] = "publish" /\ conv'[m].topic = conv[m].topic)
       \/ Post(m)
       \/ /\ pc = "patch" /\ m = cur /\ Queued /\ UNCHANGED step
          /\ at'[m] = target

\* No step moves a reply in another way.
LEMMA PlaceSteps ==
    ASSUME Types, Next
    PROVE  \A m \in Msgs : PlaceStep(m)
  <1>. DEFINE G == \A n \in Msgs : PlaceStep(n)
  <1>1. /\ conv \in [Msgs -> Conversations \cup {NoConv}] /\ step \in [Msgs -> Steps]
        /\ at \in [Msgs -> Topics \cup {NoTopic}]
    BY DEF Types, TurnsOK, PlacesOK
  <1>2. pc \in RecPcs => cur \in Msgs
    BY DEF Types, MainOK
  <1>3. CASE FinishEnds \/ CheckSent \/ StayClaim \/ MoveClaim
    BY <1>3, <1>1 DEF FinishEnds, CheckSent, JobEnds, NextJob, Forget, LookAt, StayClaim,
      MoveClaim, Reserve, zulip, shared, workers, PlaceStep, At, InAdmission
  <1>4. CASE SaveAttempt \/ SaveAttemptFails \/ ReconcileLater \/ PublishRoute
    BY <1>4, <1>1 DEF SaveAttempt, SaveAttemptFails, Release, Forget, Trouble, ReconcileLater,
      NextJob, PublishRoute, zulip, shared, workers, PlaceStep, At, InAdmission
  <1>5. CASE PublishRouteFails \/ ReconcileEnds \/ LoopSaveFails \/ BeginAdmission \/ SaveAdmission
    BY <1>5, <1>1 DEF PublishRouteFails, JobEnds, Release, NextJob, Forget, NoteFails, Trouble,
      ReconcileEnds, BeginAdmission, SaveAdmission, EndAdmission, Undo, zulip, shared, workers,
      PlaceStep, At, InAdmission, LoopSaveFails
  <1>6. CASE SubmitEnds \/ Crash
    BY <1>6, <1>1 DEF SubmitEnds, Crash, Trouble, zulip, shared, workers, PlaceStep, At,
      InAdmission
  <1>7. ASSUME NEW m \in Msgs, TakeJob(m) \/ Resolve(m) \/ NoteAdmitted(m) \/ Submit(m) PROVE G
    BY <1>7, <1>1 DEF TakeJob, Heard, Resolve, NoteAdmitted, Go, Submit, zulip, shared, mains,
      workers, PlaceStep, At, InAdmission
  <1>8. ASSUME NEW m \in Msgs,
              Steer(m) \/ SteerFails(m) \/ Refresh(m) \/ Look(m) \/ Claim(m)
       PROVE  G
    BY <1>8, <1>1 DEF Steer, Go, Refresh, Look, LookAt, Claim, ClaimRoute, Reserve, Forget,
      zulip, shared, mains, PlaceStep, At, InAdmission, SteerFails, Steered, Trouble
  <1>9. ASSUME NEW m \in Msgs,
              NotReady(m) \/ Launch(m) \/ LaunchFails(m) \/ Errs(m) \/ Fetch(m)
       PROVE  G
    BY <1>9, <1>1 DEF NotReady, Release, Go, Trouble, Launch, Errs, Fetch, Heard, zulip, shared,
      mains, PlaceStep, At, InAdmission, LaunchFails
  <1>10. ASSUME NEW m \in Msgs,
              ReplyLook(m) \/ PostFails(m) \/ Publish(m) \/ PublishFails(m)
       PROVE  G
    BY <1>10, <1>1 DEF ReplyLook, LookAt, Go, PostFails, Release, Trouble, Publish,
      PublishFails, NoteFails, zulip, shared, mains, PlaceStep, At, InAdmission
  <1>11. ASSUME NEW m \in Msgs, SaveReply(m) \/ SaveReplyFails(m) PROVE G
    BY <1>11, <1>1 DEF SaveReply, Release, Go, zulip, mains, PlaceStep, At, InAdmission,
      SaveReplyFails, Trouble
  <1>12. ASSUME NEW m \in Msgs, NEW t \in Topics, PostMessage(m, t) PROVE G
    BY <1>12, <1>1 DEF PostMessage, shared, mains, workers, PlaceStep, At, InAdmission
  <1>13. ASSUME NEW m \in Msgs, NEW t \in Places, MoveMessage(m, t) PROVE G
    BY <1>13, <1>1 DEF MoveMessage, Trouble, shared, mains, workers, PlaceStep, At, InAdmission
  <1>14. CASE Patch
    BY <1>14, <1>1, <1>2 DEF Patch, MoveReply, shared, workers, PlaceStep, At, InAdmission
  <1>15. CASE PatchFails
    BY <1>15, <1>1, <1>2 DEF PatchFails, MoveReply, JobEnds, Release, NextJob, Forget, Trouble,
      zulip, workers, PlaceStep, At, InAdmission
  <1>16. ASSUME NEW M \in SUBSET Msgs, FetchPage(M) PROVE G
    BY <1>16, <1>1 DEF FetchPage, zulip, shared, PlaceStep, At, InAdmission
  <1>17. ASSUME NEW m \in Msgs, Finish(m) \/ FinishLater(m) PROVE G
    BY <1>17, <1>1 DEF Finish, Go, zulip, mains, workers, PlaceStep, At, InAdmission,
      FinishLater, Retired, Trouble
  <1>18. ASSUME NEW m \in Msgs, ResolveClaim(m) PROVE G
    BY <1>18, <1>1 DEF ResolveClaim, SetRegistry, Reserve, Go, Forget, zulip, PlaceStep, At,
      InAdmission
  <1>19. ASSUME NEW m \in Msgs,
              ResolveLater(m) \/ Activate(m) \/ Ignore(m) \/ MentionFails(m)
       PROVE  G
    BY <1>19, <1>1 DEF ResolveLater, Go, Forget, Trouble, zulip, shared, PlaceStep, At,
      InAdmission, Activate, Ignore, MentionFails, NextMessage, Release
  <1>20. ASSUME NEW m \in Msgs, NoteAdmittedFails(m) PROVE G
    BY <1>20, <1>1 DEF NoteAdmittedFails, Undo, EndAdmission, NoteFails, Trouble, zulip,
      PlaceStep, At, InAdmission
  <1>21. ASSUME NEW m \in Msgs, Answers(m) PROVE G
    BY <1>21, <1>1 DEF Answers, Go, zulip, shared, mains, PlaceStep, At, InAdmission
  <1>22. ASSUME NEW m \in Msgs, ReplyClaim(m) PROVE G
    <2>1. step'[m] = "post" \/ step'[m] = "failed"
      BY <1>22, <1>1 DEF ReplyClaim, ClaimRoute, Go
    <2>2. \A n \in Msgs \ {m} : step'[n] = step[n] /\ conv'[n] = conv[n]
      BY <1>22, <1>1 DEF ReplyClaim, ClaimRoute, Go
    <2>. QED
      BY <1>22, <2>1, <2>2 DEF ReplyClaim, ClaimRoute, PlaceStep, zulip
  <1>23. ASSUME NEW m \in Msgs, Post(m) PROVE G
    BY <1>23, <1>1 DEF Post, Go, shared, mains, PlaceStep, At, InAdmission
  <1>24. ASSUME NEW t \in Topics, NEW u \in Topics, Rename(t, u) PROVE G
    BY <1>24, <1>1 DEF Rename, Trouble, shared, mains, workers, PlaceStep, At, InAdmission
  <1>. QED
    BY <1>3, <1>4, <1>5, <1>6, <1>7, <1>8, <1>9, <1>10, <1>11, <1>12, <1>13, <1>14, <1>15,
      <1>16, <1>17, <1>18, <1>19, <1>20, <1>21, <1>22, <1>23, <1>24
      DEF Next, MainNext, WorkerNext, Users

Whereabouts == JobsTraced /\ AttemptsTraced /\ PostsTraced

\* The jobs of m before a step, and what the step makes of the one at hand.
KnownJob(j, m) ==
    /\ j # NoJob
    /\ \/ j \in {mem.jobs[m], disk.jobs[m], saved.mem.jobs[m]}
       \/ pc \in RecPcs /\ m = cur /\ Continues(j, job)

\* Such a job still knows after the step where the reply is.
LEMMA KnownStaysTraced ==
    ASSUME Types, Whereabouts, Next, NEW m \in Msgs, NEW j, KnownJob(j, m)
    PROVE  m \in strayed' \/ (Found(j, at'[m]) /\ at'[m] # NoTopic /\ step'[m] # "publish")
  <1>1. PlaceStep(m)
    BY PlaceSteps
  <1>2. m \in strayed \/ (Found(j, at[m]) /\ at[m] # NoTopic /\ step[m] # "publish")
    <2>1. CASE j \in {mem.jobs[m], disk.jobs[m], saved.mem.jobs[m]}
      BY <2>1 DEF KnownJob, Whereabouts, JobsTraced, Traced
    <2>2. CASE pc \in RecPcs /\ m = cur /\ Continues(j, job)
      BY <2>2 DEF Whereabouts, AttemptsTraced, Traced, Found, Continues
    <2>. QED
      BY <2>1, <2>2 DEF KnownJob
  <1>3. CASE at'[m] = at[m] /\ (step'[m] = "publish" => step[m] = "publish")
    BY <1>1, <1>2, <1>3 DEF PlaceStep
  <1>4. CASE Post(m)
    BY <1>1, <1>2, <1>4 DEF PlaceStep, Post
  <1>5. CASE pc = "patch" /\ m = cur /\ Queued /\ UNCHANGED step /\ at'[m] = target
    <2>1. /\ target \in Topics /\ target \in Range(job.tried)
          /\ mem.jobs[m] = job /\ disk.jobs[m] = job
          /\ m \in strayed \/ step[m] # "publish"
      BY <1>5 DEF Types, ViewsOK, RecPcs, Whereabouts, AttemptsTraced, Queued, Traced
    <2>2. saved.mem.jobs[m] = NoJob
      BY <1>5 DEF Types, MainOK, EmptyState
    <2>3. j = job \/ Continues(j, job)
      BY <2>1, <2>2 DEF KnownJob
    <2>4. Found(j, target)
      BY <2>1, <2>3 DEF Found, Continues
    <2>. QED
      BY <1>1, <1>5, <2>1, <2>4, SessionFacts DEF PlaceStep
  <1>. QED
    BY <1>1, <1>3, <1>4, <1>5 DEF PlaceStep

\* The job of a reply that was just posted knows its place.
LEMMA PublishedIsTraced ==
    ASSUME Types, Whereabouts, NEW m \in Msgs, Publish(m)
    PROVE  m \in strayed' \/ (Found(JobOf(conv[m]), at'[m]) /\ at'[m] # NoTopic /\ step'[m] # "publish")
  <1>1. step[m] = "publish" /\ at' = at /\ strayed' = strayed /\ step' = [step EXCEPT ![m] = "save"]
    BY DEF Publish, zulip, Go
  <1>2. m \in strayed \/ at[m] = conv[m].topic
    BY <1>1 DEF Whereabouts, PostsTraced
  <1>3. conv[m].topic \in Topics /\ step \in [Msgs -> Steps]
    BY <1>1 DEF Types, TurnsOK, Conversations
  <1>. QED
    BY <1>1, <1>2, <1>3, SessionFacts DEF Found, JobOf

\* The jobs of the state and of the file know where their replies are.
LEMMA JobsTracedStep ==
    ASSUME Types, Whereabouts, Next
    PROVE  JobsTraced'
  <1>1. ASSUME NEW m \in Msgs, NEW j, j # NoJob,
               j \in {mem.jobs[m], disk.jobs[m], saved.mem.jobs[m]} \/ JobStep(m, j)
        PROVE  m \in strayed' \/ (Found(j, at'[m]) /\ at'[m] # NoTopic /\ step'[m] # "publish")
    <2>1. CASE KnownJob(j, m)
      BY <2>1, KnownStaysTraced
    <2>2. CASE Publish(m) /\ j = JobOf(conv[m])
      BY <2>2, PublishedIsTraced
    <2>. QED
      BY <1>1, <2>1, <2>2 DEF JobStep, KnownJob
  <1>2. ASSUME NEW m \in Msgs, NEW st \in {mem', disk', saved'.mem}, st.jobs[m] # NoJob
        PROVE  m \in strayed' \/ (Found(st.jobs[m], at'[m]) /\ at'[m] # NoTopic /\ step'[m] # "publish")
    <2>1. JobStep(m, mem'.jobs[m])
      BY JobsSteps
    <2>2. /\ disk'.jobs \in {disk.jobs, mem.jobs, mem'.jobs}
          /\ saved'.mem \in {saved.mem, mem, EmptyState}
      BY FileFacts, CopySteps
    <2>3. EmptyState.jobs[m] = NoJob
      BY DEF EmptyState
    <2>. QED
      BY <1>1, <1>2, <2>1, <2>2, <2>3
  <1>. QED
    BY <1>2 DEF JobsTraced, Traced

\* A reply that is about to be published is where its turn posted it.
LEMMA PostsTracedStep ==
    ASSUME Types, Whereabouts, Next
    PROVE  PostsTraced'
  <1>. SUFFICES ASSUME NEW m \in Msgs, step'[m] = "publish"
                PROVE  m \in strayed' \/ at'[m] = conv'[m].topic
    BY DEF PostsTraced
  <1>1. PlaceStep(m)
    BY PlaceSteps
  <1>2. CASE at'[m] = at[m] /\ step[m] = "publish" /\ conv'[m].topic = conv[m].topic
    BY <1>1, <1>2 DEF PlaceStep, Whereabouts, PostsTraced
  <1>3. CASE Post(m)
    BY <1>3 DEF Post, Types, PlacesOK
  <1>4. CASE pc = "patch" /\ m = cur /\ Queued /\ UNCHANGED step
    BY <1>1, <1>4 DEF PlaceStep, Whereabouts, AttemptsTraced, Traced, RecPcs
  <1>. QED
    BY <1>1, <1>2, <1>3, <1>4 DEF PlaceStep

\* The main thread comes to a PATCH by the record of the attempt and its save.
AttemptStep ==
    pc' \in {"recSave", "patch"} =>
        \/ MoveClaim
        \/ SaveAttempt
        \/ /\ pc' = pc
           /\ UNCHANGED <<cur, job>>
           /\ view'[Main] = view[Main]
           /\ \A n \in Msgs : mem'.jobs[n] = mem.jobs[n] \/ mem'.jobs[n].tried = <<>>

\* What a step does to the attempt at hand.
LEMMA AttemptSteps ==
    ASSUME Types, Next
    PROVE  AttemptStep
  <1>1. mem \in States
    BY DEF Types, StatesOK, Good
  <1>2. view = [a \in Actors |-> view[a]] /\ Main \in Actors /\ (\A m \in Msgs : m \in Actors /\ m # Main)
    BY MainIsNoMessage DEF Types, ViewsOK, Actors
  <1>3. CASE FinishEnds \/ CheckSent \/ StayClaim \/ MoveClaim
    BY <1>3, <1>1, <1>2 DEF FinishEnds, CheckSent, JobEnds, NextJob, Forget, LookAt, StayClaim,
      MoveClaim, Reserve, zulip, shared, workers, AttemptStep, States
  <1>4. CASE SaveAttempt \/ SaveAttemptFails \/ Patch \/ PatchFails
    BY <1>4, <1>1, <1>2 DEF SaveAttempt, SaveAttemptFails, Release, Forget, Trouble, Patch,
      MoveReply, PatchFails, JobEnds, NextJob, zulip, shared, workers, AttemptStep, States
  <1>5. CASE ReconcileLater \/ PublishRoute \/ PublishRouteFails \/ ReconcileEnds \/ LoopSaveFails
    BY <1>5, <1>1, <1>2 DEF ReconcileLater, NextJob, Forget, Trouble, PublishRoute, Release,
      PublishRouteFails, JobEnds, NoteFails, ReconcileEnds, zulip, shared, workers, AttemptStep,
      States, LoopSaveFails
  <1>6. CASE BeginAdmission \/ SaveAdmission \/ SubmitEnds \/ Crash
    BY <1>6, <1>1, <1>2 DEF BeginAdmission, SaveAdmission, EndAdmission, Undo, Trouble,
      SubmitEnds, Crash, zulip, shared, workers, AttemptStep, States
  <1>7. ASSUME NEW m \in Msgs,
              Finish(m) \/ FinishLater(m) \/ TakeJob(m) \/ Resolve(m) \/ ResolveClaim(m)
        PROVE  AttemptStep
    BY <1>7, <1>1, <1>2 DEF Finish, Go, TakeJob, Heard, Resolve, ResolveClaim, SetRegistry,
      Reserve, Forget, zulip, shared, mains, workers, AttemptStep, States, FinishLater, Retired,
      Trouble
  <1>8. ASSUME NEW m \in Msgs,
              ResolveLater(m) \/ Activate(m) \/ Ignore(m) \/ MentionFails(m) \/
              NoteAdmitted(m) \/ NoteAdmittedFails(m) \/ Submit(m)
       PROVE  AttemptStep
    BY <1>8, <1>1, <1>2 DEF ResolveLater, Go, Forget, Trouble, NoteAdmitted, NoteAdmittedFails,
      Undo, EndAdmission, NoteFails, Submit, zulip, shared, mains, AttemptStep, States,
      Activate, Ignore, MentionFails, NextMessage, Release
  <1>9. ASSUME NEW m \in Msgs,
              Steer(m) \/ SteerFails(m) \/ Refresh(m) \/ Look(m) \/ Claim(m)
       PROVE  AttemptStep
    BY <1>9, <1>1, <1>2 DEF Steer, Go, Refresh, Look, LookAt, Claim, ClaimRoute, Reserve,
      Forget, zulip, shared, mains, AttemptStep, States, SteerFails, Steered, Trouble
  <1>10. ASSUME NEW m \in Msgs, NotReady(m) \/ Launch(m) \/ LaunchFails(m) \/ Answers(m) \/ Errs(m)
         PROVE  AttemptStep
    BY <1>10, <1>1, <1>2 DEF NotReady, Release, Go, Trouble, Launch, Answers, Errs, zulip,
      shared, mains, AttemptStep, States, LaunchFails
  <1>11. ASSUME NEW m \in Msgs, Fetch(m) \/ ReplyLook(m) \/ ReplyClaim(m) \/ Post(m)
         PROVE  AttemptStep
    BY <1>11, <1>1, <1>2 DEF Fetch, Go, Heard, ReplyLook, LookAt, ReplyClaim, ClaimRoute,
      Reserve, Forget, Post, zulip, shared, mains, AttemptStep, States
  <1>12. ASSUME NEW m \in Msgs, PostFails(m) \/ PublishFails(m) \/ SaveReply(m) \/ SaveReplyFails(m)
         PROVE  AttemptStep
    BY <1>12, <1>1, <1>2 DEF PostFails, Release, Go, Trouble, PublishFails, NoteFails,
      SaveReply, zulip, mains, AttemptStep, States, SaveReplyFails
  <1>13. ASSUME NEW M \in SUBSET Msgs, FetchPage(M) PROVE AttemptStep
    BY <1>13, <1>1, <1>2 DEF FetchPage, zulip, shared, AttemptStep, States
  <1>14. ASSUME NEW m \in Msgs, NEW t \in Topics, PostMessage(m, t) PROVE AttemptStep
    BY <1>14, <1>1, <1>2 DEF PostMessage, shared, mains, workers, AttemptStep, States
  <1>15. ASSUME NEW m \in Msgs, NEW t \in Places, MoveMessage(m, t) PROVE AttemptStep
    BY <1>15, <1>1, <1>2 DEF MoveMessage, Trouble, shared, mains, workers, AttemptStep, States
  <1>16. ASSUME NEW t \in Topics, NEW u \in Topics, Rename(t, u) PROVE AttemptStep
    BY <1>16, <1>1, <1>2 DEF Rename, Trouble, shared, mains, workers, AttemptStep, States
  <1>17. ASSUME NEW m \in Msgs, Publish(m) PROVE AttemptStep
    <2>1. mem' = [mem EXCEPT !.reg = Note(@, conv[m]), !.jobs[m] = JobOf(conv[m])]
      BY <1>17 DEF Publish, JobOf
    <2>2. \A n \in Msgs : mem'.jobs[n] = mem.jobs[n] \/ mem'.jobs[n] = JobOf(conv[m])
      BY <1>1, <2>1 DEF States
    <2>3. JobOf(conv[m]).tried = <<>>
      BY DEF JobOf
    <2>. QED
      BY <1>17, <2>2, <2>3 DEF Publish, AttemptStep, mains
  <1>. QED
    BY <1>3, <1>4, <1>5, <1>6, <1>7, <1>8, <1>9, <1>10, <1>11, <1>12, <1>13, <1>14, <1>15,
      <1>16, <1>17
      DEF Next, MainNext, WorkerNext, Users

\* A PATCH has its target in the file before it is sent.
LEMMA AttemptsTracedStep ==
    ASSUME Types, Whereabouts, Next
    PROVE  AttemptsTraced'
  <1>1. ASSUME pc' \in RecPcs PROVE Traced(job, cur)'
    <2>1. PICK m \in Msgs : cur' = m /\ KnownJob(job', m)
      <3>1. ASSUME pc \in RecPcs PROVE job \in Jobs /\ job # NoJob /\ cur \in Msgs
        BY <3>1, ThreadFacts DEF Types, MainOK, Jobs, NoJob
      <3>2. Continues(job, job)
        BY DEF Continues
      <3>3. ASSUME Continues(job', job), pc \in RecPcs PROVE job' # NoJob
        <4>1. job'.thread \in Threads
          BY <3>1, <3>3 DEF Continues, Jobs
        <4>. QED
          BY <4>1, ThreadFacts DEF NoJob
      <3>. QED
        BY <1>1, <3>1, <3>2, <3>3, JobTakenSteps DEF JobTaken, KnownJob
    <2>2. m \in strayed' \/ (Found(job', at'[m]) /\ at'[m] # NoTopic /\ step'[m] # "publish")
      BY <2>1, KnownStaysTraced
    <2>. QED
      BY <2>1, <2>2 DEF Traced
  <1>2. ASSUME pc' \in {"recSave", "patch"} PROVE target' \in Range(job'.tried)
    <2>1. CASE MoveClaim
      <3>1. job \in Jobs /\ target \in Topics
        BY <2>1 DEF Types, MainOK, ViewsOK, MoveClaim, RecPcs
      <3>2. job' = Tried(job, target) /\ target' = target
        BY <1>2, <2>1 DEF MoveClaim, NextJob, target
      <3>. QED
        BY <3>1, <3>2, TriedFacts
    <2>2. CASE SaveAttempt
      BY <2>2 DEF SaveAttempt, Whereabouts, AttemptsTraced, target
    <2>3. CASE pc' = pc /\ UNCHANGED <<cur, job>> /\ view'[Main] = view[Main]
      BY <1>2, <2>3 DEF Whereabouts, AttemptsTraced, target
    <2>. QED
      BY <1>2, <2>1, <2>2, <2>3, AttemptSteps DEF AttemptStep
  <1>3. ASSUME pc' = "patch", Queued' PROVE disk'.jobs[cur'] = job'
    <2>1. CASE MoveClaim
      BY <1>3, <2>1 DEF MoveClaim, NextJob
    <2>2. CASE SaveAttempt
      BY <1>3, <2>2 DEF SaveAttempt, shared, Queued
    <2>3. CASE /\ pc' = pc /\ UNCHANGED <<cur, job>>
               /\ \A n \in Msgs : mem'.jobs[n] = mem.jobs[n] \/ mem'.jobs[n].tried = <<>>
      <3>1. cur \in Msgs /\ target \in Range(job.tried) /\ mem'.jobs[cur] = job
        BY <1>3, <2>3 DEF Types, MainOK, RecPcs, Whereabouts, AttemptsTraced, Queued
      <3>2. job.tried # <<>>
        <4>1. Range(<<>>) = {}
          BY DEF Range
        <4>. QED
          BY <3>1, <4>1
      <3>3. mem.jobs[cur] = job
        BY <2>3, <3>1, <3>2
      <3>4. disk.jobs[cur] = job
        BY <1>3, <2>3, <3>3 DEF Whereabouts, AttemptsTraced, Queued
      <3>. QED
        BY <2>3, <3>1, <3>3, <3>4, FileFacts
    <2>. QED
      BY <1>3, <2>1, <2>2, <2>3, AttemptSteps DEF AttemptStep
  <1>. QED
    BY <1>1, <1>2, <1>3 DEF AttemptsTraced

\* Nothing is posted at the start.
LEMMA WhereaboutsInit == Init => Whereabouts
  BY DEF Init, InitMain, Whereabouts, JobsTraced, AttemptsTraced, PostsTraced, EmptyState,
    RecPcs

\* The property is a part of the invariant.
LEMMA WhereaboutsFromTraces ==
    ASSUME Whereabouts
    PROVE  WhereaboutsKnown
  BY DEF Whereabouts, JobsTraced, Traced, WhereaboutsKnown

(***************************************************************************)
(* The reservations.  What keeps the session of a thread from changing     *)
(* under a reservation is where it can come from: from the turn of the     *)
(* thread alone, since a message in admission and a job bring no session   *)
(* that the thread does not have.                                          *)
(***************************************************************************)
\* The stages of an admission.
AdmittedPcs == {"resolve", "claim", "mention", "note"}

Phases ==
    \A m \in Msgs :
        /\ step[m] = "fetched" => pc \in {"resolve", "claim", "mention"}
        /\ step[m] = "resolved" => pc = "mention" /\ m = cur
        /\ step[m] = "prepared" => pc \in AdmittedPcs
        /\ step[m] = "noted" => pc \in {"note", "submit"}
        /\ step[m] \in {"ignored", "refused", "deferred"} => pc \in AdmittedPcs

\* Each stage of an admission ends before the next one begins.
LEMMA PhasesStep ==
    ASSUME Types, Phases, Next
    PROVE  Phases'
  <1>1. /\ step \in [Msgs -> Steps] /\ Phases
        /\ pc \in {"claim", "mention"} => cur \in Msgs
        /\ pc = "claim" => step[cur] = "fetched"
        /\ pc = "mention" => step[cur] = "resolved"
    BY DEF Types, TurnsOK, MainOK
  <1>2. CASE FinishEnds \/ CheckSent \/ StayClaim \/ MoveClaim
    BY <1>2, <1>1 DEF FinishEnds, CheckSent, JobEnds, NextJob, Forget, LookAt, StayClaim,
      MoveClaim, Reserve, zulip, shared, workers, Phases, AdmittedPcs, InAdmission, At,
      TurnSteps
  <1>3. CASE SaveAttempt \/ SaveAttemptFails \/ Patch \/ PatchFails
    BY <1>3, <1>1 DEF SaveAttempt, SaveAttemptFails, Release, Forget, Trouble, Patch,
      MoveReply, PatchFails, JobEnds, NextJob, zulip, shared, workers, Phases, AdmittedPcs,
      InAdmission, At, TurnSteps
  <1>4. CASE ReconcileLater \/ PublishRoute \/ PublishRouteFails \/ ReconcileEnds \/ LoopSaveFails
    BY <1>4, <1>1 DEF ReconcileLater, NextJob, Forget, Trouble, PublishRoute, Release,
      PublishRouteFails, JobEnds, NoteFails, ReconcileEnds, zulip, shared, workers, Phases,
      AdmittedPcs, InAdmission, At, TurnSteps, LoopSaveFails
  <1>5. CASE BeginAdmission \/ SaveAdmission \/ SubmitEnds \/ Crash
    BY <1>5, <1>1 DEF BeginAdmission, SaveAdmission, EndAdmission, Undo, Trouble, SubmitEnds,
      Crash, zulip, shared, workers, Phases, AdmittedPcs, InAdmission, At, TurnSteps
  <1>6. ASSUME NEW m \in Msgs,
              Finish(m) \/ FinishLater(m) \/ TakeJob(m) \/ Resolve(m) \/ ResolveClaim(m)
        PROVE  Phases'
    BY <1>6, <1>1 DEF Finish, Go, TakeJob, Heard, Resolve, ResolveClaim, SetRegistry, Reserve,
      Forget, zulip, shared, mains, workers, Phases, AdmittedPcs, InAdmission, At, TurnSteps,
      FinishLater, Retired, Trouble
  <1>7. ASSUME NEW m \in Msgs,
              ResolveLater(m) \/ Activate(m) \/ Ignore(m) \/ MentionFails(m) \/
              NoteAdmitted(m) \/ NoteAdmittedFails(m) \/ Submit(m)
       PROVE  Phases'
    BY <1>7, <1>1 DEF ResolveLater, Go, Forget, Trouble, NoteAdmitted, NoteAdmittedFails, Undo,
      EndAdmission, NoteFails, Submit, zulip, shared, mains, Phases, AdmittedPcs, InAdmission,
      At, TurnSteps, Activate, Ignore, MentionFails, NextMessage, Release
  <1>8. ASSUME NEW m \in Msgs,
              Steer(m) \/ SteerFails(m) \/ Refresh(m) \/ Look(m) \/ Claim(m)
       PROVE  Phases'
    BY <1>8, <1>1 DEF Steer, Go, Refresh, Look, LookAt, Claim, ClaimRoute, Reserve, Forget,
      zulip, shared, mains, Phases, AdmittedPcs, InAdmission, At, TurnSteps, SteerFails,
      Steered, Trouble
  <1>9. ASSUME NEW m \in Msgs,
              NotReady(m) \/ Launch(m) \/ LaunchFails(m) \/ Answers(m) \/ Errs(m)
       PROVE  Phases'
    BY <1>9, <1>1 DEF NotReady, Release, Go, Trouble, Launch, Answers, Errs, zulip, shared,
      mains, Phases, AdmittedPcs, InAdmission, At, TurnSteps, LaunchFails
  <1>10. ASSUME NEW m \in Msgs, Fetch(m) \/ ReplyLook(m) \/ ReplyClaim(m) \/ Post(m)
         PROVE  Phases'
    BY <1>10, <1>1 DEF Fetch, Go, Heard, ReplyLook, LookAt, ReplyClaim, ClaimRoute, Reserve,
      Forget, Post, zulip, shared, mains, Phases, AdmittedPcs, InAdmission, At, TurnSteps
  <1>11. ASSUME NEW m \in Msgs,
              PostFails(m) \/ Publish(m) \/ PublishFails(m) \/ SaveReply(m) \/ SaveReplyFails(m)
       PROVE  Phases'
    BY <1>11, <1>1 DEF PostFails, Release, Go, Trouble, Publish, PublishFails, NoteFails,
      SaveReply, zulip, mains, Phases, AdmittedPcs, InAdmission, At, TurnSteps, SaveReplyFails
  <1>12. ASSUME NEW M \in SUBSET Msgs, FetchPage(M) PROVE Phases'
    BY <1>12, <1>1 DEF FetchPage, zulip, shared, Phases, AdmittedPcs, InAdmission, At, TurnSteps
  <1>13. ASSUME NEW m \in Msgs, NEW t \in Topics, PostMessage(m, t) PROVE Phases'
    BY <1>13, <1>1 DEF PostMessage, shared, mains, workers, Phases, AdmittedPcs, InAdmission,
      At, TurnSteps
  <1>14. ASSUME NEW m \in Msgs, NEW t \in Places, MoveMessage(m, t) PROVE Phases'
    BY <1>14, <1>1 DEF MoveMessage, Trouble, shared, mains, workers, Phases, AdmittedPcs,
      InAdmission, At, TurnSteps
  <1>15. ASSUME NEW t \in Topics, NEW u \in Topics, Rename(t, u) PROVE Phases'
    BY <1>15, <1>1 DEF Rename, Trouble, shared, mains, workers, Phases, AdmittedPcs,
      InAdmission, At, TurnSteps
  <1>. QED
    BY <1>2, <1>3, <1>4, <1>5, <1>6, <1>7, <1>8, <1>9, <1>10, <1>11, <1>12, <1>13, <1>14, <1>15
      DEF Next, MainNext, WorkerNext, Users

\* The registry a has no claim on a topic and no session of a thread that b does not have.
Older(a, b) ==
    /\ \A n \in Names : a.alias[n] # NoThread => b.alias[n] = a.alias[n]
    /\ \A t \in Topics : a.topicSess[t] # NoSession => b.topicSess[t] = a.topicSess[t]
    /\ \A x \in Threads : a.sess[x] # NoSession => b.sess[x] = a.sess[x]

CopyIsOlder == pc = "note" => Older(saved.mem.reg, mem.reg)

\* The copy is made when the notes of an admission begin.
CopyStep ==
    pc' = "note" =>
        \/ pc = "note" /\ saved' = saved
        \/ saved'.mem.reg = mem'.reg

\* From the copy on until the end of the admission it is kept.
LEMMA CopyStepFacts ==
    ASSUME Types, Next
    PROVE  CopyStep
  <1>1. mem \in States
    BY DEF Types, StatesOK, Good
  <1>2. CASE FinishEnds \/ CheckSent \/ StayClaim \/ MoveClaim
    BY <1>2, <1>1 DEF FinishEnds, CheckSent, JobEnds, NextJob, Forget, LookAt, StayClaim,
      MoveClaim, Reserve, zulip, shared, workers, CopyStep, States
  <1>3. CASE SaveAttempt \/ SaveAttemptFails \/ Patch \/ PatchFails
    BY <1>3, <1>1 DEF SaveAttempt, SaveAttemptFails, Release, Forget, Trouble, Patch, MoveReply,
      PatchFails, JobEnds, NextJob, zulip, shared, workers, CopyStep, States
  <1>4. CASE ReconcileLater \/ PublishRoute \/ PublishRouteFails \/ ReconcileEnds \/ LoopSaveFails
    BY <1>4, <1>1 DEF ReconcileLater, NextJob, Forget, Trouble, PublishRoute, Release,
      PublishRouteFails, JobEnds, NoteFails, ReconcileEnds, zulip, shared, workers, CopyStep,
      States, LoopSaveFails
  <1>5. CASE BeginAdmission \/ SaveAdmission \/ SubmitEnds \/ Crash
    BY <1>5, <1>1 DEF BeginAdmission, SaveAdmission, EndAdmission, Undo, Trouble, SubmitEnds,
      Crash, zulip, shared, workers, CopyStep, States
  <1>6. ASSUME NEW m \in Msgs,
              Finish(m) \/ FinishLater(m) \/ TakeJob(m) \/ Resolve(m) \/ ResolveClaim(m)
        PROVE  CopyStep
    BY <1>6, <1>1 DEF Finish, Go, TakeJob, Heard, Resolve, ResolveClaim, SetRegistry, Reserve,
      Forget, zulip, shared, mains, workers, CopyStep, States, FinishLater, Retired, Trouble
  <1>7. ASSUME NEW m \in Msgs,
              ResolveLater(m) \/ Activate(m) \/ Ignore(m) \/ MentionFails(m) \/
              NoteAdmitted(m) \/ NoteAdmittedFails(m) \/ Submit(m)
       PROVE  CopyStep
    BY <1>7, <1>1 DEF ResolveLater, Go, Forget, Trouble, NoteAdmitted, NoteAdmittedFails, Undo,
      EndAdmission, NoteFails, Submit, zulip, shared, mains, CopyStep, States, Activate, Ignore,
      MentionFails, NextMessage, Release
  <1>8. ASSUME NEW m \in Msgs,
              Steer(m) \/ SteerFails(m) \/ Refresh(m) \/ Look(m) \/ Claim(m)
       PROVE  CopyStep
    BY <1>8, <1>1 DEF Steer, Go, Refresh, Look, LookAt, Claim, ClaimRoute, Reserve, Forget,
      zulip, shared, mains, CopyStep, States, SteerFails, Steered, Trouble
  <1>9. ASSUME NEW m \in Msgs,
              NotReady(m) \/ Launch(m) \/ LaunchFails(m) \/ Answers(m) \/ Errs(m)
       PROVE  CopyStep
    BY <1>9, <1>1 DEF NotReady, Release, Go, Trouble, Launch, Answers, Errs, zulip, shared,
      mains, CopyStep, States, LaunchFails
  <1>10. ASSUME NEW m \in Msgs, Fetch(m) \/ ReplyLook(m) \/ ReplyClaim(m) \/ Post(m)
         PROVE  CopyStep
    BY <1>10, <1>1 DEF Fetch, Go, Heard, ReplyLook, LookAt, ReplyClaim, ClaimRoute, Reserve,
      Forget, Post, zulip, shared, mains, CopyStep, States
  <1>11. ASSUME NEW m \in Msgs,
              PostFails(m) \/ Publish(m) \/ PublishFails(m) \/ SaveReply(m) \/ SaveReplyFails(m)
       PROVE  CopyStep
    BY <1>11, <1>1 DEF PostFails, Release, Go, Trouble, Publish, PublishFails, NoteFails,
      SaveReply, zulip, mains, CopyStep, States, SaveReplyFails
  <1>12. ASSUME NEW M \in SUBSET Msgs, FetchPage(M) PROVE CopyStep
    BY <1>12, <1>1 DEF FetchPage, zulip, shared, CopyStep, States
  <1>13. ASSUME NEW m \in Msgs, NEW t \in Topics, PostMessage(m, t) PROVE CopyStep
    BY <1>13, <1>1 DEF PostMessage, shared, mains, workers, CopyStep, States
  <1>14. ASSUME NEW m \in Msgs, NEW t \in Places, MoveMessage(m, t) PROVE CopyStep
    BY <1>14, <1>1 DEF MoveMessage, Trouble, shared, mains, workers, CopyStep, States
  <1>15. ASSUME NEW t \in Topics, NEW u \in Topics, Rename(t, u) PROVE CopyStep
    BY <1>15, <1>1 DEF Rename, Trouble, shared, mains, workers, CopyStep, States
  <1>. QED
    BY <1>2, <1>3, <1>4, <1>5, <1>6, <1>7, <1>8, <1>9, <1>10, <1>11, <1>12, <1>13, <1>14, <1>15
      DEF Next, MainNext, WorkerNext, Users

\* The notes that a step makes of the conversation c.
Noted(c) ==
    /\ CanNoteThread(mem.reg, rsv, c)
    /\ \/ mem'.reg = NoteThread(mem.reg, c)
       \/ CanNote(mem.reg, rsv, c) /\ mem'.reg = Note(mem.reg, c)

Undone == pc = "note" /\ pc' = "finish" /\ mem'.reg = saved.mem.reg
Expired == pc = "claim" /\ mem'.reg = Cleared

\* The ways in which the registry changes.
LEMMA RegistryCases ==
    ASSUME Types, Next
    PROVE  mem'.reg = mem.reg \/ Crash \/ Undone \/ Expired \/ \E c \in Carried : Noted(c)
  <1>1. ASSUME NEW c \in Carried, CanNoteThread(mem.reg, rsv, c), mem'.reg = NoteThread(mem.reg, c)
        PROVE  Noted(c)
    BY <1>1 DEF Noted
  <1>2. ASSUME NEW c \in Carried, CanNote(mem.reg, rsv, c), mem'.reg = Note(mem.reg, c)
        PROVE  Noted(c)
    <2>1. CanNoteThread(mem.reg, rsv, c)
      BY <1>2 DEF CanNote
    <2>. QED
      BY <1>2, <2>1 DEF Noted
  <1>. QED
    BY <1>1, <1>2, RegistrySteps DEF RegistryStep, Undone, Expired

\* What a note changes.
LEMMA NotedFacts ==
    ASSUME Types, NEW c \in Carried, Noted(c)
    PROVE  /\ NoteEffect(mem.reg, c, mem'.reg)
           /\ mem.reg.alias[Name[c.topic]] \in {NoThread, c.thread}
           /\ \A n \in Names \ {Name[c.topic]} : mem'.reg.alias[n] = mem.reg.alias[n]
           /\ mem'.reg.alias[Name[c.topic]] = c.thread
           /\ c \in Conversations /\ c.thread \in Threads /\ c.topic \in Topics
  <1>1. c \in Conversations /\ c.thread \in Threads /\ c.topic \in Topics
    BY DEF Carried, Conversations
  <1>2. RegistryOK(mem.reg) /\ CanNoteThread(mem.reg, rsv, c)
    BY DEF Types, StatesOK, Good, Noted
  <1>3. NoteEffect(mem.reg, c, mem'.reg)
    BY <1>1, <1>2, NoteGains DEF Noted
  <1>4. /\ mem.reg.alias \in [Names -> Threads \cup {NoThread}]
        /\ mem.reg.alias[Name[c.topic]] \in {NoThread, c.thread}
        /\ Name[c.topic] \in Names
    BY <1>1, <1>2, SessionFacts DEF RegistryOK, Registries, CanNoteThread
  <1>. QED
    BY <1>1, <1>3, <1>4 DEF NoteEffect

\* A registry only gains claims while the notes of an admission are made.
LEMMA CopyIsOlderStep ==
    ASSUME Types, CopyIsOlder, Next
    PROVE  CopyIsOlder'
  <1>. SUFFICES ASSUME pc' = "note" PROVE Older(saved'.mem.reg, mem'.reg)
    BY DEF CopyIsOlder
  <1>1. CASE saved'.mem.reg = mem'.reg
    BY <1>1 DEF Older
  <1>2. CASE pc = "note" /\ saved' = saved
    <2>1. Older(saved.mem.reg, mem.reg) /\ RegistryOK(mem.reg)
      BY <1>2 DEF CopyIsOlder, Types, StatesOK, Good
    <2>2. ~ Crash
      BY DEF Crash
    <2>3. CASE mem'.reg = mem.reg
      BY <1>2, <2>1, <2>3
    <2>4. ASSUME NEW c \in Carried, Noted(c) PROVE Older(saved'.mem.reg, mem'.reg)
      <3>1. /\ \A x \in Threads : mem.reg.sess[x] # NoSession => mem'.reg.sess[x] = mem.reg.sess[x]
            /\ \A t \in Topics : mem.reg.topicSess[t] # NoSession =>
                    mem'.reg.topicSess[t] = mem.reg.topicSess[t]
        BY <2>4, NotedFacts DEF NoteEffect
      <3>2. \A n \in Names : mem.reg.alias[n] # NoThread => mem'.reg.alias[n] = mem.reg.alias[n]
        BY <2>4, NotedFacts
      <3>. QED
        BY <1>2, <2>1, <3>1, <3>2 DEF Older
    <2>. QED
      BY <1>2, <2>2, <2>3, <2>4, RegistryCases DEF Undone, Expired
  <1>. QED
    BY <1>1, <1>2, CopyStepFacts DEF CopyStep

\* A turn under way on the thread x.
HasTurn(x) == \E m \in Msgs : step[m] \in TurnSteps /\ conv[m].thread = x

\* The session of the thread of a turn is the one of the turn, or none.
TurnSessions ==
    \A m \in Msgs : step[m] \in TurnSteps => mem.reg.sess[conv[m].thread] \in {NoSession, conv[m].sess}

\* What a message of an admission has of a session, its thread has too: at the
\* resolution, and after it unless a turn of the thread publishes its session.
SessionKnown(x, s) == s = mem.reg.sess[x] \/ (s = NoSession /\ HasTurn(x))

Admitting == {"resolved", "prepared", "noted"}

AdmittedSessions ==
    /\ \A m \in Msgs : step[m] \in Admitting => SessionKnown(conv[m].thread, conv[m].sess)
    /\ pc = "claim" /\ view[Main].ok =>
        /\ target = conv[cur].topic
        /\ SessionKnown(view[Main].owner.thread, view[Main].owner.sess)

\* Where the main thread has looked at the destination of a job.
LookedPcs == {"stayClaim", "moveClaim", "recSave", "patch", "recNote"}

JobSessions ==
    /\ pc \in RecPcs => job.sess \in {NoSession, mem.reg.sess[job.thread]}
    /\ pc \in LookedPcs =>
        /\ view[Main].owner.thread = job.thread
        /\ view[Main].owner.sess \in {NoSession, mem.reg.sess[job.thread]}

\* A turn goes on until it is finished, with its conversation: only its session may
\* be new.
TurnGoesOn(m) ==
    step[m] \in TurnSteps =>
        \/ pc = "finish" \/ Crash
        \/ step'[m] \in TurnSteps

TurnKeeps(m) ==
    step[m] \in TurnSteps /\ step'[m] \in TurnSteps =>
        /\ conv'[m].thread = conv[m].thread
        /\ conv'[m].sess = conv[m].sess \/ (conv[m].sess = NoSession /\ mem' = mem)

\* What a step does to a turn that is under way.
LEMMA TurnKept ==
    ASSUME Types, Next
    PROVE  \A m \in Msgs : TurnGoesOn(m) /\ TurnKeeps(m)
  <1>. DEFINE G == \A n \in Msgs : TurnGoesOn(n) /\ TurnKeeps(n)
  <1>1. /\ conv \in [Msgs -> Conversations \cup {NoConv}] /\ step \in [Msgs -> Steps]
        /\ pc = "claim" => cur \in Msgs /\ step[cur] = "fetched"
        /\ pc = "mention" => cur \in Msgs /\ step[cur] = "resolved"
    BY DEF Types, TurnsOK, MainOK
  <1>2. CASE FinishEnds \/ CheckSent \/ StayClaim \/ MoveClaim
    BY <1>2, <1>1 DEF FinishEnds, CheckSent, JobEnds, NextJob, Forget, LookAt, StayClaim,
      MoveClaim, Reserve, zulip, shared, workers, TurnGoesOn, TurnKeeps, InAdmission, At, Ended,
      TurnSteps, Waiting
  <1>3. CASE SaveAttempt \/ SaveAttemptFails \/ Patch \/ PatchFails
    BY <1>3, <1>1 DEF SaveAttempt, SaveAttemptFails, Release, Forget, Trouble, Patch, MoveReply,
      PatchFails, JobEnds, NextJob, zulip, shared, workers, TurnGoesOn, TurnKeeps, InAdmission,
      At, Ended, TurnSteps, Waiting
  <1>4. CASE ReconcileLater \/ PublishRoute \/ PublishRouteFails \/ ReconcileEnds \/ LoopSaveFails
    BY <1>4, <1>1 DEF ReconcileLater, NextJob, Forget, Trouble, PublishRoute, Release,
      PublishRouteFails, JobEnds, NoteFails, ReconcileEnds, zulip, shared, workers, TurnGoesOn,
      TurnKeeps, InAdmission, At, Ended, TurnSteps, Waiting, LoopSaveFails
  <1>5. CASE BeginAdmission \/ SaveAdmission \/ SubmitEnds \/ Crash
    BY <1>5, <1>1 DEF BeginAdmission, SaveAdmission, EndAdmission, Undo, Trouble, SubmitEnds,
      Crash, zulip, shared, workers, TurnGoesOn, TurnKeeps, InAdmission, At, Ended, TurnSteps,
      Steps, Waiting
  <1>6. ASSUME NEW m \in Msgs,
              Finish(m) \/ FinishLater(m) \/ TakeJob(m) \/ Resolve(m) \/ ResolveClaim(m)
       PROVE  G
    BY <1>6, <1>1 DEF Finish, Go, TakeJob, Heard, Resolve, ResolveClaim, SetRegistry, Reserve,
      Forget, zulip, shared, mains, workers, TurnGoesOn, TurnKeeps, InAdmission, At, Ended,
      TurnSteps, Waiting, FinishLater, Retired, Trouble
  <1>7. ASSUME NEW m \in Msgs,
              ResolveLater(m) \/ Activate(m) \/ Ignore(m) \/ MentionFails(m) \/
              NoteAdmitted(m) \/ NoteAdmittedFails(m) \/ Submit(m)
       PROVE  G
    BY <1>7, <1>1 DEF ResolveLater, Go, Forget, Trouble, NoteAdmitted, NoteAdmittedFails, Undo,
      EndAdmission, NoteFails, Submit, zulip, shared, mains, TurnGoesOn, TurnKeeps, InAdmission,
      At, Ended, TurnSteps, Waiting, Activate, Ignore, MentionFails, NextMessage, Release
  <1>8. ASSUME NEW m \in Msgs,
              Steer(m) \/ SteerFails(m) \/ Refresh(m) \/ Look(m) \/ Claim(m)
       PROVE  G
    BY <1>8, <1>1 DEF Steer, Go, Refresh, Look, LookAt, Claim, ClaimRoute, Reserve, Forget,
      zulip, shared, mains, TurnGoesOn, TurnKeeps, InAdmission, At, Ended, TurnSteps, Waiting,
      SteerFails, Steered, Trouble
  <1>9. ASSUME NEW m \in Msgs,
              NotReady(m) \/ Launch(m) \/ LaunchFails(m) \/ Errs(m) \/ Fetch(m)
       PROVE  G
    BY <1>9, <1>1 DEF NotReady, Release, Go, Trouble, Launch, Errs, Fetch, Heard, zulip, shared,
      mains, TurnGoesOn, TurnKeeps, InAdmission, At, Ended, TurnSteps, Waiting, LaunchFails
  <1>10. ASSUME NEW m \in Msgs, ReplyLook(m) \/ Post(m) \/ PostFails(m) \/ Publish(m) PROVE G
    BY <1>10, <1>1 DEF ReplyLook, LookAt, Go, Post, PostFails, Release, Trouble, Publish, zulip,
      shared, mains, TurnGoesOn, TurnKeeps, InAdmission, At, Ended, TurnSteps, Waiting
  <1>11. ASSUME NEW m \in Msgs, PublishFails(m) \/ SaveReply(m) \/ SaveReplyFails(m) PROVE G
    BY <1>11, <1>1 DEF PublishFails, Release, Go, NoteFails, Trouble, SaveReply, zulip, mains,
      TurnGoesOn, TurnKeeps, InAdmission, At, Ended, TurnSteps, Waiting, SaveReplyFails
  <1>12. ASSUME NEW M \in SUBSET Msgs, FetchPage(M) PROVE G
    BY <1>12, <1>1 DEF FetchPage, zulip, shared, TurnGoesOn, TurnKeeps, InAdmission, At, Ended,
      TurnSteps, Waiting
  <1>13. ASSUME NEW m \in Msgs, NEW t \in Topics, PostMessage(m, t) PROVE G
    BY <1>13, <1>1 DEF PostMessage, shared, mains, workers, TurnGoesOn, TurnKeeps, InAdmission,
      At, Ended, TurnSteps, Waiting
  <1>14. ASSUME NEW m \in Msgs, NEW t \in Places, MoveMessage(m, t) PROVE G
    BY <1>14, <1>1 DEF MoveMessage, Trouble, shared, mains, workers, TurnGoesOn, TurnKeeps,
      InAdmission, At, Ended, TurnSteps, Waiting
  <1>15. ASSUME NEW t \in Topics, NEW u \in Topics, Rename(t, u) PROVE G
    BY <1>15, <1>1 DEF Rename, Trouble, shared, mains, workers, TurnGoesOn, TurnKeeps,
      InAdmission, At, Ended, TurnSteps, Waiting
  <1>16. ASSUME NEW m \in Msgs, Answers(m) PROVE G
    <2>1. conv[m] \in Conversations
      BY <1>16 DEF Answers, Types, TurnsOK
    <2>2. conv'[m].thread = conv[m].thread
      BY <1>16, <1>1, <2>1 DEF Answers, Conversations
    <2>3. mem' = mem /\ (conv[m].sess # NoSession => conv' = conv)
      BY <1>16 DEF Answers, shared
    <2>4. conv'[m].sess = conv[m].sess \/ (conv[m].sess = NoSession /\ mem' = mem)
      BY <2>3
    <2>. QED
      BY <1>16, <1>1, <2>2, <2>4 DEF Answers, Go, TurnGoesOn, TurnKeeps, TurnSteps
  <1>17. ASSUME NEW m \in Msgs, ReplyClaim(m) PROVE G
    <2>1. conv[m] \in Conversations
      BY <1>17 DEF ReplyClaim, Types, TurnsOK
    <2>2. conv'[m].thread = conv[m].thread /\ conv'[m].sess = conv[m].sess
      BY <1>17, <1>1, <2>1 DEF ReplyClaim, Conversations
    <2>. QED
      BY <1>17, <1>1, <2>2 DEF ReplyClaim, ClaimRoute, Go, TurnGoesOn, TurnKeeps, TurnSteps
  <1>. QED
    BY <1>2, <1>3, <1>4, <1>5, <1>6, <1>7, <1>8, <1>9, <1>10, <1>11, <1>12, <1>13, <1>14, <1>15,
      <1>16, <1>17
      DEF Next, MainNext, WorkerNext, Users

\* A turn does not end while the main thread is elsewhere.
LEMMA HasTurnStep ==
    ASSUME Types, Next, pc # "finish", pc' # "finish", NEW x, HasTurn(x)
    PROVE  HasTurn(x)'
  <1>1. PICK m \in Msgs : step[m] \in TurnSteps /\ conv[m].thread = x
    BY DEF HasTurn
  <1>2. ~ Crash
    BY DEF Crash
  <1>3. step'[m] \in TurnSteps /\ conv'[m].thread = x
    BY <1>1, <1>2, TurnKept DEF TurnGoesOn, TurnKeeps
  <1>. QED
    BY <1>1, <1>3 DEF HasTurn, TurnSteps

\* The session of a thread changes in three ways: by a crash, by the rollback of an
\* admission, and by the turn of the thread that publishes its session.
SessionStep(y) ==
    \/ mem'.reg.sess[y] = mem.reg.sess[y]
    \/ Crash
    \/ Undone
    \/ /\ mem.reg.sess[y] = NoSession
       /\ \E m \in Msgs : step[m] \in TurnSteps /\ conv[m].thread = y /\ mem'.reg.sess[y] = conv[m].sess

\* No step changes a session in another way.
LEMMA SessionSteps ==
    ASSUME Types, AdmittedSessions, JobSessions, Next, NEW y \in Threads
    PROVE  SessionStep(y)
  <1>1. CASE mem'.reg = mem.reg
    BY <1>1 DEF SessionStep
  <1>2. CASE Expired
    <2>1. target \in Topics /\ RegistryOK(mem.reg)
      BY <1>2 DEF Types, ViewsOK, StatesOK, Good, Expired
    <2>2. Expire(mem.reg, target, view[Main].stale).sess = mem.reg.sess
      BY <2>1, ExpireFacts
    <2>3. mem'.reg.sess = mem.reg.sess
      BY <1>2, <2>2 DEF Cleared, Expired
    <2>. QED
      BY <2>3 DEF SessionStep
  <1>3. ASSUME NEW c \in Carried, Noted(c) PROVE SessionStep(y)
    <2>1. SUFFICES ASSUME mem'.reg.sess[y] # mem.reg.sess[y] PROVE SessionStep(y)
      BY DEF SessionStep
    <2>2. /\ mem.reg.sess[y] = NoSession /\ y = c.thread /\ mem'.reg.sess[y] = c.sess
          /\ c.sess # NoSession
      BY <1>3, <2>1, NotedFacts DEF NoteEffect
    <2>3. CASE pc \in RecPcs /\ c = JobConversation
      BY <2>2, <2>3 DEF JobSessions, JobConversation
    <2>4. ASSUME NEW m \in Msgs, step[m] \in Routed, c = conv[m] PROVE SessionStep(y)
      <3>1. step[m] \notin Admitting
        BY <2>2, <2>4 DEF AdmittedSessions, SessionKnown
      <3>2. step[m] \in TurnSteps
        BY <2>4, <3>1 DEF Routed, Admitting
      <3>. QED
        BY <2>2, <2>4, <3>2 DEF SessionStep
    <2>. QED
      BY <2>3, <2>4 DEF Carried
  <1>. QED
    BY <1>1, <1>2, <1>3, RegistryCases DEF SessionStep

\* The rollback gives a session back that the registry has, or none.
LEMMA UndoneSessions ==
    ASSUME Types, CopyIsOlder, Undone, NEW y \in Threads
    PROVE  mem'.reg.sess[y] \in {NoSession, mem.reg.sess[y]}
  BY DEF CopyIsOlder, Older, Undone

\* The session of a turn is not taken by another one.
LEMMA TurnSessionsStep ==
    ASSUME Types, TurnsApart, CopyIsOlder, TurnSessions, AdmittedSessions, JobSessions, Next
    PROVE  TurnSessions'
  <1>. SUFFICES ASSUME NEW m \in Msgs, step'[m] \in TurnSteps
                PROVE  mem'.reg.sess[conv'[m].thread] \in {NoSession, conv'[m].sess}
    BY DEF TurnSessions
  <1>. DEFINE y == conv[m].thread
  <1>0. /\ conv'[m].thread = y
        /\ step[m] \in TurnSteps \/ Submit(m)
    BY TurnsGoOn DEF TurnStep
  <1>1. CASE Submit(m)
    <2>1. mem' = mem /\ conv' = conv /\ step[m] = "noted" /\ ~ Steers(m)
      BY <1>1 DEF Submit, shared, At
    <2>2. ~ HasTurn(y)
      BY <2>1 DEF HasTurn, Steers, Active, TurnSteps
    <2>. QED
      BY <2>1, <2>2 DEF AdmittedSessions, SessionKnown, Admitting
  <1>2. CASE step[m] \in TurnSteps
    <2>1. y \in Threads /\ mem.reg.sess[y] \in {NoSession, conv[m].sess}
      BY <1>2 DEF TurnSessions, Types, TurnsOK, Routed
    <2>2. conv'[m].sess = conv[m].sess \/ (conv[m].sess = NoSession /\ mem' = mem)
      BY <1>2, TurnKept DEF TurnKeeps
    <2>3. CASE conv[m].sess = NoSession /\ mem' = mem
      BY <1>0, <2>1, <2>3
    <2>4. CASE conv'[m].sess = conv[m].sess
      <3>1. ~ Crash
        BY DEF Crash, TurnSteps
      <3>2. CASE Undone
        BY <1>0, <2>1, <2>4, <3>2, UndoneSessions
      <3>3. ASSUME NEW n \in Msgs, step[n] \in TurnSteps, conv[n].thread = y, mem'.reg.sess[y] = conv[n].sess
            PROVE  mem'.reg.sess[y] = conv[m].sess
        BY <1>2, <3>3 DEF TurnsApart
      <3>. QED
        BY <1>0, <2>1, <2>4, <3>1, <3>2, <3>3, SessionSteps DEF SessionStep
    <2>. QED
      BY <2>2, <2>3, <2>4
  <1>. QED
    BY <1>0, <1>1, <1>2

\* A message is prepared by its resolution, and keeps its conversation until its turn.
Prepares(m) ==
    /\ pc = "claim" /\ m = cur /\ Admissible /\ mem'.reg = Cleared
    /\ conv'[m].thread = view[Main].owner.thread
    /\ conv'[m].sess = view[Main].owner.sess
    /\ conv'[m].topic = conv[m].topic

AdmittedStep(m) ==
    step'[m] \in Admitting =>
        \/ step[m] \in Admitting /\ conv'[m] = conv[m]
        \/ Prepares(m)

\* What a step does to a message in admission.
LEMMA AdmittedSteps ==
    ASSUME Types, Next
    PROVE  \A m \in Msgs : AdmittedStep(m)
  <1>. DEFINE G == \A n \in Msgs : AdmittedStep(n)
  <1>1. /\ conv \in [Msgs -> Conversations \cup {NoConv}] /\ step \in [Msgs -> Steps]
        /\ pc = "claim" => cur \in Msgs /\ step[cur] = "fetched"
        /\ pc = "mention" => cur \in Msgs /\ step[cur] = "resolved"
    BY DEF Types, TurnsOK, MainOK
  <1>2. CASE FinishEnds \/ CheckSent \/ StayClaim \/ MoveClaim
    BY <1>2, <1>1 DEF FinishEnds, CheckSent, JobEnds, NextJob, Forget, LookAt, StayClaim,
      MoveClaim, Reserve, zulip, shared, workers, AdmittedStep, Admitting, InAdmission, At,
      Ended, TurnSteps, Steps, Waiting
  <1>3. CASE SaveAttempt \/ SaveAttemptFails \/ Patch \/ PatchFails
    BY <1>3, <1>1 DEF SaveAttempt, SaveAttemptFails, Release, Forget, Trouble, Patch,
      MoveReply, PatchFails, JobEnds, NextJob, zulip, shared, workers, AdmittedStep, Admitting,
      InAdmission, At, Ended, TurnSteps, Waiting
  <1>4. CASE ReconcileLater \/ PublishRoute \/ PublishRouteFails \/ ReconcileEnds \/ LoopSaveFails
    BY <1>4, <1>1 DEF ReconcileLater, NextJob, Forget, Trouble, PublishRoute, Release,
      PublishRouteFails, JobEnds, NoteFails, ReconcileEnds, zulip, shared, workers,
      AdmittedStep, Admitting, InAdmission, At, Ended, TurnSteps, Waiting, LoopSaveFails
  <1>5. CASE BeginAdmission \/ SaveAdmission \/ SubmitEnds \/ Crash
    BY <1>5, <1>1 DEF BeginAdmission, SaveAdmission, EndAdmission, Undo, Trouble, SubmitEnds,
      Crash, zulip, shared, workers, AdmittedStep, Admitting, InAdmission, At, Ended, TurnSteps,
      Waiting
  <1>6. ASSUME NEW m \in Msgs,
              Finish(m) \/ FinishLater(m) \/ TakeJob(m) \/ Resolve(m) \/ ResolveLater(m) \/
              Activate(m) \/ Ignore(m) \/ MentionFails(m)
       PROVE  G
    BY <1>6, <1>1 DEF Finish, Go, TakeJob, Heard, Resolve, ResolveLater, Forget, Trouble,
      zulip, shared, mains, workers, AdmittedStep, Admitting, InAdmission, At, Ended,
      TurnSteps, Waiting, Activate, Ignore, MentionFails, NextMessage, Release, FinishLater,
      Retired
  <1>7. ASSUME NEW m \in Msgs,
              NoteAdmitted(m) \/ NoteAdmittedFails(m) \/ Submit(m) \/ Steer(m) \/ SteerFails(m)
       PROVE  G
    BY <1>7, <1>1 DEF NoteAdmitted, Go, NoteAdmittedFails, Undo, EndAdmission, NoteFails,
      Trouble, Submit, Steer, zulip, shared, mains, AdmittedStep, Admitting, InAdmission, At,
      Ended, TurnSteps, Waiting, SteerFails, Steered
  <1>8. ASSUME NEW m \in Msgs, Refresh(m) \/ Look(m) \/ Claim(m) \/ NotReady(m) PROVE G
    BY <1>8, <1>1 DEF Refresh, Go, Look, LookAt, Claim, ClaimRoute, Reserve, Forget, NotReady,
      Release, Trouble, zulip, shared, mains, AdmittedStep, Admitting, InAdmission, At, Ended,
      TurnSteps, Steps, Waiting
  <1>9. ASSUME NEW m \in Msgs,
              Launch(m) \/ LaunchFails(m) \/ Answers(m) \/ Errs(m) \/ Fetch(m)
       PROVE  G
    BY <1>9, <1>1 DEF Launch, Release, Go, Answers, Errs, Trouble, Fetch, Heard, zulip, shared,
      mains, AdmittedStep, Admitting, InAdmission, At, Ended, TurnSteps, Waiting, LaunchFails
  <1>10. ASSUME NEW m \in Msgs, ReplyLook(m) \/ ReplyClaim(m) \/ Post(m) \/ PostFails(m) PROVE G
    BY <1>10, <1>1 DEF ReplyLook, LookAt, Go, ReplyClaim, ClaimRoute, Reserve, Forget, Post,
      PostFails, Release, Trouble, zulip, shared, mains, AdmittedStep, Admitting, InAdmission,
      At, Ended, TurnSteps, Waiting
  <1>11. ASSUME NEW m \in Msgs,
              Publish(m) \/ PublishFails(m) \/ SaveReply(m) \/ SaveReplyFails(m)
       PROVE  G
    BY <1>11, <1>1 DEF Publish, Go, PublishFails, Release, NoteFails, Trouble, SaveReply, zulip,
      mains, AdmittedStep, Admitting, InAdmission, At, Ended, TurnSteps, Waiting, SaveReplyFails
  <1>12. ASSUME NEW M \in SUBSET Msgs, FetchPage(M) PROVE G
    BY <1>12, <1>1 DEF FetchPage, zulip, shared, AdmittedStep, Admitting, InAdmission, At,
      Ended, TurnSteps, Steps, Waiting
  <1>13. ASSUME NEW m \in Msgs, NEW t \in Topics, PostMessage(m, t) PROVE G
    BY <1>13, <1>1 DEF PostMessage, shared, mains, workers, AdmittedStep, Admitting,
      InAdmission, At, Ended, TurnSteps, Waiting
  <1>14. ASSUME NEW m \in Msgs, NEW t \in Places, MoveMessage(m, t) PROVE G
    BY <1>14, <1>1 DEF MoveMessage, Trouble, shared, mains, workers, AdmittedStep, Admitting,
      InAdmission, At, Ended, TurnSteps, Waiting
  <1>15. ASSUME NEW t \in Topics, NEW u \in Topics, Rename(t, u) PROVE G
    BY <1>15, <1>1 DEF Rename, Trouble, shared, mains, workers, AdmittedStep, Admitting,
      InAdmission, At, Ended, TurnSteps, Waiting
  <1>16. ASSUME NEW m \in Msgs, ResolveClaim(m) PROVE G
    <2>1. conv[m] \in Conversations /\ mem \in States
      BY <1>16, <1>1 DEF ResolveClaim, Types, TurnsOK, StatesOK, Good
    <2>2. mem'.reg = Cleared /\ pc = "claim" /\ m = cur
      BY <1>16, <2>1 DEF ResolveClaim, SetRegistry, States
    <2>3. \A n \in Msgs \ {m} : step'[n] = step[n] /\ conv'[n] = conv[n]
      BY <1>16, <1>1 DEF ResolveClaim, Go
    <2>4. ASSUME step'[m] \in Admitting PROVE Prepares(m)
      <3>1. /\ Admissible
            /\ conv' = [conv EXCEPT ![m].thread = view[Main].owner.thread, ![m].sess = view[Main].owner.sess]
        BY <1>16, <1>1, <2>4 DEF ResolveClaim, Go, Admitting
      <3>. QED
        BY <1>1, <2>1, <2>2, <3>1 DEF Prepares, Conversations
    <2>. QED
      BY <2>3, <2>4 DEF AdmittedStep
  <1>. QED
    BY <1>2, <1>3, <1>4, <1>5, <1>6, <1>7, <1>8, <1>9, <1>10, <1>11, <1>12, <1>13, <1>14, <1>15,
      <1>16
      DEF Next, MainNext, WorkerNext, Users

\* What was seen of a message is kept until its conversation is claimed.
SeenStep ==
    pc' = "claim" =>
        \/ /\ pc = "claim" /\ cur' = cur
           /\ view'[Main] = view[Main] /\ conv'[cur] = conv[cur]
        \/ \E m \in Msgs : Resolve(m)

\* What a step does to the view of the main thread in an admission.
LEMMA SeenSteps ==
    ASSUME Types, Next
    PROVE  SeenStep
  <1>1. /\ conv \in [Msgs -> Conversations \cup {NoConv}] /\ step \in [Msgs -> Steps]
        /\ pc = "claim" => cur \in Msgs /\ step[cur] = "fetched"
        /\ pc = "mention" => cur \in Msgs /\ step[cur] = "resolved"
        /\ view \in [Actors -> Views]
    BY DEF Types, TurnsOK, MainOK, ViewsOK, Actors
  <1>2. Main \in Actors /\ (\A m \in Msgs : m \in Actors /\ m # Main)
    BY MainIsNoMessage DEF Actors
  <1>3. CASE FinishEnds \/ CheckSent \/ StayClaim \/ MoveClaim
    BY <1>3, <1>1, <1>2 DEF FinishEnds, CheckSent, JobEnds, NextJob, Forget, LookAt, StayClaim,
      MoveClaim, Reserve, zulip, shared, workers, SeenStep, InAdmission, At, Ended, TurnSteps,
      Steps, Waiting
  <1>4. CASE SaveAttempt \/ SaveAttemptFails \/ Patch \/ PatchFails
    BY <1>4, <1>1, <1>2 DEF SaveAttempt, SaveAttemptFails, Release, Forget, Trouble, Patch,
      MoveReply, PatchFails, JobEnds, NextJob, zulip, shared, workers, SeenStep, InAdmission,
      At, Ended, TurnSteps, Waiting
  <1>5. CASE ReconcileLater \/ PublishRoute \/ PublishRouteFails \/ ReconcileEnds \/ LoopSaveFails
    BY <1>5, <1>1, <1>2 DEF ReconcileLater, NextJob, Forget, Trouble, PublishRoute, Release,
      PublishRouteFails, JobEnds, NoteFails, ReconcileEnds, zulip, shared, workers, SeenStep,
      InAdmission, At, Ended, TurnSteps, Waiting, LoopSaveFails
  <1>6. CASE BeginAdmission \/ SaveAdmission \/ SubmitEnds \/ Crash
    BY <1>6, <1>1, <1>2 DEF BeginAdmission, SaveAdmission, EndAdmission, Undo, Trouble,
      SubmitEnds, Crash, zulip, shared, workers, SeenStep, InAdmission, At, Ended, TurnSteps,
      Steps, Waiting
  <1>7. ASSUME NEW m \in Msgs,
              Finish(m) \/ FinishLater(m) \/ TakeJob(m) \/ Resolve(m) \/ ResolveClaim(m)
        PROVE  SeenStep
    BY <1>7, <1>1, <1>2 DEF Finish, Go, TakeJob, Heard, Resolve, ResolveClaim, SetRegistry,
      Reserve, Forget, zulip, shared, mains, workers, SeenStep, InAdmission, At, Ended,
      TurnSteps, Steps, Waiting, FinishLater, Retired, Trouble
  <1>8. ASSUME NEW m \in Msgs,
              ResolveLater(m) \/ Activate(m) \/ Ignore(m) \/ MentionFails(m) \/
              NoteAdmitted(m) \/ NoteAdmittedFails(m) \/ Submit(m)
       PROVE  SeenStep
    BY <1>8, <1>1, <1>2 DEF ResolveLater, Go, Forget, Trouble, NoteAdmitted, NoteAdmittedFails,
      Undo, EndAdmission, NoteFails, Submit, zulip, shared, mains, SeenStep, InAdmission, At,
      Ended, TurnSteps, Waiting, Activate, Ignore, MentionFails, NextMessage, Release
  <1>9. ASSUME NEW m \in Msgs,
              Steer(m) \/ SteerFails(m) \/ Refresh(m) \/ Look(m) \/ Claim(m)
       PROVE  SeenStep
    BY <1>9, <1>1, <1>2 DEF Steer, Go, Refresh, Look, LookAt, Claim, ClaimRoute, Reserve,
      Forget, zulip, shared, mains, SeenStep, InAdmission, At, Ended, TurnSteps, Waiting,
      SteerFails, Steered, Trouble
  <1>10. ASSUME NEW m \in Msgs,
              NotReady(m) \/ Launch(m) \/ LaunchFails(m) \/ Answers(m) \/ Errs(m)
       PROVE  SeenStep
    BY <1>10, <1>1, <1>2 DEF NotReady, Release, Go, Trouble, Launch, Answers, Errs, zulip,
      shared, mains, SeenStep, InAdmission, At, Ended, TurnSteps, Waiting, LaunchFails
  <1>11. ASSUME NEW m \in Msgs, Fetch(m) \/ ReplyLook(m) \/ ReplyClaim(m) \/ Post(m)
         PROVE  SeenStep
    BY <1>11, <1>1, <1>2 DEF Fetch, Go, Heard, ReplyLook, LookAt, ReplyClaim, ClaimRoute,
      Reserve, Forget, Post, zulip, shared, mains, SeenStep, InAdmission, At, Ended, TurnSteps,
      Steps, Waiting
  <1>12. ASSUME NEW m \in Msgs,
              PostFails(m) \/ Publish(m) \/ PublishFails(m) \/ SaveReply(m) \/ SaveReplyFails(m)
       PROVE  SeenStep
    BY <1>12, <1>1, <1>2 DEF PostFails, Release, Go, Trouble, Publish, PublishFails, NoteFails,
      SaveReply, zulip, mains, SeenStep, InAdmission, At, Ended, TurnSteps, Waiting,
      SaveReplyFails
  <1>13. ASSUME NEW M \in SUBSET Msgs, FetchPage(M) PROVE SeenStep
    BY <1>13, <1>1, <1>2 DEF FetchPage, zulip, shared, SeenStep, InAdmission, At, Ended,
      TurnSteps, Waiting
  <1>14. ASSUME NEW m \in Msgs, NEW t \in Topics, PostMessage(m, t) PROVE SeenStep
    BY <1>14, <1>1, <1>2 DEF PostMessage, shared, mains, workers, SeenStep, InAdmission, At,
      Ended, TurnSteps, Waiting
  <1>15. ASSUME NEW m \in Msgs, NEW t \in Places, MoveMessage(m, t) PROVE SeenStep
    BY <1>15, <1>1, <1>2 DEF MoveMessage, Trouble, shared, mains, workers, SeenStep,
      InAdmission, At, Ended, TurnSteps, Waiting
  <1>16. ASSUME NEW t \in Topics, NEW u \in Topics, Rename(t, u) PROVE SeenStep
    BY <1>16, <1>1, <1>2 DEF Rename, Trouble, shared, mains, workers, SeenStep, InAdmission, At,
      Ended, TurnSteps, Waiting
  <1>. QED
    BY <1>3, <1>4, <1>5, <1>6, <1>7, <1>8, <1>9, <1>10, <1>11, <1>12, <1>13, <1>14, <1>15, <1>16
      DEF Next, MainNext, WorkerNext, Users

\* What was seen of a job is kept until its route is published.
JobSeenStep ==
    pc' \in LookedPcs =>
        \/ pc \in LookedPcs /\ view'[Main].owner = view[Main].owner
        \/ CheckSent

\* What a step does to the view of the main thread in a reconciliation.
LEMMA JobSeenSteps ==
    ASSUME Types, Next
    PROVE  JobSeenStep
  <1>1. view \in [Actors -> Views]
    BY DEF Types, ViewsOK, Actors
  <1>2. Main \in Actors /\ (\A m \in Msgs : m \in Actors /\ m # Main)
    BY MainIsNoMessage DEF Actors
  <1>3. CASE FinishEnds \/ CheckSent \/ StayClaim \/ MoveClaim
    BY <1>3, <1>1, <1>2 DEF FinishEnds, CheckSent, JobEnds, NextJob, Forget, LookAt, StayClaim,
      MoveClaim, Reserve, zulip, shared, workers, JobSeenStep, LookedPcs
  <1>4. CASE SaveAttempt \/ SaveAttemptFails \/ Patch \/ PatchFails
    BY <1>4, <1>1, <1>2 DEF SaveAttempt, SaveAttemptFails, Release, Forget, Trouble, Patch,
      MoveReply, PatchFails, JobEnds, NextJob, zulip, shared, workers, JobSeenStep, LookedPcs
  <1>5. CASE ReconcileLater \/ PublishRoute \/ PublishRouteFails \/ ReconcileEnds \/ LoopSaveFails
    BY <1>5, <1>1, <1>2 DEF ReconcileLater, NextJob, Forget, Trouble, PublishRoute, Release,
      PublishRouteFails, JobEnds, NoteFails, ReconcileEnds, zulip, shared, workers, JobSeenStep,
      LookedPcs, LoopSaveFails
  <1>6. CASE BeginAdmission \/ SaveAdmission \/ SubmitEnds \/ Crash
    BY <1>6, <1>1, <1>2 DEF BeginAdmission, SaveAdmission, EndAdmission, Undo, Trouble,
      SubmitEnds, Crash, zulip, shared, workers, JobSeenStep, LookedPcs
  <1>7. ASSUME NEW m \in Msgs,
              Finish(m) \/ FinishLater(m) \/ TakeJob(m) \/ Resolve(m) \/ ResolveClaim(m)
        PROVE  JobSeenStep
    BY <1>7, <1>1, <1>2 DEF Finish, Go, TakeJob, Heard, Resolve, ResolveClaim, SetRegistry,
      Reserve, Forget, zulip, shared, mains, workers, JobSeenStep, LookedPcs, FinishLater,
      Retired, Trouble
  <1>8. ASSUME NEW m \in Msgs,
              ResolveLater(m) \/ Activate(m) \/ Ignore(m) \/ MentionFails(m) \/
              NoteAdmitted(m) \/ NoteAdmittedFails(m) \/ Submit(m)
       PROVE  JobSeenStep
    BY <1>8, <1>1, <1>2 DEF ResolveLater, Go, Forget, Trouble, NoteAdmitted, NoteAdmittedFails,
      Undo, EndAdmission, NoteFails, Submit, zulip, shared, mains, JobSeenStep, LookedPcs,
      Activate, Ignore, MentionFails, NextMessage, Release
  <1>9. ASSUME NEW m \in Msgs,
              Steer(m) \/ SteerFails(m) \/ Refresh(m) \/ Look(m) \/ Claim(m)
       PROVE  JobSeenStep
    BY <1>9, <1>1, <1>2 DEF Steer, Go, Refresh, Look, LookAt, Claim, ClaimRoute, Reserve,
      Forget, zulip, shared, mains, JobSeenStep, LookedPcs, SteerFails, Steered, Trouble
  <1>10. ASSUME NEW m \in Msgs, NotReady(m) \/ Launch(m) \/ LaunchFails(m) \/ Answers(m) \/ Errs(m)
         PROVE  JobSeenStep
    BY <1>10, <1>1, <1>2 DEF NotReady, Release, Go, Trouble, Launch, Answers, Errs, zulip,
      shared, mains, JobSeenStep, LookedPcs, LaunchFails
  <1>11. ASSUME NEW m \in Msgs, Fetch(m) \/ ReplyLook(m) \/ ReplyClaim(m) \/ Post(m)
         PROVE  JobSeenStep
    BY <1>11, <1>1, <1>2 DEF Fetch, Go, Heard, ReplyLook, LookAt, ReplyClaim, ClaimRoute,
      Reserve, Forget, Post, zulip, shared, mains, JobSeenStep, LookedPcs
  <1>12. ASSUME NEW m \in Msgs,
              PostFails(m) \/ Publish(m) \/ PublishFails(m) \/ SaveReply(m) \/ SaveReplyFails(m)
       PROVE  JobSeenStep
    BY <1>12, <1>1, <1>2 DEF PostFails, Release, Go, Trouble, Publish, PublishFails, NoteFails,
      SaveReply, zulip, mains, JobSeenStep, LookedPcs, SaveReplyFails
  <1>13. ASSUME NEW M \in SUBSET Msgs, FetchPage(M) PROVE JobSeenStep
    BY <1>13, <1>1, <1>2 DEF FetchPage, zulip, shared, JobSeenStep, LookedPcs
  <1>14. ASSUME NEW m \in Msgs, NEW t \in Topics, PostMessage(m, t) PROVE JobSeenStep
    BY <1>14, <1>1, <1>2 DEF PostMessage, shared, mains, workers, JobSeenStep, LookedPcs
  <1>15. ASSUME NEW m \in Msgs, NEW t \in Places, MoveMessage(m, t) PROVE JobSeenStep
    BY <1>15, <1>1, <1>2 DEF MoveMessage, Trouble, shared, mains, workers, JobSeenStep,
      LookedPcs
  <1>16. ASSUME NEW t \in Topics, NEW u \in Topics, Rename(t, u) PROVE JobSeenStep
    BY <1>16, <1>1, <1>2 DEF Rename, Trouble, shared, mains, workers, JobSeenStep, LookedPcs
  <1>. QED
    BY <1>3, <1>4, <1>5, <1>6, <1>7, <1>8, <1>9, <1>10, <1>11, <1>12, <1>13, <1>14, <1>15, <1>16
      DEF Next, MainNext, WorkerNext, Users

TurnAfter(x) == \E n \in Msgs : step'[n] \in TurnSteps /\ conv'[n].thread = x

\* A session that was known stays so during an admission.
LEMMA SessionKept ==
    ASSUME Types, AdmittedSessions, JobSessions, Next, pc # "finish", pc' # "finish",
           NEW x \in Threads, NEW s, SessionKnown(x, s)
    PROVE  s = mem'.reg.sess[x] \/ (s = NoSession /\ TurnAfter(x))
  <1>1. ~ Crash /\ ~ Undone
    BY DEF Crash, Undone
  <1>2. HasTurn(x) => TurnAfter(x)
    BY HasTurnStep DEF HasTurn, TurnAfter
  <1>3. CASE mem'.reg.sess[x] = mem.reg.sess[x]
    BY <1>2, <1>3 DEF SessionKnown
  <1>4. ASSUME mem.reg.sess[x] = NoSession, NEW m \in Msgs, step[m] \in TurnSteps, conv[m].thread = x
        PROVE  s = NoSession /\ TurnAfter(x)
    <2>1. s = NoSession /\ HasTurn(x)
      BY <1>4 DEF SessionKnown, HasTurn
    <2>. QED
      BY <1>2, <2>1
  <1>. QED
    BY <1>1, <1>3, <1>4, SessionSteps DEF SessionStep

\* An admitted message has no session that its thread has not.
LEMMA AdmittedSessionsStep ==
    ASSUME Types, NamesOwned, Phases, AdmittedSessions, JobSessions, Next
    PROVE  AdmittedSessions'
  <1>1. Phases' /\ Types'
    BY PhasesStep, TypesStep
  <1>2. ASSUME NEW m \in Msgs, step'[m] \in Admitting
        PROVE  SessionKnown(conv[m].thread, conv[m].sess)'
    <2>1. pc' # "finish"
      BY <1>1, <1>2 DEF Phases, AdmittedPcs, Admitting
    <2>2. CASE step[m] \in Admitting /\ conv'[m] = conv[m]
      <3>1. /\ pc # "finish" /\ conv[m].thread \in Threads
            /\ SessionKnown(conv[m].thread, conv[m].sess)
        BY <2>2 DEF Phases, AdmittedPcs, Admitting, AdmittedSessions, Types, TurnsOK, Routed
      <3>2. SessionKnown(conv[m].thread, conv[m].sess)'
        <4>. DEFINE x == conv[m].thread
                    s == conv[m].sess
        <4>1. x = conv'[m].thread /\ s = conv'[m].sess /\ x \in Threads /\ SessionKnown(x, s)
          BY <2>2, <3>1
        <4>. HIDE DEF x, s
        <4>2. s = mem'.reg.sess[x] \/ (s = NoSession /\ TurnAfter(x))
          BY <2>1, <3>1, <4>1, SessionKept
        <4>. QED
          BY <4>1, <4>2 DEF SessionKnown, HasTurn, TurnAfter
      <3>. QED
        BY <3>2
    <2>3. CASE Prepares(m)
      <3>. DEFINE x == view[Main].owner.thread
                  s == view[Main].owner.sess
      <3>1. /\ pc = "claim" /\ x \in Threads /\ SessionKnown(x, s)
            /\ x = conv'[m].thread /\ s = conv'[m].sess
        BY <2>3 DEF Prepares, Admissible, Unchanged, AdmittedSessions, Types, ViewsOK
      <3>. HIDE DEF x, s
      <3>2. s = mem'.reg.sess[x] \/ (s = NoSession /\ TurnAfter(x))
        BY <2>1, <3>1, SessionKept
      <3>. QED
        BY <3>1, <3>2 DEF SessionKnown, HasTurn, TurnAfter
    <2>. QED
      BY <1>2, <2>2, <2>3, AdmittedSteps DEF AdmittedStep
  <1>3. ASSUME pc' = "claim", view'[Main].ok
        PROVE  /\ target' = conv'[cur'].topic
               /\ SessionKnown(view[Main].owner.thread, view[Main].owner.sess)'
    <2>1. CASE pc = "claim" /\ cur' = cur /\ view'[Main] = view[Main] /\ conv'[cur] = conv[cur]
      <3>. DEFINE x == view[Main].owner.thread
                  s == view[Main].owner.sess
      <3>1. /\ x \in Threads /\ SessionKnown(x, s) /\ target = conv[cur].topic
            /\ x = view'[Main].owner.thread /\ s = view'[Main].owner.sess /\ target' = target
        BY <1>3, <2>1 DEF AdmittedSessions, Types, ViewsOK, target
      <3>. HIDE DEF x, s
      <3>2. s = mem'.reg.sess[x] \/ (s = NoSession /\ TurnAfter(x))
        BY <1>3, <2>1, <3>1, SessionKept
      <3>. QED
        BY <2>1, <3>1, <3>2 DEF SessionKnown, HasTurn, TurnAfter
    <2>2. ASSUME NEW m \in Msgs, Resolve(m)
          PROVE  /\ target' = conv'[cur'].topic
                 /\ SessionKnown(view[Main].owner.thread, view[Main].owner.sess)'
      <3>. DEFINE t == conv[m].topic
                  ok == CanResolve(mem.reg, where, m, t)
                  stale == IF ok /\ StaleOwner(mem.reg, where, t) THEN StoredOwner(mem.reg, t) ELSE NoOwner
                  c == Resolved(mem.reg, where, m, t)
      <3>1. t \in Topics /\ RegistryOK(mem.reg) /\ Backed(mem.reg)
        BY <2>2 DEF Resolve, At, Types, TurnsOK, Conversations, StatesOK, Good, NamesOwned
      <3>2. /\ view'[Main] = HasResolved(m, t, ok, stale) /\ cur' = m /\ mem' = mem /\ conv' = conv
        BY <2>2 DEF Resolve, HasResolved, shared, workers, Types, ViewsOK
      <3>. HIDE DEF t, stale, c
      <3>3. ok
        BY <1>3, <3>2 DEF HasResolved
      <3>4. c.sess = mem.reg.sess[c.thread]
        BY <3>1, <3>3, ResolvedFacts DEF c
      <3>5. view'[Main].owner.thread = c.thread /\ view'[Main].owner.sess = c.sess /\ target' = t
        BY <3>2, <3>3 DEF HasResolved, OwnerOf, c, target
      <3>. QED
        BY <3>2, <3>4, <3>5 DEF SessionKnown, t
    <2>. QED
      BY <1>3, <2>1, <2>2, SeenSteps DEF SeenStep
  <1>. QED
    BY <1>2, <1>3 DEF AdmittedSessions

\* A job has no session that its thread has not.
LEMMA JobSessionsStep ==
    ASSUME Types, CopyIsOlder, AdmittedSessions, JobSessions, Next
    PROVE  JobSessions'
  <1>1. Types' /\ RegistryOK(mem.reg)
    BY TypesStep DEF Types, StatesOK, Good
  <1>2. ASSUME pc' \in RecPcs PROVE job'.sess \in {NoSession, mem'.reg.sess[job'.thread]}
    <2>1. CASE pc \in RecPcs /\ job'.thread = job.thread /\ job'.sess = job.sess
      <3>. DEFINE y == job.thread
      <3>1. y \in Threads /\ job.sess \in {NoSession, mem.reg.sess[y]}
        BY <2>1 DEF Types, MainOK, Jobs, JobSessions
      <3>2. ~ Crash /\ ~ Undone
        BY <1>2 DEF Crash, Undone, RecPcs
      <3>. QED
        BY <2>1, <3>1, <3>2, SessionSteps DEF SessionStep
    <2>2. ASSUME NEW m \in Msgs, job' = mem.jobs[m], JobIsOwned(m), mem' = mem
          PROVE  job'.sess \in {NoSession, mem'.reg.sess[job'.thread]}
      BY <2>2 DEF JobIsOwned
    <2>. QED
      BY <1>2, <2>1, <2>2, JobTakenSteps DEF JobTaken, Continues
  <1>3. ASSUME pc' \in LookedPcs
        PROVE  /\ view'[Main].owner.thread = job'.thread
               /\ view'[Main].owner.sess \in {NoSession, mem'.reg.sess[job'.thread]}
    <2>1. CASE pc \in LookedPcs /\ view'[Main].owner = view[Main].owner
      <3>. DEFINE y == job.thread
      <3>1. job'.thread = job.thread
        BY <1>3, JobTakenSteps DEF JobTaken, Continues, LookedPcs, RecPcs
      <3>2. /\ view[Main].owner.thread = y /\ view[Main].owner.sess \in {NoSession, mem.reg.sess[y]}
            /\ y \in Threads
        BY <2>1 DEF JobSessions, Types, MainOK, Jobs, LookedPcs, RecPcs
      <3>3. ~ Crash /\ ~ Undone
        BY <1>3 DEF Crash, Undone, LookedPcs
      <3>. QED
        BY <2>1, <3>1, <3>2, <3>3, SessionSteps DEF SessionStep
    <2>2. CASE CheckSent
      <3>1. /\ view' = [view EXCEPT ![Main] = Looked(JobConversation, target)]
            /\ job' = job /\ mem' = mem /\ pc = "sent"
        BY <1>3, <2>2 DEF CheckSent, LookAt, Looked, NextJob, LookedPcs
      <3>2. view'[Main].owner = SourceOwner(mem.reg, JobConversation)
        BY <3>1 DEF Looked, Types, ViewsOK
      <3>3. job.sess \in {NoSession, mem.reg.sess[job.thread]}
        BY <3>1 DEF JobSessions, RecPcs
      <3>. QED
        BY <3>1, <3>2, <3>3 DEF SourceOwner, JobConversation
    <2>. QED
      BY <1>3, <2>1, <2>2, JobSeenSteps DEF JobSeenStep
  <1>. QED
    BY <1>2, <1>3 DEF JobSessions

\* What a turn reserves is what it carries.
SeenOwners ==
    \A m \in Msgs :
        /\ step[m] \in {"claim", "replyClaim"} => view[m].owner = OwnerOf(conv[m])
        /\ step[m] = "claim" => view[m].topic = conv[m].topic

TurnSeenStep(m) ==
    step'[m] \in {"claim", "replyClaim"} =>
        \/ step'[m] = step[m] /\ view'[m] = view[m] /\ conv'[m] = conv[m]
        \/ Look(m) \/ ReplyLook(m)

\* What a step does to the view of a turn.
LEMMA TurnSeenSteps ==
    ASSUME Types, Next
    PROVE  \A m \in Msgs : TurnSeenStep(m)
  <1>. DEFINE G == \A n \in Msgs : TurnSeenStep(n)
  <1>1. /\ conv \in [Msgs -> Conversations \cup {NoConv}] /\ step \in [Msgs -> Steps]
        /\ pc = "claim" => cur \in Msgs /\ step[cur] = "fetched"
        /\ pc = "mention" => cur \in Msgs /\ step[cur] = "resolved"
        /\ view \in [Actors -> Views]
    BY DEF Types, TurnsOK, MainOK, ViewsOK, Actors
  <1>2. Main \in Actors /\ (\A m \in Msgs : m \in Actors /\ m # Main)
    BY MainIsNoMessage DEF Actors
  <1>3. CASE FinishEnds \/ CheckSent \/ StayClaim \/ MoveClaim
    BY <1>3, <1>1, <1>2 DEF FinishEnds, CheckSent, JobEnds, NextJob, Forget, LookAt, StayClaim,
      MoveClaim, Reserve, zulip, shared, workers, TurnSeenStep, InAdmission, At, Ended, Waiting
  <1>4. CASE SaveAttempt \/ SaveAttemptFails \/ Patch \/ PatchFails
    BY <1>4, <1>1, <1>2 DEF SaveAttempt, SaveAttemptFails, Release, Forget, Trouble, Patch,
      MoveReply, PatchFails, JobEnds, NextJob, zulip, shared, workers, TurnSeenStep,
      InAdmission, At, Ended, Waiting
  <1>5. CASE ReconcileLater \/ PublishRoute \/ PublishRouteFails \/ ReconcileEnds \/ LoopSaveFails
    BY <1>5, <1>1, <1>2 DEF ReconcileLater, NextJob, Forget, Trouble, PublishRoute, Release,
      PublishRouteFails, JobEnds, NoteFails, ReconcileEnds, zulip, shared, workers,
      TurnSeenStep, InAdmission, At, Ended, Waiting, LoopSaveFails
  <1>6. CASE BeginAdmission \/ SaveAdmission \/ SubmitEnds \/ Crash
    BY <1>6, <1>1, <1>2 DEF BeginAdmission, SaveAdmission, EndAdmission, Undo, Trouble,
      SubmitEnds, Crash, zulip, shared, workers, TurnSeenStep, InAdmission, At, Ended, Waiting
  <1>7. ASSUME NEW m \in Msgs,
              Finish(m) \/ FinishLater(m) \/ TakeJob(m) \/ Resolve(m) \/ ResolveClaim(m)
       PROVE  G
    BY <1>7, <1>1, <1>2 DEF Finish, Go, TakeJob, Heard, Resolve, ResolveClaim, SetRegistry,
      Reserve, Forget, zulip, shared, mains, workers, TurnSeenStep, InAdmission, At, Ended,
      Waiting, FinishLater, Retired, Trouble
  <1>8. ASSUME NEW m \in Msgs,
              ResolveLater(m) \/ Activate(m) \/ Ignore(m) \/ MentionFails(m) \/
              NoteAdmitted(m) \/ NoteAdmittedFails(m) \/ Submit(m)
       PROVE  G
    BY <1>8, <1>1, <1>2 DEF ResolveLater, Go, Forget, Trouble, NoteAdmitted, NoteAdmittedFails,
      Undo, EndAdmission, NoteFails, Submit, zulip, shared, mains, TurnSeenStep, InAdmission,
      At, Ended, Waiting, Activate, Ignore, MentionFails, NextMessage, Release
  <1>9. ASSUME NEW m \in Msgs,
              Steer(m) \/ SteerFails(m) \/ Refresh(m) \/ Look(m) \/ Claim(m)
       PROVE  G
    BY <1>9, <1>1, <1>2 DEF Steer, Go, Refresh, Look, LookAt, Claim, ClaimRoute, Reserve,
      Forget, zulip, shared, mains, TurnSeenStep, InAdmission, At, Ended, Waiting, SteerFails,
      Steered, Trouble
  <1>10. ASSUME NEW m \in Msgs,
              NotReady(m) \/ Launch(m) \/ LaunchFails(m) \/ Answers(m) \/ Errs(m)
       PROVE  G
    BY <1>10, <1>1, <1>2 DEF NotReady, Release, Go, Trouble, Launch, Answers, Errs, zulip,
      shared, mains, TurnSeenStep, InAdmission, At, Ended, Waiting, LaunchFails
  <1>11. ASSUME NEW m \in Msgs, Fetch(m) \/ ReplyLook(m) \/ ReplyClaim(m) \/ Post(m) PROVE G
    BY <1>11, <1>1, <1>2 DEF Fetch, Go, Heard, ReplyLook, LookAt, ReplyClaim, ClaimRoute,
      Reserve, Forget, Post, zulip, shared, mains, TurnSeenStep, InAdmission, At, Ended, Waiting
  <1>12. ASSUME NEW m \in Msgs,
              PostFails(m) \/ Publish(m) \/ PublishFails(m) \/ SaveReply(m) \/ SaveReplyFails(m)
       PROVE  G
    BY <1>12, <1>1, <1>2 DEF PostFails, Release, Go, Trouble, Publish, PublishFails, NoteFails,
      SaveReply, zulip, mains, TurnSeenStep, InAdmission, At, Ended, Waiting, SaveReplyFails
  <1>13. ASSUME NEW M \in SUBSET Msgs, FetchPage(M) PROVE G
    BY <1>13, <1>1, <1>2 DEF FetchPage, zulip, shared, TurnSeenStep, InAdmission, At, Ended,
      Waiting
  <1>14. ASSUME NEW m \in Msgs, NEW t \in Topics, PostMessage(m, t) PROVE G
    BY <1>14, <1>1, <1>2 DEF PostMessage, shared, mains, workers, TurnSeenStep, InAdmission, At,
      Ended, Waiting
  <1>15. ASSUME NEW m \in Msgs, NEW t \in Places, MoveMessage(m, t) PROVE G
    BY <1>15, <1>1, <1>2 DEF MoveMessage, Trouble, shared, mains, workers, TurnSeenStep,
      InAdmission, At, Ended, Waiting
  <1>16. ASSUME NEW t \in Topics, NEW u \in Topics, Rename(t, u) PROVE G
    BY <1>16, <1>1, <1>2 DEF Rename, Trouble, shared, mains, workers, TurnSeenStep, InAdmission,
      At, Ended, Waiting
  <1>. QED
    BY <1>3, <1>4, <1>5, <1>6, <1>7, <1>8, <1>9, <1>10, <1>11, <1>12, <1>13, <1>14, <1>15, <1>16
      DEF Next, MainNext, WorkerNext, Users

\* A look finds the owner that the turn carries.
LEMMA SeenOwnersStep ==
    ASSUME Types, TurnSessions, SeenOwners, Next
    PROVE  SeenOwners'
  <1>. SUFFICES ASSUME NEW m \in Msgs, step'[m] \in {"claim", "replyClaim"}
                PROVE  /\ view'[m].owner = OwnerOf(conv'[m])
                       /\ step'[m] = "claim" => view'[m].topic = conv'[m].topic
    BY DEF SeenOwners, OwnerOf
  <1>1. CASE step'[m] = step[m] /\ view'[m] = view[m] /\ conv'[m] = conv[m]
    BY <1>1 DEF SeenOwners
  <1>2. CASE Look(m) \/ ReplyLook(m)
    <2>1. /\ conv' = conv
          /\ \E t : view'[m] = Looked(conv[m], t) /\ (Look(m) => t = conv[m].topic)
          /\ step[m] \in {"look", "replyLook"} /\ step'[m] = IF step[m] = "look" THEN "claim" ELSE "replyClaim"
      BY <1>2 DEF Look, ReplyLook, LookAt, Looked, Go, Types, ViewsOK, TurnsOK
    <2>2. /\ mem.reg.sess[conv[m].thread] \in {NoSession, conv[m].sess}
      BY <2>1 DEF TurnSessions, TurnSteps
    <2>3. SourceOwner(mem.reg, conv[m]) = OwnerOf(conv[m])
      BY <2>2 DEF SourceOwner, OwnerOf
    <2>4. Look(m) <=> step[m] = "look"
      BY <1>2 DEF Look, ReplyLook
    <2>. QED
      BY <2>1, <2>3, <2>4 DEF Looked
  <1>. QED
    BY <1>1, <1>2, TurnSeenSteps DEF TurnSeenStep

\* The holder of a reservation has what it reserved.
HoldingSteps == {"ready", "post", "publish", "save"}
HoldingPcs == {"recSave", "patch", "recNote"}

Fits(r, c) == r.topic = c.topic /\ r.owner = OwnerOf(c)

TurnHolds(r, m) == r.by = Turn(m) /\ step[m] \in HoldingSteps /\ Fits(r, conv[m])
AdmissionHolds(r, m) ==
    /\ r.by = Admission(m)
    /\ step[m] \in Admitting /\ pc \in AdmittedPcs
    /\ Fits(r, conv[m])
ReconciliationHolds(r) ==
    /\ r.by = Reconciliation(cur)
    /\ pc \in HoldingPcs
    /\ r.topic = target /\ r.owner = view[Main].owner

\* A lost reservation, which nobody holds any more, brings no session that its thread has
\* not, whatever is undone.
NobodyHolds(r) ==
    /\ r.by = Nobody
    /\ r.owner.thread \in Threads
    /\ r.owner.sess \in {NoSession, mem.reg.sess[r.owner.thread]}
    /\ pc = "note" => r.owner.sess \in {NoSession, saved.mem.reg.sess[r.owner.thread]}

Holder(r) ==
    \/ \E m \in Msgs : TurnHolds(r, m) \/ AdmissionHolds(r, m)
    \/ ReconciliationHolds(r)
    \/ NobodyHolds(r)

HoldersKnown == \A r \in rsv : Holder(r)

Reserved ==
    \A m \in Msgs :
        /\ step[m] \in {"resolved", "prepared"} => \E r \in rsv : r.by = Admission(m)
        /\ step[m] \in {"post", "publish"} => \E r \in rsv : r.by = Turn(m)

\* A reserved topic has no other owner, and its name is not reserved for two.
Free(reg, r) ==
    /\ reg.alias[Name[r.topic]] \in {NoThread, r.owner.thread}
    /\ reg.topicSess[r.topic] \in {NoSession, reg.sess[r.owner.thread]}

NamesFree == \A r \in rsv : Free(mem.reg, r)
Compatible == \A q, r \in rsv : Name[q.topic] = Name[r.topic] => ~ OwnersConflict(q.owner, r.owner)

\* The reservation r that a step of actor a adds.
Takes(a, r) ==
    /\ rsv' = rsv \cup {r}
    /\ r.topic = view[a].topic /\ r.owner = view[a].owner
    /\ Reservable(a)
    /\ StillFree(mem'.reg, r.owner, r.topic)

TurnAdds(m, r) ==
    /\ Takes(m, r)
    /\ r.by = Turn(m)
    /\ conv'[m].sess = conv[m].sess /\ conv'[m].thread = conv[m].thread
    /\ \/ step[m] = "claim" /\ step'[m] = "ready" /\ conv'[m].topic = conv[m].topic
       \/ step[m] = "replyClaim" /\ step'[m] = "post" /\ conv'[m].topic = view[m].topic

AdmissionAdds(r) ==
    /\ Takes(Main, r)
    /\ r.by = Admission(cur)
    /\ pc = "claim" /\ pc' = "mention" /\ cur \in Msgs /\ step'[cur] = "resolved" /\ view[Main].ok

ReconciliationAdds(r) ==
    /\ Takes(Main, r)
    /\ r.by = Reconciliation(cur)
    /\ pc = "moveClaim" /\ pc' = "recSave" /\ cur' = cur /\ view'[Main] = view[Main]

AddStep ==
    \/ rsv' \subseteq rsv
    \/ \E r : (\E m \in Msgs : TurnAdds(m, r)) \/ AdmissionAdds(r) \/ ReconciliationAdds(r)
    \/ \E m \in Msgs : MentionFails(m)

\* The reservation q of the message m becomes the reservation r of nobody.
Loses(m, q, r) ==
    /\ MentionFails(m)
    /\ q \in rsv /\ q.by = Admission(m)
    /\ r.by = Nobody /\ r.topic = q.topic /\ r.owner = q.owner

\* A failed look at the mention changes no other reservation.
LEMMA LostFacts ==
    ASSUME Types, NEW m \in Msgs, MentionFails(m)
    PROVE  /\ \A r \in rsv' : r \in rsv \/ \E q \in rsv : Loses(m, q, r)
           /\ \A r \in rsv' : r.by # Admission(m)
           /\ \A q \in rsv : q.by # Admission(m) => q \in rsv'
  <1>. DEFINE f(r) == [r EXCEPT !.by = IF @ = Admission(m) THEN Nobody ELSE @]
  <1>1. rsv' = {f(r) : r \in rsv} /\ rsv \subseteq [by : Holders, topic : Topics, owner : Owners]
    BY DEF MentionFails, Types, ReservationsOK
  <1>2. Nobody # Admission(m)
    BY DEF Nobody, Admission
  <1>3. ASSUME NEW q \in rsv
        PROVE  /\ q.by = Admission(m) => f(q).by = Nobody /\ f(q).topic = q.topic /\ f(q).owner = q.owner
               /\ q.by # Admission(m) => f(q) = q
    BY <1>1
  <1>. HIDE DEF f
  <1>. QED
    BY <1>1, <1>2, <1>3 DEF Loses

\* A step reserves one name at most, and only one that is free.
LEMMA AddSteps ==
    ASSUME Types, Next
    PROVE  AddStep
  <1>1. /\ conv \in [Msgs -> Conversations \cup {NoConv}] /\ step \in [Msgs -> Steps]
        /\ pc = "claim" => cur \in Msgs /\ step[cur] = "fetched"
        /\ pc = "mention" => cur \in Msgs /\ step[cur] = "resolved"
        /\ view \in [Actors -> Views]
    BY DEF Types, TurnsOK, MainOK, ViewsOK, Actors
  <1>2. Main \in Actors /\ (\A m \in Msgs : m \in Actors /\ m # Main)
    BY MainIsNoMessage DEF Actors
  <1>3. CASE FinishEnds \/ CheckSent \/ StayClaim \/ SaveAttempt
            \/ SaveAttemptFails \/ Patch \/ PatchFails
    BY <1>3 DEF FinishEnds, CheckSent, JobEnds, NextJob, Forget, LookAt, StayClaim, SaveAttempt,
      SaveAttemptFails, Release, Trouble, Patch, MoveReply, PatchFails, zulip, shared, workers,
      AddStep
  <1>4. CASE ReconcileLater \/ PublishRoute \/ PublishRouteFails \/ ReconcileEnds \/ LoopSaveFails
            \/ BeginAdmission \/ SaveAdmission \/ SubmitEnds
    BY <1>4 DEF ReconcileLater, NextJob, Forget, Trouble, PublishRoute, Release,
      PublishRouteFails, JobEnds, NoteFails, ReconcileEnds, BeginAdmission, SaveAdmission,
      EndAdmission, Undo, SubmitEnds, zulip, shared, workers, AddStep, LoopSaveFails
  <1>5. CASE Crash
    BY <1>5 DEF Crash, Trouble, zulip, AddStep
  <1>6. ASSUME NEW m \in Msgs,
              Finish(m) \/ FinishLater(m) \/ TakeJob(m) \/ Resolve(m) \/ ResolveLater(m) \/
              Activate(m) \/ Ignore(m) \/ NoteAdmitted(m) \/ NoteAdmittedFails(m) \/ Submit(m)
       PROVE  AddStep
    BY <1>6 DEF Finish, Go, TakeJob, Heard, Resolve, ResolveLater, Forget, Trouble,
      NoteAdmitted, NoteAdmittedFails, Undo, EndAdmission, NoteFails, Submit, zulip, shared,
      mains, workers, AddStep, Activate, Ignore, NextMessage, Release,
      FinishLater, Retired
  <1>7. ASSUME NEW m \in Msgs,
              Steer(m) \/ SteerFails(m) \/ Refresh(m) \/ Look(m) \/ NotReady(m) \/
              Launch(m) \/ LaunchFails(m) \/ Answers(m) \/ Errs(m)
       PROVE  AddStep
    BY <1>7 DEF Steer, Go, Refresh, Look, LookAt, NotReady, Release, Trouble, Launch, Answers,
      Errs, zulip, shared, mains, AddStep, LaunchFails, SteerFails, Steered
  <1>8. ASSUME NEW m \in Msgs,
              Fetch(m) \/ ReplyLook(m) \/ Post(m) \/ PostFails(m) \/
              Publish(m) \/ PublishFails(m) \/ SaveReply(m) \/ SaveReplyFails(m)
       PROVE  AddStep
    BY <1>8 DEF Fetch, Go, Heard, ReplyLook, LookAt, Post, PostFails, Release, Trouble, Publish,
      PublishFails, NoteFails, SaveReply, zulip, shared, mains, AddStep, SaveReplyFails
  <1>9. ASSUME NEW M \in SUBSET Msgs, FetchPage(M) PROVE AddStep
    BY <1>9 DEF FetchPage, zulip, shared, AddStep
  <1>10. ASSUME NEW m \in Msgs, NEW t \in Topics, PostMessage(m, t) PROVE AddStep
    BY <1>10 DEF PostMessage, shared, mains, workers, AddStep
  <1>11. ASSUME NEW m \in Msgs, NEW t \in Places, MoveMessage(m, t) PROVE AddStep
    BY <1>11 DEF MoveMessage, Trouble, shared, mains, workers, AddStep
  <1>12. ASSUME NEW t \in Topics, NEW u \in Topics, Rename(t, u) PROVE AddStep
    BY <1>12 DEF Rename, Trouble, shared, mains, workers, AddStep
  <1>13. CASE MoveClaim
    <2>. DEFINE r == [by |-> Reconciliation(cur), topic |-> view[Main].topic, owner |-> view[Main].owner]
    <2>1. CASE Confirmed(Main) /\ Reservable(Main)
      <3>1. /\ rsv' = rsv \cup {r} /\ pc = "moveClaim" /\ pc' = "recSave" /\ cur' = cur /\ view' = view
            /\ mem' = mem \/ mem' = [mem EXCEPT !.jobs[cur] = Tried(job, target)]
        BY <1>13, <2>1 DEF MoveClaim, Reserve
      <3>2. mem'.reg = mem.reg
        BY <3>1 DEF Types, StatesOK, Good, States
      <3>3. StillFree(mem'.reg, r.owner, r.topic)
        BY <2>1, <3>2 DEF Confirmed
      <3>4. ReconciliationAdds(r)
        BY <2>1, <3>1, <3>3 DEF ReconciliationAdds, Takes
      <3>. QED
        BY <3>4 DEF AddStep
    <2>2. CASE ~ (Confirmed(Main) /\ Reservable(Main))
      BY <1>13, <2>2 DEF MoveClaim, AddStep
    <2>. QED
      BY <2>1, <2>2
  <1>14. ASSUME NEW m \in Msgs, ResolveClaim(m) PROVE AddStep
    <2>. DEFINE r == [by |-> Admission(m), topic |-> view[Main].topic, owner |-> view[Main].owner]
    <2>1. CASE rsv' = rsv
      BY <2>1 DEF AddStep
    <2>2. CASE Admissible /\ rsv' = rsv \cup {r} /\ step' = [step EXCEPT ![m] = "resolved"]
      <3>1. mem'.reg = Cleared /\ pc = "claim" /\ pc' = "mention" /\ m = cur
        BY <1>14, <2>2 DEF Go, ResolveClaim, SetRegistry, Types, StatesOK, Good, States
      <3>2. StillFree(mem'.reg, r.owner, r.topic) /\ Reservable(Main) /\ view[Main].ok
        BY <2>2, <3>1 DEF Admissible, Unchanged, target
      <3>3. AdmissionAdds(r)
        BY <1>1, <2>2, <3>1, <3>2 DEF AdmissionAdds, Takes
      <3>. QED
        BY <3>3 DEF AddStep
    <2>. QED
      BY <1>14, <2>1, <2>2 DEF ResolveClaim, Reserve, Go
  <1>15. ASSUME NEW m \in Msgs, Claim(m) PROVE AddStep
    <2>. DEFINE r == [by |-> Turn(m), topic |-> view[m].topic, owner |-> view[m].owner]
    <2>1. CASE Confirmed(m) /\ Reservable(m)
      <3>1. rsv' = rsv \cup {r} /\ step' = [step EXCEPT ![m] = "ready"] /\ conv' = conv /\ mem' = mem
        BY <1>15, <2>1 DEF Claim, ClaimRoute, Reserve, Go
      <3>2. StillFree(mem'.reg, r.owner, r.topic)
        BY <2>1, <3>1 DEF Confirmed
      <3>3. TurnAdds(m, r)
        BY <1>15, <1>1, <2>1, <3>1, <3>2 DEF TurnAdds, Takes, Claim
      <3>. QED
        BY <3>3 DEF AddStep
    <2>2. CASE ~ (Confirmed(m) /\ Reservable(m))
      BY <1>15, <2>2 DEF Claim, ClaimRoute, AddStep
    <2>. QED
      BY <2>1, <2>2
  <1>16. ASSUME NEW m \in Msgs, ReplyClaim(m) PROVE AddStep
    <2>. DEFINE r == [by |-> Turn(m), topic |-> view[m].topic, owner |-> view[m].owner]
    <2>1. CASE Confirmed(m) /\ Reservable(m)
      <3>1. /\ rsv' = rsv \cup {r} /\ step' = [step EXCEPT ![m] = "post"] /\ mem' = mem
            /\ conv' = [conv EXCEPT ![m].topic = view[m].topic]
        BY <1>16, <2>1 DEF ReplyClaim, ClaimRoute, Reserve, Go
      <3>2. StillFree(mem'.reg, r.owner, r.topic)
        BY <2>1, <3>1 DEF Confirmed
      <3>3. conv[m] \in Conversations
        BY <1>16 DEF ReplyClaim, Types, TurnsOK
      <3>4. conv'[m].topic = view[m].topic /\ conv'[m].sess = conv[m].sess /\ conv'[m].thread = conv[m].thread
        BY <1>1, <3>1, <3>3 DEF Conversations
      <3>5. TurnAdds(m, r)
        BY <1>16, <1>1, <2>1, <3>1, <3>2, <3>4 DEF TurnAdds, Takes, ReplyClaim
      <3>. QED
        BY <3>5 DEF AddStep
    <2>2. CASE ~ (Confirmed(m) /\ Reservable(m))
      BY <1>16, <2>2 DEF ReplyClaim, ClaimRoute, AddStep
    <2>. QED
      BY <2>1, <2>2
  <1>17. ASSUME NEW m \in Msgs, MentionFails(m) PROVE AddStep
    BY <1>17 DEF AddStep
  <1>. QED
    BY <1>3, <1>4, <1>5, <1>6, <1>7, <1>8, <1>9, <1>10, <1>11, <1>12, <1>13, <1>14, <1>15,
      <1>16,
      <1>17
      DEF Next, MainNext, WorkerNext, Users

\* A holder goes on with what it holds, or releases it.
TurnHeld(m) ==
    step[m] \in HoldingSteps =>
        \/ step'[m] \in HoldingSteps /\ conv'[m] = conv[m]
        \/ \A r \in rsv' : r.by # Turn(m)

AdmissionHeld(m) ==
    step[m] \in Admitting /\ pc \in AdmittedPcs =>
        \/ step'[m] \in Admitting /\ pc' \in AdmittedPcs /\ conv'[m] = conv[m]
        \/ \A r \in rsv' : r.by # Admission(m)

ReconciliationHeld ==
    pc \in HoldingPcs =>
        \/ pc' \in HoldingPcs /\ cur' = cur /\ view'[Main] = view[Main]
        \/ \A r \in rsv' : r.by # Reconciliation(cur)

\* What a step does to the holders of reservations: the turns.
LEMMA TurnsHeld ==
    ASSUME Types, Next
    PROVE  \A m \in Msgs : TurnHeld(m)
  <1>. DEFINE G == \A n \in Msgs : TurnHeld(n)
  <1>1. /\ conv \in [Msgs -> Conversations \cup {NoConv}] /\ step \in [Msgs -> Steps]
        /\ pc = "claim" => cur \in Msgs /\ step[cur] = "fetched"
        /\ pc = "mention" => cur \in Msgs /\ step[cur] = "resolved"
        /\ view \in [Actors -> Views]
    BY DEF Types, TurnsOK, MainOK, ViewsOK, Actors
  <1>2. Main \in Actors /\ (\A m \in Msgs : m \in Actors /\ m # Main)
    BY MainIsNoMessage DEF Actors
  <1>3. CASE FinishEnds \/ CheckSent \/ StayClaim \/ MoveClaim
    BY <1>3, <1>1, <1>2 DEF FinishEnds, CheckSent, JobEnds, NextJob, Forget, LookAt, StayClaim,
      MoveClaim, Reserve, zulip, shared, workers, TurnHeld, HoldingSteps, Held, Turn, Admission,
      Reconciliation, InAdmission, At, Ended, Waiting
  <1>4. CASE SaveAttempt \/ SaveAttemptFails \/ Patch \/ PatchFails
    BY <1>4, <1>1, <1>2 DEF SaveAttempt, SaveAttemptFails, Release, Forget, Trouble, Patch,
      MoveReply, PatchFails, JobEnds, NextJob, zulip, shared, workers, TurnHeld, HoldingSteps,
      Held, Turn, Admission, Reconciliation, InAdmission, At, Ended, Waiting
  <1>5. CASE ReconcileLater \/ PublishRoute \/ PublishRouteFails \/ ReconcileEnds \/ LoopSaveFails
    BY <1>5, <1>1, <1>2 DEF ReconcileLater, NextJob, Forget, Trouble, PublishRoute, Release,
      PublishRouteFails, JobEnds, NoteFails, ReconcileEnds, zulip, shared, workers, TurnHeld,
      HoldingSteps, Held, Turn, Admission, Reconciliation, InAdmission, At, Ended, Waiting,
      LoopSaveFails
  <1>6. CASE BeginAdmission \/ SaveAdmission \/ SubmitEnds \/ Crash
    BY <1>6, <1>1, <1>2 DEF BeginAdmission, SaveAdmission, EndAdmission, Undo, Trouble,
      SubmitEnds, Crash, zulip, shared, workers, TurnHeld, HoldingSteps, Held, Turn, Admission,
      Reconciliation, InAdmission, At, Ended, Waiting
  <1>7. ASSUME NEW m \in Msgs,
              Finish(m) \/ FinishLater(m) \/ TakeJob(m) \/ Resolve(m) \/ ResolveClaim(m)
       PROVE  G
    BY <1>7, <1>1, <1>2 DEF Finish, Go, TakeJob, Heard, Resolve, ResolveClaim, SetRegistry,
      Reserve, Forget, zulip, shared, mains, workers, TurnHeld, HoldingSteps, Held, Turn,
      Admission, Reconciliation, InAdmission, At, Ended, Waiting, FinishLater, Retired, Trouble
  <1>8. ASSUME NEW m \in Msgs,
              ResolveLater(m) \/ Activate(m) \/ Ignore(m) \/
              NoteAdmitted(m) \/ NoteAdmittedFails(m) \/ Submit(m)
       PROVE  G
    BY <1>8, <1>1, <1>2 DEF ResolveLater, Go, Forget, Trouble, NoteAdmitted, NoteAdmittedFails,
      Undo, EndAdmission, NoteFails, Submit, zulip, shared, mains, TurnHeld, HoldingSteps, Held,
      Turn, Admission, Reconciliation, InAdmission, At, Ended, Waiting, Activate, Ignore,
      NextMessage, Release
  <1>9. ASSUME NEW m \in Msgs,
              Steer(m) \/ SteerFails(m) \/ Refresh(m) \/ Look(m) \/ Claim(m)
       PROVE  G
    BY <1>9, <1>1, <1>2 DEF Steer, Go, Refresh, Look, LookAt, Claim, ClaimRoute, Reserve,
      Forget, zulip, shared, mains, TurnHeld, HoldingSteps, Held, Turn, Admission,
      Reconciliation, InAdmission, At, Ended, Waiting, SteerFails, Steered, Trouble
  <1>10. ASSUME NEW m \in Msgs,
              NotReady(m) \/ Launch(m) \/ LaunchFails(m) \/ Answers(m) \/ Errs(m)
       PROVE  G
    BY <1>10, <1>1, <1>2 DEF NotReady, Release, Go, Trouble, Launch, Answers, Errs, zulip,
      shared, mains, TurnHeld, HoldingSteps, Held, Turn, Admission, Reconciliation, InAdmission,
      At, Ended, Waiting, LaunchFails
  <1>11. ASSUME NEW m \in Msgs, Fetch(m) \/ ReplyLook(m) \/ ReplyClaim(m) \/ Post(m) PROVE G
    BY <1>11, <1>1, <1>2 DEF Fetch, Go, Heard, ReplyLook, LookAt, ReplyClaim, ClaimRoute,
      Reserve, Forget, Post, zulip, shared, mains, TurnHeld, HoldingSteps, Held, Turn,
      Admission, Reconciliation, InAdmission, At, Ended, Waiting
  <1>12. ASSUME NEW m \in Msgs,
              PostFails(m) \/ Publish(m) \/ PublishFails(m) \/ SaveReply(m) \/ SaveReplyFails(m)
       PROVE  G
    BY <1>12, <1>1, <1>2 DEF PostFails, Release, Go, Trouble, Publish, PublishFails, NoteFails,
      SaveReply, zulip, mains, TurnHeld, HoldingSteps, Held, Turn, Admission, Reconciliation,
      InAdmission, At, Ended, Waiting, SaveReplyFails
  <1>13. ASSUME NEW M \in SUBSET Msgs, FetchPage(M) PROVE G
    BY <1>13, <1>1, <1>2 DEF FetchPage, zulip, shared, TurnHeld, HoldingSteps, Held, Turn,
      Admission, Reconciliation, InAdmission, At, Ended, Waiting
  <1>14. ASSUME NEW m \in Msgs, NEW t \in Topics, PostMessage(m, t) PROVE G
    BY <1>14, <1>1, <1>2 DEF PostMessage, shared, mains, workers, TurnHeld, HoldingSteps, Held,
      Turn, Admission, Reconciliation, InAdmission, At, Ended, Waiting
  <1>15. ASSUME NEW m \in Msgs, NEW t \in Places, MoveMessage(m, t) PROVE G
    BY <1>15, <1>1, <1>2 DEF MoveMessage, Trouble, shared, mains, workers, TurnHeld,
      HoldingSteps, Held, Turn, Admission, Reconciliation, InAdmission, At, Ended, Waiting
  <1>16. ASSUME NEW t \in Topics, NEW u \in Topics, Rename(t, u) PROVE G
    BY <1>16, <1>1, <1>2 DEF Rename, Trouble, shared, mains, workers, TurnHeld, HoldingSteps,
      Held, Turn, Admission, Reconciliation, InAdmission, At, Ended, Waiting
  <1>17. ASSUME NEW m \in Msgs, MentionFails(m) PROVE G
    BY <1>17, <1>1, LostFacts DEF MentionFails, Go, NextMessage, TurnHeld, HoldingSteps, Turn,
      Admission, Nobody
  <1>. QED
    BY <1>3, <1>4, <1>5, <1>6, <1>7, <1>8, <1>9, <1>10, <1>11, <1>12, <1>13, <1>14, <1>15,
      <1>16,
      <1>17
      DEF Next, MainNext, WorkerNext, Users

\* The messages in admission.
LEMMA AdmissionsHeld ==
    ASSUME Types, Next
    PROVE  \A m \in Msgs : AdmissionHeld(m)
  <1>. DEFINE G == \A n \in Msgs : AdmissionHeld(n)
  <1>1. /\ conv \in [Msgs -> Conversations \cup {NoConv}] /\ step \in [Msgs -> Steps]
        /\ pc = "claim" => cur \in Msgs /\ step[cur] = "fetched"
        /\ pc = "mention" => cur \in Msgs /\ step[cur] = "resolved"
        /\ view \in [Actors -> Views]
    BY DEF Types, TurnsOK, MainOK, ViewsOK, Actors
  <1>2. Main \in Actors /\ (\A m \in Msgs : m \in Actors /\ m # Main)
    BY MainIsNoMessage DEF Actors
  <1>3. CASE FinishEnds \/ CheckSent \/ StayClaim \/ MoveClaim
    BY <1>3, <1>1, <1>2 DEF FinishEnds, CheckSent, JobEnds, NextJob, Forget, LookAt, StayClaim,
      MoveClaim, Reserve, zulip, shared, workers, AdmissionHeld, Admitting, AdmittedPcs, Held,
      Turn, Admission, Reconciliation, InAdmission, At, Ended, Waiting
  <1>4. CASE SaveAttempt \/ SaveAttemptFails \/ Patch \/ PatchFails
    BY <1>4, <1>1, <1>2 DEF SaveAttempt, SaveAttemptFails, Release, Forget, Trouble, Patch,
      MoveReply, PatchFails, JobEnds, NextJob, zulip, shared, workers, AdmissionHeld,
      Admitting, AdmittedPcs, Held, Turn, Admission, Reconciliation, InAdmission, At, Ended,
      Waiting
  <1>5. CASE ReconcileLater \/ PublishRoute \/ PublishRouteFails \/ ReconcileEnds \/ LoopSaveFails
    BY <1>5, <1>1, <1>2 DEF ReconcileLater, NextJob, Forget, Trouble, PublishRoute, Release,
      PublishRouteFails, JobEnds, NoteFails, ReconcileEnds, zulip, shared, workers,
      AdmissionHeld, Admitting, AdmittedPcs, Held, Turn, Admission, Reconciliation,
      InAdmission, At, Ended, Waiting, LoopSaveFails
  <1>6. CASE BeginAdmission \/ SaveAdmission \/ SubmitEnds \/ Crash
    BY <1>6, <1>1, <1>2 DEF BeginAdmission, SaveAdmission, EndAdmission, Undo, Trouble,
      SubmitEnds, Crash, zulip, shared, workers, AdmissionHeld, Admitting, AdmittedPcs, Held,
      Turn, Admission, Reconciliation, InAdmission, At, Ended, Waiting
  <1>7. ASSUME NEW m \in Msgs,
              Finish(m) \/ FinishLater(m) \/ TakeJob(m) \/ Resolve(m) \/ ResolveClaim(m)
       PROVE  G
    BY <1>7, <1>1, <1>2 DEF Finish, Go, TakeJob, Heard, Resolve, ResolveClaim, SetRegistry,
      Reserve, Forget, zulip, shared, mains, workers, AdmissionHeld, Admitting, AdmittedPcs,
      Held, Turn, Admission, Reconciliation, InAdmission, At, Ended, Waiting, FinishLater,
      Retired, Trouble
  <1>8. ASSUME NEW m \in Msgs,
              ResolveLater(m) \/ Activate(m) \/ Ignore(m) \/
              NoteAdmitted(m) \/ NoteAdmittedFails(m) \/ Submit(m)
       PROVE  G
    BY <1>8, <1>1, <1>2 DEF ResolveLater, Go, Forget, Trouble, NoteAdmitted, NoteAdmittedFails,
      Undo, EndAdmission, NoteFails, Submit, zulip, shared, mains, AdmissionHeld, Admitting,
      AdmittedPcs, Held, Turn, Admission, Reconciliation, InAdmission, At, Ended, Waiting,
      Activate, Ignore, NextMessage, Release
  <1>9. ASSUME NEW m \in Msgs,
              Steer(m) \/ SteerFails(m) \/ Refresh(m) \/ Look(m) \/ Claim(m)
       PROVE  G
    BY <1>9, <1>1, <1>2 DEF Steer, Go, Refresh, Look, LookAt, Claim, ClaimRoute, Reserve,
      Forget, zulip, shared, mains, AdmissionHeld, Admitting, AdmittedPcs, Held, Turn,
      Admission, Reconciliation, InAdmission, At, Ended, Waiting, SteerFails, Steered, Trouble
  <1>10. ASSUME NEW m \in Msgs,
              NotReady(m) \/ Launch(m) \/ LaunchFails(m) \/ Answers(m) \/ Errs(m)
       PROVE  G
    BY <1>10, <1>1, <1>2 DEF NotReady, Release, Go, Trouble, Launch, Answers, Errs, zulip,
      shared, mains, AdmissionHeld, Admitting, AdmittedPcs, Held, Turn, Admission,
      Reconciliation, InAdmission, At, Ended, Waiting, LaunchFails
  <1>11. ASSUME NEW m \in Msgs, Fetch(m) \/ ReplyLook(m) \/ ReplyClaim(m) \/ Post(m) PROVE G
    BY <1>11, <1>1, <1>2 DEF Fetch, Go, Heard, ReplyLook, LookAt, ReplyClaim, ClaimRoute,
      Reserve, Forget, Post, zulip, shared, mains, AdmissionHeld, Admitting, AdmittedPcs, Held,
      Turn, Admission, Reconciliation, InAdmission, At, Ended, Waiting
  <1>12. ASSUME NEW m \in Msgs,
              PostFails(m) \/ Publish(m) \/ PublishFails(m) \/ SaveReply(m) \/ SaveReplyFails(m)
       PROVE  G
    BY <1>12, <1>1, <1>2 DEF PostFails, Release, Go, Trouble, Publish, PublishFails, NoteFails,
      SaveReply, zulip, mains, AdmissionHeld, Admitting, AdmittedPcs, Held, Turn, Admission,
      Reconciliation, InAdmission, At, Ended, Waiting, SaveReplyFails
  <1>13. ASSUME NEW M \in SUBSET Msgs, FetchPage(M) PROVE G
    BY <1>13, <1>1, <1>2 DEF FetchPage, zulip, shared, AdmissionHeld, Admitting, AdmittedPcs,
      Held, Turn, Admission, Reconciliation, InAdmission, At, Ended, Waiting
  <1>14. ASSUME NEW m \in Msgs, NEW t \in Topics, PostMessage(m, t) PROVE G
    BY <1>14, <1>1, <1>2 DEF PostMessage, shared, mains, workers, AdmissionHeld, Admitting,
      AdmittedPcs, Held, Turn, Admission, Reconciliation, InAdmission, At, Ended, Waiting
  <1>15. ASSUME NEW m \in Msgs, NEW t \in Places, MoveMessage(m, t) PROVE G
    BY <1>15, <1>1, <1>2 DEF MoveMessage, Trouble, shared, mains, workers, AdmissionHeld,
      Admitting, AdmittedPcs, Held, Turn, Admission, Reconciliation, InAdmission, At, Ended,
      Waiting
  <1>16. ASSUME NEW t \in Topics, NEW u \in Topics, Rename(t, u) PROVE G
    BY <1>16, <1>1, <1>2 DEF Rename, Trouble, shared, mains, workers, AdmissionHeld, Admitting,
      AdmittedPcs, Held, Turn, Admission, Reconciliation, InAdmission, At, Ended, Waiting
  <1>17. ASSUME NEW m \in Msgs, MentionFails(m) PROVE G
    BY <1>17, <1>1, LostFacts DEF MentionFails, Go, NextMessage, AdmissionHeld, Admitting,
      AdmittedPcs
  <1>. QED
    BY <1>3, <1>4, <1>5, <1>6, <1>7, <1>8, <1>9, <1>10, <1>11, <1>12, <1>13, <1>14, <1>15,
      <1>16,
      <1>17
      DEF Next, MainNext, WorkerNext, Users

\* The job under reconciliation.
LEMMA ReconciliationsHeld ==
    ASSUME Types, Next
    PROVE  ReconciliationHeld
  <1>1. /\ conv \in [Msgs -> Conversations \cup {NoConv}] /\ step \in [Msgs -> Steps]
        /\ pc = "claim" => cur \in Msgs /\ step[cur] = "fetched"
        /\ pc = "mention" => cur \in Msgs /\ step[cur] = "resolved"
        /\ view \in [Actors -> Views]
    BY DEF Types, TurnsOK, MainOK, ViewsOK, Actors
  <1>2. Main \in Actors /\ (\A m \in Msgs : m \in Actors /\ m # Main)
    BY MainIsNoMessage DEF Actors
  <1>3. CASE FinishEnds \/ CheckSent \/ StayClaim \/ MoveClaim
    BY <1>3, <1>1, <1>2 DEF FinishEnds, CheckSent, JobEnds, NextJob, Forget, LookAt, StayClaim,
      MoveClaim, Reserve, zulip, shared, workers, ReconciliationHeld, HoldingPcs, Held
  <1>4. CASE SaveAttempt \/ SaveAttemptFails \/ Patch \/ PatchFails
    BY <1>4, <1>1, <1>2 DEF SaveAttempt, SaveAttemptFails, Release, Forget, Trouble, Patch,
      MoveReply, PatchFails, JobEnds, NextJob, zulip, shared, workers, ReconciliationHeld,
      HoldingPcs, Held
  <1>5. CASE ReconcileLater \/ PublishRoute \/ PublishRouteFails \/ ReconcileEnds \/ LoopSaveFails
    BY <1>5, <1>1, <1>2 DEF ReconcileLater, NextJob, Forget, Trouble, PublishRoute, Release,
      PublishRouteFails, JobEnds, NoteFails, ReconcileEnds, zulip, shared, workers,
      ReconciliationHeld, HoldingPcs, Held, LoopSaveFails
  <1>6. CASE BeginAdmission \/ SaveAdmission \/ SubmitEnds \/ Crash
    BY <1>6, <1>1, <1>2 DEF BeginAdmission, SaveAdmission, EndAdmission, Undo, Trouble,
      SubmitEnds, Crash, zulip, shared, workers, ReconciliationHeld, HoldingPcs, Held
  <1>7. ASSUME NEW m \in Msgs,
              Finish(m) \/ FinishLater(m) \/ TakeJob(m) \/ Resolve(m) \/ ResolveClaim(m)
        PROVE  ReconciliationHeld
    BY <1>7, <1>1, <1>2 DEF Finish, Go, TakeJob, Heard, Resolve, ResolveClaim, SetRegistry,
      Reserve, Forget, zulip, shared, mains, workers, ReconciliationHeld, HoldingPcs, Held,
      FinishLater, Retired, Trouble
  <1>8. ASSUME NEW m \in Msgs,
              ResolveLater(m) \/ Activate(m) \/ Ignore(m) \/
              NoteAdmitted(m) \/ NoteAdmittedFails(m) \/ Submit(m)
       PROVE  ReconciliationHeld
    BY <1>8, <1>1, <1>2 DEF ResolveLater, Go, Forget, Trouble, NoteAdmitted, NoteAdmittedFails,
      Undo, EndAdmission, NoteFails, Submit, zulip, shared, mains, ReconciliationHeld,
      HoldingPcs, Held, Activate, Ignore, NextMessage, Release
  <1>9. ASSUME NEW m \in Msgs, Steer(m) \/ SteerFails(m) \/ Refresh(m) \/ Look(m) \/ Claim(m)
        PROVE  ReconciliationHeld
    BY <1>9, <1>1, <1>2 DEF Steer, Go, Refresh, Look, LookAt, Claim, ClaimRoute, Reserve,
      Forget, zulip, shared, mains, ReconciliationHeld, HoldingPcs, Held, SteerFails, Steered,
      Trouble
  <1>10. ASSUME NEW m \in Msgs, NotReady(m) \/ Launch(m) \/ LaunchFails(m) \/ Answers(m) \/ Errs(m)
         PROVE  ReconciliationHeld
    BY <1>10, <1>1, <1>2 DEF NotReady, Release, Go, Trouble, Launch, Answers, Errs, zulip,
      shared, mains, ReconciliationHeld, HoldingPcs, Held, LaunchFails
  <1>11. ASSUME NEW m \in Msgs, Fetch(m) \/ ReplyLook(m) \/ ReplyClaim(m) \/ Post(m)
         PROVE  ReconciliationHeld
    BY <1>11, <1>1, <1>2 DEF Fetch, Go, Heard, ReplyLook, LookAt, ReplyClaim, ClaimRoute,
      Reserve, Forget, Post, zulip, shared, mains, ReconciliationHeld, HoldingPcs, Held
  <1>12. ASSUME NEW m \in Msgs,
              PostFails(m) \/ Publish(m) \/ PublishFails(m) \/ SaveReply(m) \/ SaveReplyFails(m)
       PROVE  ReconciliationHeld
    BY <1>12, <1>1, <1>2 DEF PostFails, Release, Go, Trouble, Publish, PublishFails, NoteFails,
      SaveReply, zulip, mains, ReconciliationHeld, HoldingPcs, Held, SaveReplyFails
  <1>13. ASSUME NEW M \in SUBSET Msgs, FetchPage(M) PROVE ReconciliationHeld
    BY <1>13, <1>1, <1>2 DEF FetchPage, zulip, shared, ReconciliationHeld, HoldingPcs, Held
  <1>14. ASSUME NEW m \in Msgs, NEW t \in Topics, PostMessage(m, t) PROVE ReconciliationHeld
    BY <1>14, <1>1, <1>2 DEF PostMessage, shared, mains, workers, ReconciliationHeld,
      HoldingPcs, Held
  <1>15. ASSUME NEW m \in Msgs, NEW t \in Places, MoveMessage(m, t) PROVE ReconciliationHeld
    BY <1>15, <1>1, <1>2 DEF MoveMessage, Trouble, shared, mains, workers, ReconciliationHeld,
      HoldingPcs, Held
  <1>16. ASSUME NEW t \in Topics, NEW u \in Topics, Rename(t, u) PROVE ReconciliationHeld
    BY <1>16, <1>1, <1>2 DEF Rename, Trouble, shared, mains, workers, ReconciliationHeld,
      HoldingPcs, Held
  <1>17. ASSUME NEW m \in Msgs, MentionFails(m) PROVE ReconciliationHeld
    BY <1>17, <1>1, LostFacts DEF MentionFails, Go, NextMessage, ReconciliationHeld, HoldingPcs
  <1>. QED
    BY <1>3, <1>4, <1>5, <1>6, <1>7, <1>8, <1>9, <1>10, <1>11, <1>12, <1>13, <1>14, <1>15,
      <1>16,
      <1>17
      DEF Next, MainNext, WorkerNext, Users

\* A reservation lasts as long as its holder needs it.
ReservedStep(m) ==
    /\ step'[m] \in {"resolved", "prepared"} =>
        \/ step[m] \in {"resolved", "prepared"} /\ \A r \in rsv : r.by = Admission(m) => r \in rsv'
        \/ \E r \in rsv' : r.by = Admission(m)
    /\ step'[m] \in {"post", "publish"} =>
        \/ step[m] \in {"post", "publish"} /\ \A r \in rsv : r.by = Turn(m) => r \in rsv'
        \/ \E r \in rsv' : r.by = Turn(m)

\* What a step does to the reservations that are needed.
LEMMA ReservedSteps ==
    ASSUME Types, Phases, Next
    PROVE  \A m \in Msgs : ReservedStep(m)
  <1>. DEFINE G == \A n \in Msgs : ReservedStep(n)
  <1>1. /\ conv \in [Msgs -> Conversations \cup {NoConv}] /\ step \in [Msgs -> Steps]
        /\ pc = "claim" => cur \in Msgs /\ step[cur] = "fetched"
        /\ pc = "mention" => cur \in Msgs /\ step[cur] = "resolved"
        /\ view \in [Actors -> Views]
        /\ \A n \in Msgs : step[n] = "resolved" => pc = "mention"
    BY DEF Types, TurnsOK, MainOK, ViewsOK, Actors, Phases
  <1>2. Main \in Actors /\ (\A m \in Msgs : m \in Actors /\ m # Main)
    BY MainIsNoMessage DEF Actors
  <1>3. CASE FinishEnds \/ CheckSent \/ StayClaim
    BY <1>3, <1>1, <1>2 DEF FinishEnds, CheckSent, JobEnds, NextJob, Forget, LookAt, StayClaim,
      zulip, shared, workers, ReservedStep, Held, Turn, Admission, Reconciliation, InAdmission,
      At, Ended, Waiting
  <1>4. CASE MoveClaim \/ SaveAttempt \/ SaveAttemptFails
    BY <1>4, <1>1, <1>2 DEF MoveClaim, JobEnds, NextJob, Forget, Reserve, SaveAttempt,
      SaveAttemptFails, Release, Trouble, zulip, shared, workers, ReservedStep, Held, Turn,
      Admission, Reconciliation, InAdmission, At, Ended, Waiting
  <1>5. CASE Patch \/ PatchFails \/ ReconcileLater
    BY <1>5, <1>1, <1>2 DEF Patch, MoveReply, PatchFails, JobEnds, Release, NextJob, Forget,
      Trouble, ReconcileLater, zulip, shared, workers, ReservedStep, Held, Turn, Admission,
      Reconciliation, InAdmission, At, Ended, Waiting
  <1>6. CASE PublishRoute \/ PublishRouteFails \/ ReconcileEnds \/ LoopSaveFails
    BY <1>6, <1>1, <1>2 DEF PublishRoute, Release, NextJob, Forget, PublishRouteFails, JobEnds,
      NoteFails, Trouble, ReconcileEnds, zulip, shared, workers, ReservedStep, Held, Turn,
      Admission, Reconciliation, InAdmission, At, Ended, Waiting, LoopSaveFails
  <1>7. CASE BeginAdmission \/ SaveAdmission \/ SubmitEnds
    BY <1>7, <1>1, <1>2 DEF BeginAdmission, SaveAdmission, EndAdmission, Undo, Trouble,
      SubmitEnds, zulip, shared, workers, ReservedStep, Held, Turn, Admission, Reconciliation,
      InAdmission, At, Ended, Waiting
  <1>8. CASE Crash
    BY <1>8, <1>1, <1>2 DEF Crash, Trouble, zulip, ReservedStep, Held, Turn, Admission,
      Reconciliation, InAdmission, At, Ended, Waiting
  <1>9. ASSUME NEW m \in Msgs, Finish(m) \/ FinishLater(m) \/ TakeJob(m) \/ Resolve(m) PROVE G
    BY <1>9, <1>1, <1>2 DEF Finish, Go, TakeJob, Heard, Resolve, zulip, shared, mains, workers,
      ReservedStep, Held, Turn, Admission, Reconciliation, InAdmission, At, Ended, Waiting,
      FinishLater, Retired, Trouble
  <1>10. ASSUME NEW m \in Msgs,
              ResolveLater(m) \/ Activate(m) \/ Ignore(m) \/
              NoteAdmitted(m) \/ NoteAdmittedFails(m)
         PROVE  G
    BY <1>10, <1>1, <1>2 DEF ResolveLater, Go, Forget, Trouble, NoteAdmitted, NoteAdmittedFails,
      Undo, EndAdmission, NoteFails, zulip, shared, mains, ReservedStep, Held, Turn, Admission,
      Reconciliation, InAdmission, At, Ended, Waiting, Activate, Ignore,
      NextMessage, Release
  <1>11. ASSUME NEW m \in Msgs, Submit(m) \/ Steer(m) \/ SteerFails(m) \/ Refresh(m) PROVE G
    BY <1>11, <1>1, <1>2 DEF Submit, Go, Steer, Refresh, zulip, shared, mains, ReservedStep,
      Held, Turn, Admission, Reconciliation, InAdmission, At, Ended, Waiting, SteerFails,
      Steered, Trouble
  <1>12. ASSUME NEW m \in Msgs, Look(m) \/ Claim(m) \/ NotReady(m) PROVE G
    BY <1>12, <1>1, <1>2 DEF Look, LookAt, Go, Claim, ClaimRoute, Reserve, Forget, NotReady,
      Release, Trouble, zulip, shared, mains, ReservedStep, Held, Turn, Admission,
      Reconciliation, InAdmission, At, Ended, Waiting
  <1>13. ASSUME NEW m \in Msgs, Launch(m) \/ LaunchFails(m) \/ Answers(m) \/ Errs(m) PROVE G
    BY <1>13, <1>1, <1>2 DEF Launch, Release, Go, Answers, Errs, Trouble, zulip, shared, mains,
      ReservedStep, Held, Turn, Admission, Reconciliation, InAdmission, At, Ended, Waiting,
      LaunchFails
  <1>14. ASSUME NEW m \in Msgs, Fetch(m) \/ ReplyLook(m) \/ Post(m) PROVE G
    BY <1>14, <1>1, <1>2 DEF Fetch, Go, Heard, ReplyLook, LookAt, Post, zulip, shared, mains,
      ReservedStep, Held, Turn, Admission, Reconciliation, InAdmission, At, Ended, Waiting
  <1>15. ASSUME NEW m \in Msgs, PostFails(m) \/ Publish(m) \/ PublishFails(m) PROVE G
    BY <1>15, <1>1, <1>2 DEF PostFails, Release, Go, Trouble, Publish, PublishFails, NoteFails,
      zulip, mains, ReservedStep, Held, Turn, Admission, Reconciliation, InAdmission, At, Ended,
      Waiting
  <1>16. ASSUME NEW m \in Msgs, SaveReply(m) \/ SaveReplyFails(m) PROVE G
    BY <1>16, <1>1, <1>2 DEF SaveReply, Release, Go, zulip, mains, ReservedStep, Held, Turn,
      Admission, Reconciliation, InAdmission, At, Ended, Waiting, SaveReplyFails, Trouble
  <1>17. ASSUME NEW M \in SUBSET Msgs, FetchPage(M) PROVE G
    BY <1>17, <1>1, <1>2 DEF FetchPage, zulip, shared, ReservedStep, Held, Turn, Admission,
      Reconciliation, InAdmission, At, Ended, Waiting
  <1>18. ASSUME NEW m \in Msgs, NEW t \in Topics, PostMessage(m, t) PROVE G
    BY <1>18, <1>1, <1>2 DEF PostMessage, shared, mains, workers, ReservedStep, Held, Turn,
      Admission, Reconciliation, InAdmission, At, Ended, Waiting
  <1>19. ASSUME NEW m \in Msgs, NEW t \in Places, MoveMessage(m, t) PROVE G
    BY <1>19, <1>1, <1>2 DEF MoveMessage, Trouble, shared, mains, workers, ReservedStep, Held,
      Turn, Admission, Reconciliation, InAdmission, At, Ended, Waiting
  <1>20. ASSUME NEW t \in Topics, NEW u \in Topics, Rename(t, u) PROVE G
    BY <1>20, <1>1, <1>2 DEF Rename, Trouble, shared, mains, workers, ReservedStep, Held, Turn,
      Admission, Reconciliation, InAdmission, At, Ended, Waiting
  <1>21. ASSUME NEW m \in Msgs, ResolveClaim(m) PROVE G
    <2>1. rsv \subseteq rsv' /\ \A n \in Msgs \ {m} : step'[n] = step[n]
      BY <1>21, <1>1 DEF ResolveClaim, Reserve, Go
    <2>2. ASSUME step'[m] \in {"resolved", "prepared", "post", "publish"}
          PROVE  \E r \in rsv' : r.by = Admission(m) /\ step'[m] = "resolved"
      <3>. DEFINE r == [by |-> Admission(m), topic |-> view[Main].topic, owner |-> view[Main].owner]
      <3>1. r \in rsv' /\ step'[m] = "resolved"
        BY <1>21, <1>1, <2>2 DEF ResolveClaim, Reserve, Go
      <3>. QED
        BY <3>1
    <2>. QED
      BY <2>1, <2>2 DEF ReservedStep
  <1>22. ASSUME NEW m \in Msgs, ReplyClaim(m) PROVE G
    <2>1. rsv \subseteq rsv' /\ \A n \in Msgs \ {m} : step'[n] = step[n]
      BY <1>22, <1>1 DEF ReplyClaim, ClaimRoute, Reserve, Go
    <2>2. ASSUME step'[m] \in {"resolved", "prepared", "post", "publish"}
          PROVE  \E r \in rsv' : r.by = Turn(m) /\ step'[m] = "post"
      <3>. DEFINE r == [by |-> Turn(m), topic |-> view[m].topic, owner |-> view[m].owner]
      <3>1. r \in rsv' /\ step'[m] = "post"
        BY <1>22, <1>1, <2>2 DEF ReplyClaim, ClaimRoute, Reserve, Go
      <3>. QED
        BY <3>1
    <2>. QED
      BY <2>1, <2>2 DEF ReservedStep
  <1>23. ASSUME NEW m \in Msgs, MentionFails(m) PROVE G
    <2>1. \A q \in rsv : q.by # Admission(m) => q \in rsv'
      BY <1>23, LostFacts
    <2>2. /\ \A n \in Msgs : Turn(n) # Admission(m)
          /\ \A n \in Msgs \ {m} : Admission(n) # Admission(m)
      BY DEF Turn, Admission
    <2>3. /\ step'[m] \in {"deferred", "refused"}
          /\ \A n \in Msgs \ {m} : step'[n] = step[n]
      BY <1>23, <1>1 DEF MentionFails, Go
    <2>. QED
      BY <2>1, <2>2, <2>3 DEF ReservedStep
  <1>. QED
    BY <1>3, <1>4, <1>5, <1>6, <1>7, <1>8, <1>9, <1>10, <1>11, <1>12, <1>13, <1>14, <1>15,
      <1>16, <1>17, <1>18, <1>19, <1>20, <1>21, <1>22, <1>23
      DEF Next, MainNext, WorkerNext, Users

\* Whoever holds a reservation that is new has just made it, or nobody holds it.
LEMMA AddedFacts ==
    ASSUME Types, Next, NEW r \in rsv', r \notin rsv
    PROVE  \/ (\E m \in Msgs : TurnAdds(m, r)) \/ AdmissionAdds(r) \/ ReconciliationAdds(r)
           \/ \E m \in Msgs, q \in rsv : Loses(m, q, r)
  <1>1. ASSUME NEW q, (\E m \in Msgs : TurnAdds(m, q)) \/ AdmissionAdds(q) \/ ReconciliationAdds(q)
        PROVE  r = q
    BY <1>1 DEF TurnAdds, AdmissionAdds, ReconciliationAdds, Takes
  <1>2. ASSUME NEW m \in Msgs, MentionFails(m) PROVE \E q \in rsv : Loses(m, q, r)
    BY <1>2, LostFacts
  <1>. QED
    BY <1>1, <1>2, AddSteps DEF AddStep

\* Who holds a reservation is known after a step, too.
LEMMA HoldersKnownStep ==
    ASSUME Types, CopyIsOlder, AdmittedSessions, JobSessions, SeenOwners, HoldersKnown, Next
    PROVE  HoldersKnown'
  <1>. SUFFICES ASSUME NEW r \in rsv' PROVE Holder(r)'
    BY DEF HoldersKnown
  <1>1. ASSUME NEW m \in Msgs, TurnHolds(r, m) PROVE TurnHolds(r, m)'
    BY <1>1, TurnsHeld DEF TurnHeld, TurnHolds, Fits
  <1>2. ASSUME NEW m \in Msgs, AdmissionHolds(r, m) PROVE AdmissionHolds(r, m)'
    BY <1>2, AdmissionsHeld DEF AdmissionHeld, AdmissionHolds, Fits
  <1>3. ASSUME ReconciliationHolds(r) PROVE ReconciliationHolds(r)'
    BY <1>3, ReconciliationsHeld DEF ReconciliationHeld, ReconciliationHolds, target
  <1>4. ASSUME NobodyHolds(r) PROVE NobodyHolds(r)'
    <2>. DEFINE x == r.owner.thread
                s == r.owner.sess
    <2>1. /\ r.by = Nobody /\ x \in Threads /\ s \in {NoSession, mem.reg.sess[x]}
          /\ pc = "note" => s \in {NoSession, saved.mem.reg.sess[x]}
      BY <1>4 DEF NobodyHolds
    <2>2. ~ Crash
      BY DEF Crash
    <2>. HIDE DEF x, s
    <2>3. s \in {NoSession, mem'.reg.sess[x]}
      BY <2>1, <2>2, SessionSteps DEF SessionStep, Undone
    <2>4. pc' = "note" => s \in {NoSession, saved'.mem.reg.sess[x]}
      BY <2>1, <2>3, CopyStepFacts DEF CopyStep
    <2>. QED
      BY <2>1, <2>3, <2>4 DEF NobodyHolds, x, s
  <1>5. ASSUME NEW m \in Msgs, TurnAdds(m, r) PROVE TurnHolds(r, m)'
    <2>1. r.owner = OwnerOf(conv[m]) /\ OwnerOf(conv[m]) = OwnerOf(conv'[m])
      BY <1>5 DEF TurnAdds, Takes, SeenOwners, OwnerOf
    <2>2. r.topic = conv'[m].topic
      BY <1>5 DEF TurnAdds, Takes, SeenOwners
    <2>. QED
      BY <1>5, <2>1, <2>2 DEF TurnAdds, TurnHolds, Fits, HoldingSteps, OwnerOf
  <1>6. ASSUME NEW m \in Msgs, m = cur, AdmissionAdds(r) PROVE AdmissionHolds(r, m)'
    <2>1. Prepares(m)
      BY <1>6, AdmittedSteps DEF AdmissionAdds, AdmittedStep, Types, MainOK, Admitting
    <2>2. r.owner \in Owners /\ target = conv[cur].topic
      BY <1>6 DEF AdmissionAdds, Takes, AdmittedSessions, Types, ViewsOK, Views, Actors
    <2>. QED
      BY <1>6, <2>1, <2>2 DEF AdmissionAdds, Takes, AdmissionHolds, Prepares, Fits, OwnerOf,
        AdmittedPcs, Admitting, target, Owners
  <1>7. ASSUME ReconciliationAdds(r) PROVE ReconciliationHolds(r)'
    BY <1>7 DEF ReconciliationAdds, Takes, ReconciliationHolds, HoldingPcs, target
  <1>8. ASSUME NEW m \in Msgs, NEW q \in rsv, Loses(m, q, r) PROVE NobodyHolds(r)'
    <2>1. AdmissionHolds(q, m)
      BY <1>8 DEF Loses, HoldersKnown, Holder, TurnHolds, AdmissionHolds, ReconciliationHolds,
        NobodyHolds, Admission, Turn, Reconciliation, Nobody
    <2>2. SessionKnown(conv[m].thread, conv[m].sess) /\ conv[m].thread \in Threads
      BY <2>1 DEF AdmissionHolds, AdmittedSessions, Types, TurnsOK, Routed, Admitting
    <2>3. r.owner.thread = conv[m].thread /\ r.owner.sess = conv[m].sess /\ r.by = Nobody
      BY <1>8, <2>1 DEF Loses, AdmissionHolds, Fits, OwnerOf
    <2>4. mem' = mem /\ pc' = "resolve"
      BY <1>8 DEF Loses, MentionFails, NextMessage
    <2>. QED
      BY <2>2, <2>3, <2>4 DEF NobodyHolds, SessionKnown
  <1>9. CASE r \in rsv
    BY <1>1, <1>2, <1>3, <1>4, <1>9 DEF HoldersKnown, Holder
  <1>10. CASE r \notin rsv
    BY <1>5, <1>6, <1>7, <1>8, <1>10, AddedFacts DEF AdmissionAdds, Holder
  <1>. QED
    BY <1>9, <1>10

\* What a holder needs is reserved.
LEMMA ReservedKept ==
    ASSUME Types, Phases, Reserved, Next
    PROVE  Reserved'
  BY ReservedSteps DEF Reserved, ReservedStep

\* What is known of the owner that a reservation is for.
LEMMA HolderFacts ==
    ASSUME Types, TurnSessions, AdmittedSessions, JobSessions, HoldersKnown, NEW r \in rsv
    PROVE  /\ r.owner.thread \in Threads /\ r.topic \in Topics /\ Name[r.topic] \in Names
           /\ r.owner.sess # NoSession => mem.reg.sess[r.owner.thread] \in {NoSession, r.owner.sess}
  <1>1. r.topic \in Topics /\ Name[r.topic] \in Names
    BY SessionFacts DEF Types, ReservationsOK
  <1>2. ASSUME NEW m \in Msgs, TurnHolds(r, m) \/ AdmissionHolds(r, m)
        PROVE  /\ r.owner.thread \in Threads
               /\ r.owner.sess # NoSession => mem.reg.sess[r.owner.thread] \in {NoSession, r.owner.sess}
    <2>1. /\ r.owner.thread = conv[m].thread /\ r.owner.sess = conv[m].sess
          /\ step[m] \in TurnSteps \/ step[m] \in Admitting
      BY <1>2 DEF TurnHolds, AdmissionHolds, Fits, OwnerOf, HoldingSteps, TurnSteps
    <2>2. conv[m].thread \in Threads
      BY <2>1 DEF Types, TurnsOK, Routed, Admitting
    <2>. QED
      BY <2>1, <2>2 DEF TurnSessions, AdmittedSessions, SessionKnown
  <1>3. ASSUME ReconciliationHolds(r)
        PROVE  /\ r.owner.thread \in Threads
               /\ r.owner.sess # NoSession => mem.reg.sess[r.owner.thread] \in {NoSession, r.owner.sess}
    <2>1. pc \in LookedPcs /\ pc \in RecPcs /\ r.owner = view[Main].owner
      BY <1>3 DEF ReconciliationHolds, HoldingPcs, LookedPcs, RecPcs
    <2>2. job.thread \in Threads
      BY <2>1 DEF Types, MainOK, Jobs
    <2>. QED
      BY <2>1, <2>2 DEF JobSessions
  <1>4. NobodyHolds(r) =>
            /\ r.owner.thread \in Threads
            /\ r.owner.sess # NoSession => mem.reg.sess[r.owner.thread] \in {NoSession, r.owner.sess}
    BY DEF NobodyHolds
  <1>. QED
    BY <1>1, <1>2, <1>3, <1>4 DEF HoldersKnown, Holder

\* No name is reserved for two.
LEMMA CompatibleStep ==
    ASSUME Types, Compatible, Next
    PROVE  Compatible'
  <1>1. \A a, b : OwnersConflict(a, b) => OwnersConflict(b, a)
    BY DEF OwnersConflict
  <1>2. \A a : ~ OwnersConflict(a, a)
    BY DEF OwnersConflict
  <1>3. CASE rsv' \subseteq rsv
    BY <1>3 DEF Compatible
  <1>4. ASSUME NEW a, NEW r, Takes(a, r) PROVE Compatible'
    <2>1. \A q \in rsv : Name[q.topic] = Name[r.topic] => ~ OwnersConflict(r.owner, q.owner)
      BY <1>4 DEF Takes, Reservable, ReservationConflicts
    <2>. QED
      BY <1>1, <1>2, <1>4, <2>1 DEF Takes, Compatible
  <1>5. ASSUME NEW m \in Msgs, MentionFails(m) PROVE Compatible'
    <2>1. \A r \in rsv' : \E q \in rsv : q.topic = r.topic /\ q.owner = r.owner
      BY <1>5, LostFacts DEF Loses
    <2>. QED
      BY <2>1 DEF Compatible
  <1>. QED
    BY <1>3, <1>4, <1>5, AddSteps DEF AddStep, TurnAdds, AdmissionAdds, ReconciliationAdds

\* A registry that has the session of a thread claims that thread.
LEMMA RegistryClaims ==
    ASSUME OneClaim, NEW st \in {mem, disk, saved.mem}, NEW tt \in {mem, disk, saved.mem},
           NEW x \in Threads, NEW y \in Threads, NEW s \in Sessions,
           st.reg.sess[x] = s, tt.reg.sess[y] = s
    PROVE  x = y
  BY DEF OneClaim, Claimed, StateClaims

\* Where an owner may take a name, the name is free for it.
LEMMA TakenIsFree ==
    ASSUME NEW reg, RegistryOK(reg), Backed(reg), NEW r, r.topic \in Topics, r.owner.thread \in Threads,
           StillFree(reg, r.owner, r.topic)
    PROVE  Free(reg, r)
  <1>. DEFINE o == StoredOwner(reg, r.topic)
              t == r.topic
              x == r.owner.thread
  <1>1. /\ reg.alias[Name[t]] \in {NoThread, o.thread}
        /\ reg.topicSess[t] \in {NoSession, o.sess}
        /\ o.sess = SessionOf(reg, o.thread)
    BY StoredOwnerFacts DEF StillFree
  <1>2. o.thread \in {NoThread, x}
    BY ThreadFacts DEF StillFree, OwnersConflict
  <1>. HIDE DEF o, t, x
  <1>3. o.sess \in {NoSession, reg.sess[x]}
    BY <1>1, <1>2 DEF SessionOf
  <1>. QED
    BY <1>1, <1>2, <1>3 DEF Free, t, x

\* No note, expiry or rollback gives a reserved name to another thread.
LEMMA NamesFreeStep ==
    ASSUME Types, NamesOwned, OneClaim, ClaimsAreOld, CopyIsOlder, TurnSessions, AdmittedSessions,
           JobSessions, HoldersKnown, SeenOwners, NamesFree, Next
    PROVE  NamesFree'
  <1>1. Types' /\ Backed(mem'.reg) /\ RegistryOK(mem'.reg) /\ RegistryOK(mem.reg)
    BY TypesStep, NamesStep DEF NamesOwned, Types, StatesOK, Good
  <1>2. ASSUME NEW r \in rsv, rsv' # {} PROVE Free(mem'.reg, r)
    <2>. DEFINE x == r.owner.thread
                t == r.topic
                n == Name[r.topic]
    <2>1. /\ x \in Threads /\ t \in Topics /\ n \in Names
          /\ mem.reg.alias[n] \in {NoThread, x}
          /\ mem.reg.topicSess[t] \in {NoSession, mem.reg.sess[x]}
      BY HolderFacts DEF NamesFree, Free
    <2>2. /\ mem.reg.sess[x] \in Sessions \cup {NoSession}
          /\ mem'.reg.sess[x] \in Sessions \cup {NoSession}
          /\ mem'.reg.topicSess[t] \in Sessions \cup {NoSession}
      BY <1>1, <2>1 DEF RegistryOK, Registries
    <2>3. ~ Crash
      BY <1>2 DEF Crash
    <2>4. CASE mem'.reg = mem.reg
      BY <2>1, <2>4 DEF Free
    <2>5. CASE Undone
      <3>1. /\ mem'.reg.alias[n] \in {NoThread, mem.reg.alias[n]}
            /\ mem'.reg.topicSess[t] \in {NoSession, mem.reg.topicSess[t]}
        BY <2>1, <2>5 DEF Undone, CopyIsOlder, Older
      <3>2. ASSUME mem'.reg.topicSess[t] # NoSession PROVE mem'.reg.topicSess[t] = mem'.reg.sess[x]
        <4>1. PICK y \in Threads : saved.mem.reg.sess[y] = mem'.reg.topicSess[t]
          BY <1>1, <2>1, <2>5, <3>2 DEF Backed, Undone
        <4>2. mem.reg.sess[x] = mem'.reg.topicSess[t] /\ mem'.reg.topicSess[t] \in Sessions
          BY <2>1, <2>2, <3>1, <3>2
        <4>3. x = y
          <5>. HIDE DEF x, t
          <5>. QED
            BY <2>1, <4>1, <4>2, RegistryClaims
        <4>. QED
          BY <2>5, <4>1, <4>3 DEF Undone
      <3>. QED
        BY <2>1, <3>1, <3>2 DEF Free
    <2>6. CASE Expired
      <3>. DEFINE new == Expire(mem.reg, target, view[Main].stale)
      <3>1. target \in Topics
        BY <2>6 DEF Expired, Types, ViewsOK
      <3>2. /\ new.sess = mem.reg.sess
            /\ new.alias[n] \in {mem.reg.alias[n], NoThread}
            /\ new.topicSess[t] \in {mem.reg.topicSess[t], NoSession}
        BY <1>1, <2>1, <3>1, ExpireFacts
      <3>3. mem'.reg \in {mem.reg, new}
        BY <2>6 DEF Expired, Cleared
      <3>. HIDE DEF new
      <3>. QED
        BY <2>1, <3>2, <3>3 DEF Free
    <2>7. ASSUME NEW c \in Carried, Noted(c) PROVE Free(mem'.reg, r)
      <3>1. /\ NoteEffect(mem.reg, c, mem'.reg)
            /\ \A k \in Names \ {Name[c.topic]} : mem'.reg.alias[k] = mem.reg.alias[k]
            /\ mem'.reg.alias[Name[c.topic]] = c.thread
            /\ c.thread \in Threads /\ c.topic \in Topics
        BY <2>7, NotedFacts
      <3>2. ~ ReservationConflicts(rsv, c.topic, OwnerOf(c))
        BY <2>7 DEF Noted, CanNoteThread
      <3>3. n = Name[c.topic] => x = c.thread
        BY <1>2, <2>1, <3>1, <3>2, ThreadFacts DEF ReservationConflicts, OwnersConflict, OwnerOf
      <3>4. mem.reg.sess[x] # NoSession => mem'.reg.sess[x] = mem.reg.sess[x]
        BY <2>1, <3>1 DEF NoteEffect
      <3>5. \/ mem'.reg.topicSess[t] = mem.reg.topicSess[t]
            \/ t = c.topic /\ mem'.reg.topicSess[t] = c.sess /\ mem'.reg.sess[c.thread] = c.sess
        BY <2>1, <3>1 DEF NoteEffect
      <3>. HIDE DEF x, t
      <3>6. mem'.reg.alias[n] \in {NoThread, x}
        BY <2>1, <3>1, <3>3
      <3>7. mem'.reg.topicSess[t] \in {NoSession, mem'.reg.sess[x]}
        BY <2>1, <3>3, <3>4, <3>5 DEF t
      <3>. QED
        BY <3>6, <3>7 DEF Free, x, t
    <2>. QED
      BY <2>3, <2>4, <2>5, <2>6, <2>7, RegistryCases
  <1>3. ASSUME NEW r \in rsv', r \notin rsv PROVE Free(mem'.reg, r)
    <2>1. ASSUME NEW a, Takes(a, r), r.owner.thread \in Threads PROVE Free(mem'.reg, r)
      <3>1. r.topic \in Topics /\ StillFree(mem'.reg, r.owner, r.topic)
        BY <1>1, <1>3, <2>1 DEF Takes, Types, ReservationsOK
      <3>. QED
        BY <1>1, <2>1, <3>1, TakenIsFree
    <2>2. ASSUME NEW m \in Msgs, TurnAdds(m, r) PROVE Free(mem'.reg, r)
      <3>1. r.owner = OwnerOf(conv[m]) /\ step[m] \in {"claim", "replyClaim"} /\ Takes(m, r)
        BY <2>2 DEF TurnAdds, Takes, SeenOwners
      <3>2. r.owner.thread = conv[m].thread /\ step[m] \in Routed
        BY <3>1 DEF OwnerOf, Routed, TurnSteps
      <3>. QED
        BY <2>1, <3>1, <3>2 DEF Types, TurnsOK
    <2>3. ASSUME AdmissionAdds(r) PROVE Free(mem'.reg, r)
      BY <2>1, <2>3 DEF AdmissionAdds, Takes, Types, ViewsOK
    <2>4. ASSUME ReconciliationAdds(r) PROVE Free(mem'.reg, r)
      <3>1. Takes(Main, r) /\ r.owner.thread \in Threads
        BY <2>4 DEF ReconciliationAdds, Takes, JobSessions, LookedPcs, Types, MainOK, RecPcs,
          Jobs
      <3>. QED
        BY <2>1, <3>1
    <2>5. ASSUME NEW m \in Msgs, NEW q \in rsv, Loses(m, q, r) PROVE Free(mem'.reg, r)
      <3>1. Free(mem'.reg, q) /\ r.topic = q.topic /\ r.owner = q.owner
        BY <1>2, <1>3, <2>5 DEF Loses
      <3>. QED
        BY <3>1 DEF Free
    <2>. QED
      BY <1>3, <2>2, <2>3, <2>4, <2>5, AddedFacts
  <1>. QED
    BY <1>2, <1>3 DEF NamesFree

\* A reservation is worth what it says: whoever is reserved a name can note it.
Holds ==
    /\ Phases /\ CopyIsOlder
    /\ TurnSessions /\ AdmittedSessions /\ JobSessions /\ SeenOwners
    /\ HoldersKnown /\ Reserved /\ NamesFree /\ Compatible

\* So the notes of the holder cannot be refused.
LEMMA ReservationHoldsFromHolders ==
    ASSUME Types, OneClaim, Holds
    PROVE  ReservationHolds
  <1>1. /\ RegistryOK(mem.reg)
        /\ TurnSessions /\ AdmittedSessions /\ JobSessions /\ HoldersKnown
        /\ Reserved /\ NamesFree /\ Compatible
    BY DEF Holds, Types, StatesOK, Good
  <1>2. ASSUME NEW r \in rsv
        PROVE  /\ r.owner.thread \in Threads /\ r.topic \in Topics /\ Name[r.topic] \in Names
               /\ r.owner.sess # NoSession => mem.reg.sess[r.owner.thread] \in {NoSession, r.owner.sess}
               /\ mem.reg.alias[Name[r.topic]] \in {NoThread, r.owner.thread}
               /\ mem.reg.topicSess[r.topic] \in {NoSession, mem.reg.sess[r.owner.thread]}
    BY <1>1, HolderFacts DEF NamesFree, Free
  <1>3. ASSUME NEW r \in rsv PROVE ~ OwnersConflict(r.owner, StoredOwner(mem.reg, r.topic))
    <2>. DEFINE x == r.owner.thread
                a == mem.reg.alias[Name[r.topic]]
                claims == SessionClaims(mem.reg, r.topic)
                s == TheOne(claims, NoSession)
                y == TheOne(ThreadsOf(mem.reg, s), NoThread)
    <2>1. /\ x \in Threads /\ a \in {NoThread, x}
          /\ claims = {mem.reg.topicSess[r.topic], SessionOf(mem.reg, a)} \ {NoSession}
          /\ mem.reg.topicSess[r.topic] \in {NoSession, mem.reg.sess[x]}
          /\ mem.reg.sess[x] \in Sessions \cup {NoSession}
      BY <1>1, <1>2 DEF SessionClaims, RegistryOK, Registries
    <2>2. /\ StoredOwner(mem.reg, r.topic).thread = IF a # NoThread THEN a ELSE y
          /\ StoredOwner(mem.reg, r.topic).sess = s
      BY DEF StoredOwner
    <2>. HIDE DEF claims, a
    <2>3. claims \subseteq {mem.reg.sess[x]} \ {NoSession}
      BY <2>1 DEF SessionOf
    <2>4. s \in {NoSession, mem.reg.sess[x]}
      BY <2>3, TheOneFacts
    <2>. HIDE DEF s
    <2>5. \A z \in ThreadsOf(mem.reg, s) : z = x
      <3>. SUFFICES ASSUME NEW z \in Threads, s # NoSession, mem.reg.sess[z] = s PROVE z = x
        BY DEF ThreadsOf
      <3>1. mem.reg.sess[x] = s /\ s \in Sessions
        BY <2>1, <2>4
      <3>. HIDE DEF x
      <3>. QED
        BY <2>1, <3>1, RegistryClaims
    <2>6. y \in {NoThread, x}
      BY <2>5, TheOneFacts
    <2>. HIDE DEF y
    <2>. QED
      BY <1>2, <2>1, <2>2, <2>4, <2>6 DEF OwnersConflict
  <1>4. ASSUME NEW r \in rsv PROVE ~ ReservationConflicts(rsv, r.topic, r.owner)
    BY <1>1, <1>4 DEF Compatible, ReservationConflicts
  <1>5. ASSUME NEW m \in At("resolved") \cup At("prepared") \cup At("publish")
        PROVE  CanNote(mem.reg, rsv, conv[m])
    <2>. DEFINE c == conv[m]
                t == conv[m].topic
    <2>1. m \in Msgs /\ step[m] \in {"resolved", "prepared", "publish"}
      BY <1>5 DEF At
    <2>2. PICK r \in rsv : IF step[m] = "publish" THEN r.by = Turn(m) ELSE r.by = Admission(m)
      BY <1>1, <2>1 DEF Reserved
    <2>3. Fits(r, c)
      <3>1. ASSUME r.by = Admission(m) PROVE AdmissionHolds(r, m)
        BY <1>1, <3>1 DEF HoldersKnown, Holder, TurnHolds, AdmissionHolds, ReconciliationHolds,
          NobodyHolds, Turn, Admission, Reconciliation, Nobody
      <3>2. ASSUME r.by = Turn(m) PROVE TurnHolds(r, m)
        BY <1>1, <3>2 DEF HoldersKnown, Holder, TurnHolds, AdmissionHolds, ReconciliationHolds,
          NobodyHolds, Turn, Admission, Reconciliation, Nobody
      <3>. QED
        BY <2>2, <3>1, <3>2 DEF TurnHolds, AdmissionHolds
    <2>4. /\ c \in Conversations /\ c.thread \in Threads /\ t \in Topics
          /\ step[m] \in TurnSteps \cup Admitting
      BY <2>1 DEF Types, TurnsOK, Routed, TurnSteps, Conversations, Admitting
    <2>5. /\ mem.reg.alias[Name[t]] \in {NoThread, c.thread}
          /\ mem.reg.topicSess[t] \in {NoSession, mem.reg.sess[c.thread]}
          /\ ~ ReservationConflicts(rsv, t, OwnerOf(c))
      BY <1>2, <1>4, <2>3 DEF Fits, OwnerOf
    <2>6. c.sess # NoSession => mem.reg.sess[c.thread] \in {NoSession, c.sess}
      BY <1>1, <2>1, <2>4 DEF TurnSessions, AdmittedSessions, SessionKnown
    <2>7. c.sess # NoSession => mem.reg.topicSess[t] \in {NoSession, c.sess}
      BY <2>5, <2>6
    <2>8. CanNoteThread(mem.reg, rsv, c)
      BY <2>5, <2>6, <2>7 DEF CanNoteThread
    <2>9. NoteThread(mem.reg, c).topicSess = mem.reg.topicSess
      BY <1>1, <2>4, <2>8, NoteThreadFacts
    <2>10. c.sess # NoSession => CanNoteSession(NoteThread(mem.reg, c), rsv, c)
      BY <2>5, <2>7, <2>9 DEF CanNoteSession
    <2>. QED
      BY <2>8, <2>10 DEF CanNote
  <1>. QED
    BY <1>3, <1>4, <1>5 DEF ReservationHolds

\* And who holds a reservation is at work, but for the lost ones.
LEMMA ReservationsEndFromHolders ==
    ASSUME Types, Holds
    PROVE  ReservationsEnd
  <1>. SUFFICES ASSUME NEW r \in rsv, r.by # Nobody PROVE HasActor(r)
    BY DEF ReservationsEnd
  <1>1. ASSUME NEW m \in Msgs, TurnHolds(r, m) \/ AdmissionHolds(r, m) PROVE HasActor(r)
    BY <1>1 DEF HasActor, TurnHolds, AdmissionHolds, HoldingSteps, Admitting
  <1>2. ASSUME ReconciliationHolds(r) PROVE HasActor(r)
    <2>1. cur \in Msgs
      BY <1>2 DEF ReconciliationHolds, HoldingPcs, RecPcs, Types, MainOK
    <2>. QED
      BY <1>2, <2>1 DEF ReconciliationHolds, HasActor
  <1>. QED
    BY <1>1, <1>2 DEF Holds, HoldersKnown, Holder, NobodyHolds

\* Nothing is reserved at the start.
LEMMA HoldsInit == Init => Holds
  BY DEF Init, InitMain, Holds, Phases, CopyIsOlder, TurnSessions, AdmittedSessions,
    JobSessions, SeenOwners, HoldersKnown, Reserved, NamesFree, Compatible, TurnSteps, RecPcs,
    LookedPcs, Admitting

\* What is known of the holders stays true.
LEMMA HoldsStep ==
    ASSUME Types, NamesOwned, OneClaim, ClaimsAreOld, TurnsApart, Holds, Next
    PROVE  Holds'
  <1>1. (Phases /\ CopyIsOlder)'
    BY PhasesStep, CopyIsOlderStep DEF Holds
  <1>2. (TurnSessions /\ AdmittedSessions /\ JobSessions /\ SeenOwners)'
    BY TurnSessionsStep, AdmittedSessionsStep, JobSessionsStep, SeenOwnersStep DEF Holds
  <1>3. (HoldersKnown /\ Reserved /\ NamesFree /\ Compatible)'
    BY HoldersKnownStep, ReservedKept, NamesFreeStep, CompatibleStep DEF Holds
  <1>. QED
    BY <1>1, <1>2, <1>3 DEF Holds

\* A stuttering step changes none of it.
LEMMA HoldsUnchanged ==
    ASSUME Holds, UNCHANGED vars
    PROVE  Holds'
  <1>1. /\ UNCHANGED <<mem, rsv, view, pc, cur, saved, job, step, conv>>
    BY DEF vars, shared, mains, workers
  <1>2. (Phases /\ CopyIsOlder)'
    BY <1>1 DEF Holds, Phases, CopyIsOlder
  <1>3. (TurnSessions /\ AdmittedSessions /\ JobSessions /\ SeenOwners)'
    BY <1>1 DEF Holds, TurnSessions, AdmittedSessions, SessionKnown, HasTurn, JobSessions,
      SeenOwners, target
  <1>4. HoldersKnown'
    BY <1>1 DEF Holds, HoldersKnown, Holder, TurnHolds, AdmissionHolds, ReconciliationHolds,
      NobodyHolds, Fits, target
  <1>5. (Reserved /\ NamesFree /\ Compatible)'
    BY <1>1 DEF Holds, Reserved, NamesFree, Compatible
  <1>. QED
    BY <1>2, <1>3, <1>4, <1>5 DEF Holds

(***************************************************************************)
(* The theorems.                                                           *)
(***************************************************************************)
RoutesInv == Types /\ NamesOwned /\ OneClaim /\ ClaimsAreOld /\ TurnsApart /\ Whereabouts /\ Holds

\* The invariant holds at the start.
LEMMA RoutesInit == Init => RoutesInv
  <1>1. Init => TurnsApart
    BY DEF Init, TurnsApart, TurnSteps
  <1>. QED
    BY <1>1, TypesInit, ClaimsInit, WhereaboutsInit, HoldsInit DEF RoutesInv

\* It holds after every step.
LEMMA RoutesStep == RoutesInv /\ [Next]_vars => RoutesInv'
  <1>. SUFFICES ASSUME RoutesInv, [Next]_vars PROVE RoutesInv'
    OBVIOUS
  <1>1. Types'
    BY TypesStep DEF RoutesInv
  <1>2. CASE Next
    <2>1. (NamesOwned /\ OneClaim /\ ClaimsAreOld)'
      BY <1>2, NamesStep, OneClaimStep DEF RoutesInv
    <2>2. TurnsApart'
      BY <1>2, TurnsApartStep DEF RoutesInv
    <2>3. Whereabouts'
      BY <1>2, JobsTracedStep, AttemptsTracedStep, PostsTracedStep DEF RoutesInv, Whereabouts
    <2>4. Holds'
      BY <1>2, HoldsStep DEF RoutesInv
    <2>. QED
      BY <1>1, <2>1, <2>2, <2>3, <2>4 DEF RoutesInv
  <1>3. CASE UNCHANGED vars
    <2>1. (NamesOwned /\ OneClaim /\ ClaimsAreOld)'
      BY <1>3, ClaimsUnchanged DEF RoutesInv
    <2>2. TurnsApart'
      BY <1>3 DEF RoutesInv, TurnsApart, vars, workers
    <2>3. Whereabouts'
      BY <1>3 DEF RoutesInv, Whereabouts, JobsTraced, AttemptsTraced, PostsTraced, Traced,
        Queued, target, vars, zulip, shared, mains, workers
    <2>4. Holds'
      BY <1>3, HoldsUnchanged DEF RoutesInv
    <2>. QED
      BY <1>1, <2>1, <2>2, <2>3, <2>4 DEF RoutesInv
  <1>. QED
    BY <1>2, <1>3

\* The inductive invariant: types, claims, turns, whereabouts and holders.
LEMMA RoutesInvariant == Spec => []RoutesInv
  BY RoutesInit, RoutesStep, PTL DEF Spec

\* Two turns that Hermes has started never work on one thread or one session (submit_prepared
\* of bridge.py steers or defers the second), whatever is moved, renamed or merged.
THEOREM OneTurn == Spec => []OneTurnPerSession
  <1>1. RoutesInv => OneTurnPerSession
    BY OneTurnFromClaims DEF RoutesInv
  <1>. QED
    BY <1>1, RoutesInvariant, PTL

\* The job of a reply knows where the bridge put it (reconcile_pending_replies records a
\* destination and saves it before the PATCH), in memory and after a crash.
THEOREM RepliesAreTraced == Spec => []WhereaboutsKnown
  <1>1. RoutesInv => WhereaboutsKnown
    BY WhereaboutsFromTraces DEF RoutesInv
  <1>. QED
    BY <1>1, RoutesInvariant, PTL

\* What was reserved (_reserve_destination_owner of bridge.py) can be noted: no other actor, and
\* no rollback, takes the name or the session between the check and the publication.
THEOREM ReservationsHold == Spec => []ReservationHolds
  <1>1. RoutesInv => ReservationHolds
    BY ReservationHoldsFromHolders DEF RoutesInv
  <1>. QED
    BY <1>1, RoutesInvariant, PTL

\* A reservation ends with what it was made for (release_destination_reservation of
\* bridge.py), on every path but the failed look at a mention in admit_messages.
THEOREM ReservationsAlwaysEnd == Spec => []ReservationsEnd
  <1>1. RoutesInv => ReservationsEnd
    BY ReservationsEndFromHolders DEF RoutesInv
  <1>. QED
    BY <1>1, RoutesInvariant, PTL
=============================================================================
