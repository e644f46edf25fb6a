-------------------------- MODULE SeenWindow_proofs --------------------------
(***************************************************************************)
(* What persist_state writes, for any window, any limits and any number of *)
(* messages: a list that can be loaded, with everything that is required;  *)
(* and what a restart makes of it while the window holds every message.    *)
(***************************************************************************)
EXTENDS SeenWindow, FiniteSetTheorems, FunctionTheorems, SequenceTheorems, TLAPS

(***************************************************************************)
(* Ascending: the rank of an element is one more than the number of those  *)
(* below it, and ranks are a bijection.                                    *)
(***************************************************************************)
Rank(S, m) == Cardinality({n \in S : n <= m})

LEMMA RankRises ==
    ASSUME NEW S \in SUBSET Nat, IsFiniteSet(S), NEW m \in S, NEW n \in S, m < n
    PROVE  Rank(S, m) < Rank(S, n)
  <1>. DEFINE A == {k \in S : k <= m}
              B == {k \in S : k <= n}
  <1>1. A \subseteq B /\ n \in B /\ n \notin A
    <2>1. m \in Nat /\ n \in Nat /\ (\A k \in S : k \in Nat)
      OBVIOUS
    <2>2. \A k \in S : k <= m => k <= n
      BY <2>1
    <2>3. n <= n /\ ~ (n <= m)
      BY <2>1
    <2>. QED
      BY <2>2, <2>3
  <1>2. IsFiniteSet(B)
    BY FS_Subset
  <1>. HIDE DEF A, B
  <1>3. Cardinality(A) <= Cardinality(B) /\ (Cardinality(A) = Cardinality(B) => A = B)
    BY <1>1, <1>2, FS_Subset
  <1>4. IsFiniteSet(A) /\ Cardinality(A) \in Nat /\ Cardinality(B) \in Nat
    BY <1>1, <1>2, FS_Subset, FS_CardinalityType
  <1>5. Cardinality(A) < Cardinality(B)
    BY <1>1, <1>3, <1>4
  <1>. QED
    BY <1>5 DEF Rank, A, B

LEMMA RankRange ==
    ASSUME NEW S \in SUBSET Nat, IsFiniteSet(S), NEW m \in S
    PROVE  Rank(S, m) \in 1 .. Cardinality(S)
  <1>. DEFINE A == {k \in S : k <= m}
  <1>1. A \subseteq S /\ m \in A
    OBVIOUS
  <1>. HIDE DEF A
  <1>2. IsFiniteSet(A) /\ Cardinality(A) <= Cardinality(S)
    BY <1>1, FS_Subset
  <1>3. Cardinality(A) \in Nat /\ Cardinality(S) \in Nat /\ (Cardinality(A) = 0 <=> A = {})
    BY <1>2, FS_CardinalityType, FS_EmptySet
  <1>4. Cardinality(A) \in 1 .. Cardinality(S)
    BY <1>1, <1>2, <1>3
  <1>. QED
    BY <1>4 DEF Rank, A

LEMMA RankOnto ==
    ASSUME NEW S \in SUBSET Nat, IsFiniteSet(S), NEW k \in 1 .. Cardinality(S)
    PROVE  \E m \in S : Rank(S, m) = k
  <1>. DEFINE N == Cardinality(S)
              rank == [m \in S |-> Rank(S, m)]
  <1>1. N \in Nat
    BY FS_CardinalityType
  <1>. HIDE DEF N
  <1>2. rank \in [S -> 1 .. N]
    BY RankRange DEF N
  <1>3. ASSUME NEW m \in S, NEW n \in S, rank[m] = rank[n] PROVE m = n
    <2>1. Rank(S, m) = Rank(S, n) /\ Rank(S, m) \in 1 .. N /\ m \in Nat /\ n \in Nat
      BY <1>3, RankRange DEF N
    <2>2. ~ (m < n) /\ ~ (n < m)
      BY <1>1, <2>1, RankRises
    <2>. QED
      BY <2>1, <2>2
  <1>. HIDE DEF rank
  <1>4. rank \in Injection(S, 1 .. N)
    BY <1>2, <1>3 DEF Injection, IsInjective
  <1>5. IsFiniteSet(1 .. N) /\ Cardinality(1 .. N) = N
    <2>1. 1 \in Int /\ N \in Int
      BY <1>1
    <2>2. IsFiniteSet(1 .. N) /\ Cardinality(1 .. N) = IF 1 > N THEN 0 ELSE N - 1 + 1
      BY <2>1, FS_Interval
    <2>. QED
      BY <1>1, <2>2
  <1>6. rank \in Surjection(S, 1 .. N)
    BY <1>4, <1>5, FS_Injection DEF N
  <1>7. PICK m \in S : rank[m] = k
    BY <1>6 DEF Surjection, N
  <1>. QED
    BY <1>7 DEF rank

\* Ascending(S) is a list of S, each element once, in their order.
LEMMA AscendingFacts ==
    ASSUME NEW S \in SUBSET Nat, IsFiniteSet(S)
    PROVE  /\ Ascending(S) \in Seq(S)
           /\ Len(Ascending(S)) = Cardinality(S)
           /\ ToSet(Ascending(S)) = S
           /\ \A i, j \in 1 .. Len(Ascending(S)) : i < j => Ascending(S)[i] < Ascending(S)[j]
  <1>. DEFINE N == Cardinality(S)
              s == Ascending(S)
  <1>1. N \in Nat
    BY FS_CardinalityType
  <1>2. ASSUME NEW k \in 1 .. N PROVE s[k] \in S /\ Rank(S, s[k]) = k
    <2>1. s[k] = CHOOSE m \in S : Rank(S, m) = k
      BY DEF Ascending, Rank
    <2>2. \E m \in S : Rank(S, m) = k
      BY RankOnto
    <2>. QED
      BY <2>1, <2>2
  <1>9. \A m, n \in S : m < n => Rank(S, m) < Rank(S, n)
    BY RankRises
  <1>3. DOMAIN s = 1 .. N /\ s = [k \in 1 .. N |-> s[k]]
    <2>. DEFINE pick(k) == CHOOSE m \in S : Cardinality({n \in S : n <= m}) = k
    <2>1. s = [k \in 1 .. N |-> pick(k)]
      BY DEF Ascending
    <2>. HIDE DEF s, N, pick
    <2>. QED
      BY <2>1
  <1>. HIDE DEF s, N
  <1>4. s \in [1 .. N -> S]
    BY <1>2, <1>3
  <1>5. s \in Seq(S) /\ Len(s) = N
    BY <1>1, <1>3, <1>4
  <1>6. ASSUME NEW m \in S PROVE \E k \in 1 .. N : s[k] = m
    <2>1. Rank(S, m) \in 1 .. N
      BY RankRange DEF N
    <2>. DEFINE k == Rank(S, m)
    <2>2. s[k] \in S /\ Rank(S, s[k]) = k
      BY <1>2, <2>1
    <2>3. s[k] \in Nat /\ m \in Nat
      BY <2>2
    <2>4. ~ (s[k] < m) /\ ~ (m < s[k])
      <3>1. Rank(S, s[k]) = Rank(S, m) /\ Rank(S, m) \in Nat
        BY <1>1, <2>1, <2>2
      <3>2. ~ (Rank(S, s[k]) < Rank(S, m)) /\ ~ (Rank(S, m) < Rank(S, s[k]))
        BY <3>1
      <3>. HIDE DEF k
      <3>. QED
        BY <1>9, <2>2, <3>2
    <2>5. s[k] = m
      BY <2>3, <2>4
    <2>. QED
      BY <2>1, <2>5
  <1>7. ToSet(s) = S
    BY <1>2, <1>3, <1>6 DEF ToSet
  <1>8. ASSUME NEW i \in 1 .. N, NEW j \in 1 .. N, i < j PROVE s[i] < s[j]
    <2>1. s[i] \in S /\ s[j] \in S /\ Rank(S, s[i]) = i /\ Rank(S, s[j]) = j
      BY <1>2
    <2>2. s[i] \in Nat /\ s[j] \in Nat
      BY <2>1
    <2>3. s[i] # s[j] /\ ~ (s[j] < s[i])
      <3>1. i \in Nat /\ j \in Nat /\ i # j /\ ~ (j < i)
        BY <1>8
      <3>. QED
        BY <1>9, <2>1, <3>1
    <2>. QED
      BY <2>2, <2>3
  <1>. QED
    BY <1>5, <1>7, <1>8 DEF s, N

-----------------------------------------------------------------------------
(***************************************************************************)
(* Lists without repetition.                                               *)
(***************************************************************************)
Distinct(s) == \A i, j \in 1 .. Len(s) : i # j => s[i] # s[j]

LEMMA AscendingDistinct ==
    ASSUME NEW S \in SUBSET Nat, IsFiniteSet(S)
    PROVE  Distinct(Ascending(S))
  <1>. DEFINE s == Ascending(S)
  <1>1. /\ s \in Seq(S) /\ \A i, j \in 1 .. Len(s) : i < j => s[i] < s[j]
    BY AscendingFacts
  <1>. HIDE DEF s
  <1>2. ASSUME NEW i \in 1 .. Len(s), NEW j \in 1 .. Len(s), i # j PROVE s[i] # s[j]
    <2>1. s[i] \in S /\ s[j] \in S /\ Len(s) \in Nat
      BY <1>1, ElementOfSeq
    <2>3. s[i] \in Nat /\ s[j] \in Nat
      BY <2>1
    <2>2. i < j \/ j < i
      BY <1>2, <2>1
    <2>. QED
      BY <1>1, <2>2, <2>3
  <1>. QED
    BY <1>2 DEF Distinct, s

LEMMA DistinctConcat ==
    ASSUME NEW s \in Seq(Nat), NEW t \in Seq(Nat), Distinct(s), Distinct(t),
           ToSet(s) \cap ToSet(t) = {}
    PROVE  Distinct(s \o t)
  <1>1. /\ Len(s \o t) = Len(s) + Len(t) /\ Len(s) \in Nat /\ Len(t) \in Nat
        /\ \A i \in 1 .. Len(s) + Len(t) :
             (s \o t)[i] = IF i <= Len(s) THEN s[i] ELSE t[i - Len(s)]
    OBVIOUS
  <1>2. DOMAIN s = 1 .. Len(s) /\ DOMAIN t = 1 .. Len(t)
    OBVIOUS
  <1>3. \A i \in 1 .. Len(s), j \in 1 .. Len(t) : s[i] # t[j]
    BY <1>2 DEF ToSet
  <1>4. ASSUME NEW i \in 1 .. Len(s \o t), NEW j \in 1 .. Len(s \o t), i < j
        PROVE  (s \o t)[i] # (s \o t)[j]
    <2>1. CASE j <= Len(s)
      BY <1>1, <1>4, <2>1 DEF Distinct
    <2>2. CASE i <= Len(s) /\ j > Len(s)
      <3>1. j - Len(s) \in 1 .. Len(t) /\ i \in 1 .. Len(s)
        BY <1>1, <2>2
      <3>. QED
        BY <1>1, <1>3, <2>2, <3>1
    <2>3. CASE i > Len(s)
      <3>1. /\ i - Len(s) \in 1 .. Len(t) /\ j - Len(s) \in 1 .. Len(t)
            /\ i - Len(s) # j - Len(s)
        BY <1>1, <1>4, <2>3
      <3>. QED
        <4>1. ~ (i <= Len(s)) /\ ~ (j <= Len(s))
          BY <1>1, <1>4, <2>3
        <4>2. (s \o t)[i] = t[i - Len(s)] /\ (s \o t)[j] = t[j - Len(s)]
          BY <1>1, <4>1
        <4>3. t[i - Len(s)] # t[j - Len(s)]
          BY <3>1 DEF Distinct
        <4>. QED
          BY <4>2, <4>3
    <2>. QED
      BY <1>1, <2>1, <2>2, <2>3
  <1>5. ASSUME NEW i \in 1 .. Len(s \o t), NEW j \in 1 .. Len(s \o t), i # j
        PROVE  (s \o t)[i] # (s \o t)[j]
    <2>1. i < j \/ j < i
      BY <1>1, <1>5
    <2>. QED
      BY <1>4, <2>1
  <1>. QED
    BY <1>5 DEF Distinct

LEMMA ConcatSet ==
    ASSUME NEW s \in Seq(Nat), NEW t \in Seq(Nat)
    PROVE  ToSet(s \o t) = ToSet(s) \cup ToSet(t)
  <1>1. /\ DOMAIN (s \o t) = 1 .. (Len(s) + Len(t)) /\ Len(s) \in Nat /\ Len(t) \in Nat
        /\ DOMAIN s = 1 .. Len(s) /\ DOMAIN t = 1 .. Len(t)
        /\ \A i \in 1 .. Len(s) : (s \o t)[i] = s[i]
        /\ \A i \in 1 .. Len(t) : (s \o t)[Len(s) + i] = t[i]
        /\ \A i \in 1 .. (Len(s) + Len(t)) : i > Len(s) => (s \o t)[i] = t[i - Len(s)]
    OBVIOUS
  <1>2. ASSUME NEW x \in ToSet(s \o t) PROVE x \in ToSet(s) \cup ToSet(t)
    <2>1. PICK i \in 1 .. (Len(s) + Len(t)) : x = (s \o t)[i]
      BY <1>1 DEF ToSet
    <2>2. CASE i <= Len(s)
      <3>1. i \in 1 .. Len(s)
        BY <1>1, <2>2
      <3>. QED
        BY <1>1, <2>1, <3>1 DEF ToSet
    <2>3. CASE i > Len(s)
      <3>1. i - Len(s) \in 1 .. Len(t)
        BY <1>1, <2>3
      <3>. QED
        BY <1>1, <2>1, <2>3, <3>1 DEF ToSet
    <2>. QED
      BY <1>1, <2>2, <2>3
  <1>3. ASSUME NEW x \in ToSet(s) PROVE x \in ToSet(s \o t)
    <2>1. PICK i \in 1 .. Len(s) : x = s[i]
      BY <1>1, <1>3 DEF ToSet
    <2>2. i \in 1 .. (Len(s) + Len(t))
      BY <1>1
    <2>. QED
      BY <1>1, <2>1, <2>2 DEF ToSet
  <1>4. ASSUME NEW x \in ToSet(t) PROVE x \in ToSet(s \o t)
    <2>1. PICK i \in 1 .. Len(t) : x = t[i]
      BY <1>1, <1>4 DEF ToSet
    <2>2. Len(s) + i \in 1 .. (Len(s) + Len(t))
      BY <1>1
    <2>. QED
      BY <1>1, <2>1, <2>2 DEF ToSet
  <1>. QED
    BY <1>2, <1>3, <1>4

\* What is left of a list at its end.
LEMMA LastOfFacts ==
    ASSUME NEW s \in Seq(Nat), NEW n \in Nat
    PROVE  /\ LastOf(s, n) \in Seq(Nat)
           /\ Len(LastOf(s, n)) <= n
           /\ Len(s) <= n => LastOf(s, n) = s
           /\ Distinct(s) => Distinct(LastOf(s, n))
           /\ ToSet(LastOf(s, n)) \subseteq ToSet(s)
  <1>1. CASE Len(s) <= n
    BY <1>1 DEF LastOf
  <1>2. CASE Len(s) > n
    <2>. DEFINE a == Len(s) - n + 1
                t == SubSeq(s, a, Len(s))
    <2>1. Len(s) \in Nat /\ a \in 1 .. Len(s) + 1
      BY <1>2
    <2>2. LastOf(s, n) = t /\ ~ (Len(s) <= n)
      BY <1>2, <2>1 DEF LastOf
    <2>3. /\ t \in Seq(Nat) /\ Len(t) = n
          /\ \A i \in 1 .. n : t[i] = s[a + i - 1] /\ a + i - 1 \in 1 .. Len(s)
      BY <1>2, <2>1
    <2>4. \A i \in 1 .. n, j \in 1 .. n : i # j => a + i - 1 # a + j - 1
      BY <2>1
    <2>. HIDE DEF a, t
    <2>5. Distinct(s) => Distinct(t)
      BY <2>3, <2>4 DEF Distinct
    <2>6. DOMAIN s = 1 .. Len(s) /\ DOMAIN t = 1 .. n
      BY <2>3
    <2>7. ToSet(t) \subseteq ToSet(s)
      BY <2>3, <2>6 DEF ToSet
    <2>. QED
      BY <2>2, <2>3, <2>5, <2>7
  <1>3. Len(s) \in Nat
    OBVIOUS
  <1>. QED
    BY <1>1, <1>2, <1>3

\* A list of numbers up to w, none of them twice, is no longer than w.
LEMMA DistinctLength ==
    ASSUME NEW s \in Seq(Nat), NEW w \in Nat, Distinct(s), ToSet(s) \subseteq 1 .. w
    PROVE  Len(s) <= w
  <1>1. Len(s) \in Nat /\ DOMAIN s = 1 .. Len(s)
    OBVIOUS
  <1>2. s \in [1 .. Len(s) -> 1 .. w]
    BY <1>1 DEF ToSet
  <1>3. s \in Injection(1 .. Len(s), 1 .. w)
    BY <1>2 DEF Injection, IsInjective, Distinct
  <1>4. ExistsInjection(1 .. Len(s), 1 .. w)
    BY <1>3 DEF ExistsInjection
  <1>. QED
    BY <1>1, <1>4, Fun_NatInjLeq

-----------------------------------------------------------------------------
(***************************************************************************)
(* What persist_state writes.                                              *)
(***************************************************************************)

\* What the list keeps of itself: the identifiers of the set, each of them once.
LEMMA PreviousFacts ==
    ASSUME NEW ids \in Seq(Nat), NEW sn \in SUBSET Nat, Distinct(ids)
    PROVE  /\ Previous(ids, sn) \in Seq(Nat)
           /\ Distinct(Previous(ids, sn))
           /\ ToSet(Previous(ids, sn)) = ToSet(ids) \cap sn
  <1>. DEFINE D == {i \in 1 .. Len(ids) : ids[i] \in sn}
              at == Ascending(D)
              p == Previous(ids, sn)
  <1>1. Len(ids) \in Nat /\ DOMAIN ids = 1 .. Len(ids)
    OBVIOUS
  <1>2. D \in SUBSET Nat /\ IsFiniteSet(D)
    <2>1. IsFiniteSet(1 .. Len(ids))
      BY <1>1, FS_Interval
    <2>2. D \subseteq 1 .. Len(ids)
      OBVIOUS
    <2>3. IsFiniteSet(D)
      BY <2>1, <2>2, FS_Subset
    <2>. QED
      BY <1>1, <2>3
  <1>3. /\ at \in Seq(D) /\ ToSet(at) = D /\ Distinct(at)
    BY <1>2, AscendingFacts, AscendingDistinct
  <1>4. p = [k \in 1 .. Len(at) |-> ids[at[k]]]
    BY DEF Previous
  <1>5. \A i \in D : i \in 1 .. Len(ids) /\ ids[i] \in sn /\ ids[i] \in Nat
    BY <1>1
  <1>6. \A i \in 1 .. Len(ids) : ids[i] \in sn => i \in D
    OBVIOUS
  <1>. HIDE DEF D, at, p
  <1>7. Len(at) \in Nat /\ DOMAIN at = 1 .. Len(at) /\ \A k \in 1 .. Len(at) : at[k] \in D
    BY <1>3
  <1>8. p \in Seq(Nat) /\ Len(p) = Len(at) /\ DOMAIN p = 1 .. Len(at)
    <2>1. p \in [1 .. Len(at) -> Nat]
      BY <1>4, <1>5, <1>7
    <2>. QED
      BY <1>7, <2>1
  <1>9. Distinct(p)
    <2>1. ASSUME NEW i \in 1 .. Len(at), NEW j \in 1 .. Len(at), i # j PROVE p[i] # p[j]
      <3>1. at[i] # at[j]
        BY <1>3, <2>1 DEF Distinct
      <3>2. at[i] \in 1 .. Len(ids) /\ at[j] \in 1 .. Len(ids)
        BY <1>5, <1>7
      <3>3. ids[at[i]] # ids[at[j]]
        BY <3>1, <3>2 DEF Distinct
      <3>. QED
        BY <1>4, <3>3
    <2>. QED
      BY <1>8, <2>1 DEF Distinct
  <1>10. ASSUME NEW x \in ToSet(p) PROVE x \in ToSet(ids) /\ x \in sn
    <2>1. PICK k \in 1 .. Len(at) : x = p[k]
      BY <1>8, <1>10 DEF ToSet
    <2>2. x = ids[at[k]] /\ at[k] \in 1 .. Len(ids) /\ ids[at[k]] \in sn
      BY <1>4, <1>5, <1>7, <2>1
    <2>. QED
      BY <1>1, <2>2 DEF ToSet
  <1>11. ASSUME NEW x \in ToSet(ids), x \in sn PROVE x \in ToSet(p)
    <2>1. PICK i \in 1 .. Len(ids) : x = ids[i]
      BY <1>1, <1>11 DEF ToSet
    <2>2. i \in D
      BY <1>6, <1>11, <2>1
    <2>3. PICK k \in 1 .. Len(at) : i = at[k]
      BY <1>3, <1>7, <2>2 DEF ToSet
    <2>4. p[k] = x
      BY <1>4, <2>1, <2>3
    <2>. QED
      BY <1>8, <2>4 DEF ToSet
  <1>. QED
    BY <1>8, <1>9, <1>10, <1>11 DEF p

\* Before it is cut, the list has the identifiers of the set, each of them once.
LEMMA UncutFacts ==
    ASSUME NEW ids \in Seq(Nat), NEW sn \in SUBSET Nat, IsFiniteSet(sn), Distinct(ids)
    PROVE  /\ Uncut(ids, sn) \in Seq(Nat)
           /\ Distinct(Uncut(ids, sn))
           /\ ToSet(Uncut(ids, sn)) = sn
  <1>. DEFINE p == Previous(ids, sn)
              R == sn \ ToSet(p)
              a == Ascending(R)
  <1>1. /\ p \in Seq(Nat) /\ Distinct(p) /\ ToSet(p) = ToSet(ids) \cap sn
    BY PreviousFacts
  <1>2. Uncut(ids, sn) = p \o a
    BY DEF Uncut
  <1>3. R \in SUBSET Nat /\ IsFiniteSet(R)
    BY FS_Subset
  <1>. HIDE DEF p
  <1>4. /\ a \in Seq(R) /\ ToSet(a) = R /\ Distinct(a)
    BY <1>3, AscendingFacts, AscendingDistinct
  <1>. HIDE DEF a
  <1>5. a \in Seq(Nat)
    BY <1>3, <1>4
  <1>6. ToSet(p) \cap ToSet(a) = {} /\ ToSet(p) \cup ToSet(a) = sn
    BY <1>1, <1>4
  <1>. HIDE DEF R
  <1>7. Distinct(p \o a)
    BY <1>1, <1>4, <1>5, <1>6, DistinctConcat
  <1>8. ToSet(p \o a) = sn
    BY <1>1, <1>5, <1>6, ConcatSet
  <1>9. p \o a \in Seq(Nat)
    BY <1>1, <1>5
  <1>. QED
    BY <1>2, <1>7, <1>8, <1>9

\* The list that is written: no identifier twice, everything required, nothing that
\* is neither seen nor required, at most a window and what is required; and
\* everything seen, as long as the window has room for it.
LEMMA SavedIdsFacts ==
    ASSUME NEW ids \in Seq(Nat), NEW sn \in SUBSET Nat, NEW req \in SUBSET Nat,
           IsFiniteSet(sn), IsFiniteSet(req), Distinct(ids)
    PROVE  /\ SavedIds(ids, sn, req) \in Seq(Nat)
           /\ Distinct(SavedIds(ids, sn, req))
           /\ Len(SavedIds(ids, sn, req)) <= Window + Cardinality(req)
           /\ req \subseteq ToSet(SavedIds(ids, sn, req))
           /\ ToSet(SavedIds(ids, sn, req)) \subseteq sn \cup req
           /\ sn \subseteq 1 .. Window => sn \subseteq ToSet(SavedIds(ids, sn, req))
  <1>. DEFINE u == Uncut(ids, sn)
              o == Ordered(ids, sn)
              R == req \ ToSet(o)
              a == Ascending(R)
              s == SavedIds(ids, sn, req)
  <1>0. Window \in Nat
    BY WindowAssumption
  <1>1. u \in Seq(Nat) /\ Distinct(u) /\ ToSet(u) = sn
    BY UncutFacts
  <1>2. o = LastOf(u, Window)
    BY DEF Ordered
  <1>3. s = o \o a
    BY DEF SavedIds
  <1>4. R \in SUBSET Nat /\ IsFiniteSet(R) /\ Cardinality(R) <= Cardinality(req)
    BY FS_Subset
  <1>. HIDE DEF u, o
  <1>5. /\ o \in Seq(Nat) /\ Len(o) <= Window /\ Distinct(o) /\ ToSet(o) \subseteq sn
        /\ Len(u) <= Window => o = u
    BY <1>0, <1>1, <1>2, LastOfFacts
  <1>6. /\ a \in Seq(R) /\ ToSet(a) = R /\ Distinct(a) /\ Len(a) = Cardinality(R)
    BY <1>4, AscendingFacts, AscendingDistinct
  <1>. HIDE DEF a, s
  <1>7. a \in Seq(Nat)
    BY <1>4, <1>6
  <1>8. ToSet(o) \cap ToSet(a) = {}
    BY <1>6
  <1>9. s \in Seq(Nat) /\ Distinct(s) /\ ToSet(s) = ToSet(o) \cup R
    BY <1>3, <1>5, <1>6, <1>7, <1>8, DistinctConcat, ConcatSet
  <1>10. Len(s) <= Window + Cardinality(req)
    <2>1. Len(s) = Len(o) + Len(a)
      BY <1>3, <1>5, <1>7
    <2>2. Len(o) \in Nat /\ Len(a) \in Nat /\ Cardinality(req) \in Nat
      BY <1>5, <1>7, FS_CardinalityType
    <2>3. Len(a) <= Cardinality(req)
      BY <1>4, <1>6
    <2>. HIDE DEF R
    <2>. QED
      BY <1>0, <1>5, <2>1, <2>2, <2>3
  <1>11. ASSUME sn \subseteq 1 .. Window PROVE sn \subseteq ToSet(s)
    <2>1. Len(u) <= Window
      BY <1>0, <1>1, <1>11, DistinctLength
    <2>. QED
      BY <1>1, <1>5, <1>9, <2>1
  <1>. QED
    BY <1>5, <1>9, <1>10, <1>11 DEF s

-----------------------------------------------------------------------------
(***************************************************************************)
(* The inductive invariant: what the file lists is loadable and has what   *)
(* is required, nothing is known of a message that has not arrived, and    *)
(* while the window has room for every message, a handled message is seen  *)
(* and a saved one is in the file.                                         *)
(***************************************************************************)
Roomy ==
    newest <= Window =>
      /\ \A m \in Ids : handled[m] <= 1 /\ (handled[m] > 0 => m \in seen)
      /\ saved => seen \subseteq ToSet(seenIds)

WInv ==
    /\ ListIsLoadable
    /\ RequiredKept
    /\ seen \cup required \cup ToSet(seenIds) \subseteq 1 .. newest
    /\ Cardinality(required) <= MaxRequired
    /\ Roomy

\* What the invariant says of the sets.
LEMMA SetFacts ==
    ASSUME WInv
    PROVE  /\ IsFiniteSet(seen) /\ IsFiniteSet(required)
           /\ seen \in SUBSET Nat /\ required \in SUBSET Nat
           /\ seenIds \in Seq(Nat) /\ Distinct(seenIds)
           /\ newest \in Nat /\ MaxId \in Nat /\ Window \in Nat
  <1>1. MaxId \in Nat /\ Window \in Nat
    BY WindowAssumption
  <1>2. IsFiniteSet(Ids)
    BY <1>1, FS_Interval DEF Ids
  <1>3. seen \subseteq Ids /\ required \subseteq Ids
    BY DEF WInv, ListIsLoadable
  <1>4. IsFiniteSet(seen) /\ IsFiniteSet(required)
    BY <1>2, <1>3, FS_Subset
  <1>5. Ids \subseteq Nat
    BY <1>1 DEF Ids
  <1>6. seenIds \in Seq(Nat)
    <2>1. seenIds \in Seq(Ids)
      BY DEF WInv, ListIsLoadable
    <2>2. \A S, T : S \subseteq T => Seq(S) \subseteq Seq(T)
      OBVIOUS
    <2>. QED
      BY <1>5, <2>1, <2>2, Zenon
  <1>7. Distinct(seenIds) /\ newest \in Nat
    BY <1>1 DEF WInv, ListIsLoadable, Distinct
  <1>. QED
    BY <1>1, <1>3, <1>4, <1>5, <1>6, <1>7

LEMMA InitWindow == Init => WInv
  <1>. SUFFICES ASSUME Init PROVE WInv
    OBVIOUS
  <1>1. MaxId \in Nat /\ MaxRequired \in Nat /\ MaxSeenIds \in Nat
    BY WindowAssumption
  <1>2. Cardinality(required) <= MaxRequired
    BY <1>1, FS_EmptySet DEF Init
  <1>3. ToSet(seenIds) = {} /\ Len(seenIds) = 0
    BY DEF Init, ToSet
  <1>4. ListIsLoadable
    BY <1>1 DEF Init, ListIsLoadable
  <1>5. Roomy
    BY <1>3 DEF Init, Roomy
  <1>6. RequiredKept /\ seen \cup required \cup ToSet(seenIds) \subseteq 1 .. newest
    BY <1>3 DEF Init, RequiredKept
  <1>. QED
    BY <1>2, <1>4, <1>5, <1>6 DEF WInv

LEMMA ArriveKeepsWindow == WInv /\ Arrive => WInv'
  <1>. SUFFICES ASSUME WInv, Arrive PROVE WInv'
    OBVIOUS
  <1>1. newest \in Nat /\ MaxId \in Nat /\ Window \in Nat
    BY SetFacts
  <1>2. newest' \in 0 .. MaxId /\ newest' = newest + 1
    BY <1>1 DEF Arrive
  <1>3. UNCHANGED <<seen, required, seenIds, saved, handled>>
    BY DEF Arrive
  <1>4. ListIsLoadable'
    BY <1>2, <1>3 DEF WInv, ListIsLoadable
  <1>5. RequiredKept' /\ (Cardinality(required) <= MaxRequired)'
    BY <1>3 DEF WInv, RequiredKept
  <1>6. (seen \cup required \cup ToSet(seenIds) \subseteq 1 .. newest)'
    <2>1. 1 .. newest \subseteq 1 .. newest'
      BY <1>1, <1>2
    <2>2. seen \cup required \cup ToSet(seenIds) \subseteq 1 .. newest
      BY DEF WInv
    <2>. QED
      BY <1>3, <2>1, <2>2
  <1>7. Roomy'
    <2>1. newest' <= Window => newest <= Window
      BY <1>1, <1>2
    <2>. QED
      BY <1>3, <2>1 DEF WInv, Roomy
  <1>. QED
    BY <1>4, <1>5, <1>6, <1>7 DEF WInv

LEMMA HandleKeepsWindow == ASSUME NEW m \in Ids PROVE WInv /\ Handle(m) => WInv'
  <1>. SUFFICES ASSUME WInv, Handle(m) PROVE WInv'
    OBVIOUS
  <1>1. newest \in Nat /\ MaxId \in Nat /\ Window \in Nat
    BY SetFacts
  <1>2. /\ m \in Page /\ m \notin seen /\ seen' = seen \cup {m}
        /\ handled' = [handled EXCEPT ![m] = IF @ < 2 THEN @ + 1 ELSE @]
        /\ required' = required \/ (required' = required \cup {m} /\ Cardinality(required') <= MaxRequired)
        /\ saved' = FALSE /\ newest' = newest /\ seenIds' = seenIds
    BY DEF Handle
  <1>3. m \in 1 .. newest /\ m \in Ids
    BY <1>1, <1>2 DEF Page, Ids
  <1>4. handled \in [Ids -> 0 .. 2] /\ handled' \in [Ids -> 0 .. 2]
    <2>1. handled \in [Ids -> 0 .. 2]
      BY DEF WInv, ListIsLoadable
    <2>. QED
      BY <1>2, <2>1
  <1>5. ListIsLoadable'
    BY <1>2, <1>3, <1>4 DEF WInv, ListIsLoadable
  <1>6. RequiredKept'
    BY <1>2 DEF RequiredKept
  <1>7. (seen \cup required \cup ToSet(seenIds) \subseteq 1 .. newest)'
    BY <1>2, <1>3 DEF WInv
  <1>8. (Cardinality(required) <= MaxRequired)'
    BY <1>2 DEF WInv
  <1>9. Roomy'
    <2>. SUFFICES ASSUME newest <= Window
                  PROVE  \A k \in Ids : handled'[k] <= 1 /\ (handled'[k] > 0 => k \in seen')
      BY <1>2 DEF Roomy
    <2>1. \A k \in Ids : handled[k] <= 1 /\ (handled[k] > 0 => k \in seen)
      BY DEF WInv, Roomy
    <2>2. handled[m] = 0
      BY <1>2, <1>4, <2>1
    <2>3. handled'[m] = 1 /\ \A k \in Ids \ {m} : handled'[k] = handled[k]
      BY <1>2, <1>4, <2>2
    <2>. QED
      BY <1>2, <2>1, <2>3
  <1>. QED
    BY <1>5, <1>6, <1>7, <1>8, <1>9 DEF WInv

LEMMA ReleaseKeepsWindow == ASSUME NEW m \in Ids PROVE WInv /\ Release(m) => WInv'
  <1>. SUFFICES ASSUME WInv, Release(m) PROVE WInv'
    OBVIOUS
  <1>1. /\ required' = required \ {m} /\ saved' = FALSE
        /\ UNCHANGED <<newest, seen, seenIds, handled>>
    BY DEF Release
  <1>2. Cardinality(required') <= MaxRequired
    <2>1. IsFiniteSet(required) /\ required' \subseteq required
      BY <1>1, SetFacts
    <2>2. /\ Cardinality(required') <= Cardinality(required)
          /\ Cardinality(required') \in Nat /\ Cardinality(required) \in Nat
      BY <2>1, FS_Subset, FS_CardinalityType
    <2>3. Cardinality(required) <= MaxRequired /\ MaxRequired \in Nat
      BY WindowAssumption DEF WInv
    <2>. QED
      BY <2>2, <2>3
  <1>3. ListIsLoadable'
    BY <1>1 DEF WInv, ListIsLoadable
  <1>. QED
    BY <1>1, <1>2, <1>3 DEF WInv, RequiredKept, Roomy

LEMMA PersistKeepsWindow == WInv /\ Persist => WInv'
  <1>. SUFFICES ASSUME WInv, Persist PROVE WInv'
    OBVIOUS
  <1>1. /\ seen' = seen \cup required /\ seenIds' = SavedIds(seenIds, seen', required)
        /\ saved' = TRUE /\ UNCHANGED <<newest, required, handled>>
    BY DEF Persist
  <1>2. /\ IsFiniteSet(seen) /\ IsFiniteSet(required)
        /\ seen \in SUBSET Nat /\ required \in SUBSET Nat
        /\ seenIds \in Seq(Nat) /\ Distinct(seenIds)
        /\ newest \in Nat /\ MaxId \in Nat /\ Window \in Nat
    BY SetFacts
  <1>3. IsFiniteSet(seen') /\ seen' \in SUBSET Nat
    BY <1>1, <1>2, FS_Union
  <1>4. /\ seenIds' \in Seq(Nat) /\ Distinct(seenIds')
        /\ Len(seenIds') <= Window + Cardinality(required)
        /\ required \subseteq ToSet(seenIds') /\ ToSet(seenIds') \subseteq seen' \cup required
        /\ seen' \subseteq 1 .. Window => seen' \subseteq ToSet(seenIds')
    BY <1>1, <1>2, <1>3, SavedIdsFacts
  <1>5. seen' \cup required' \cup ToSet(seenIds') \subseteq 1 .. newest'
    BY <1>1, <1>4 DEF WInv
  <1>6. seenIds' \in Seq(Ids)
    <2>1. ToSet(seenIds') \subseteq Ids
      BY <1>1, <1>4 DEF WInv, ListIsLoadable
    <2>. QED
      BY <1>4, <2>1 DEF ToSet
  <1>7. Len(seenIds') <= MaxSeenIds
    <2>1. /\ Cardinality(required) \in Nat /\ Cardinality(required) <= MaxRequired
          /\ MaxRequired \in Nat /\ MaxSeenIds \in Nat /\ Window + MaxRequired <= MaxSeenIds
      BY <1>2, FS_CardinalityType, WindowAssumption DEF WInv
    <2>2. Len(seenIds') \in Nat
      BY <1>4
    <2>. QED
      BY <1>2, <1>4, <2>1, <2>2
  <1>8. ListIsLoadable'
    BY <1>1, <1>4, <1>6, <1>7 DEF WInv, ListIsLoadable, Distinct
  <1>9. Roomy'
    <2>. SUFFICES ASSUME newest <= Window
                  PROVE  /\ \A k \in Ids : handled[k] <= 1 /\ (handled[k] > 0 => k \in seen')
                         /\ seen' \subseteq ToSet(seenIds')
      BY <1>1 DEF Roomy
    <2>1. 1 .. newest \subseteq 1 .. Window
      BY <1>2
    <2>2. seen' \subseteq 1 .. Window
      BY <1>1, <1>5, <2>1
    <2>. QED
      BY <1>1, <1>4, <2>2 DEF WInv, Roomy
  <1>. QED
    BY <1>1, <1>4, <1>5, <1>8, <1>9 DEF WInv, RequiredKept

LEMMA RestartKeepsWindow == WInv /\ Restart => WInv'
  <1>. SUFFICES ASSUME WInv, Restart PROVE WInv'
    OBVIOUS
  <1>1. saved /\ seen' = ToSet(seenIds) /\ UNCHANGED <<newest, required, seenIds, saved, handled>>
    BY DEF Restart
  <1>2. ToSet(seenIds) \subseteq Ids
    BY DEF WInv, ListIsLoadable, ToSet
  <1>3. ListIsLoadable'
    BY <1>1, <1>2 DEF WInv, ListIsLoadable
  <1>4. Roomy'
    BY <1>1 DEF WInv, Roomy
  <1>. QED
    BY <1>1, <1>3, <1>4 DEF WInv, RequiredKept

LEMMA StepWindow == WInv /\ [Next]_vars => WInv'
  <1>. SUFFICES ASSUME WInv, [Next]_vars PROVE WInv'
    OBVIOUS
  <1>1. CASE UNCHANGED vars
    BY <1>1 DEF vars, WInv, ListIsLoadable, RequiredKept, Roomy
  <1>2. CASE Arrive
    BY <1>2, ArriveKeepsWindow
  <1>3. ASSUME NEW m \in Ids, Handle(m) PROVE WInv'
    BY <1>3, HandleKeepsWindow
  <1>4. ASSUME NEW m \in Ids, Release(m) PROVE WInv'
    BY <1>4, ReleaseKeepsWindow
  <1>5. CASE Persist
    BY <1>5, PersistKeepsWindow
  <1>6. CASE Restart
    BY <1>6, RestartKeepsWindow
  <1>. QED
    BY <1>1, <1>2, <1>3, <1>4, <1>5, <1>6 DEF Next

LEMMA WindowInvariant == Spec => []WInv
  BY InitWindow, StepWindow, PTL DEF Spec

\* Whatever was seen and whatever was required, the list that persist_state leaves
\* in the state file is one that require_state_object accepts at the next start.
THEOREM FileStaysLoadable == Spec => []ListIsLoadable
  <1>1. WInv => ListIsLoadable
    BY DEF WInv
  <1>. QED
    BY <1>1, WindowInvariant, PTL

\* No save cuts the origin of a dead letter or of a reconciliation job off the list.
THEOREM RequiredStays == Spec => []RequiredKept
  <1>1. WInv => RequiredKept
    BY DEF WInv
  <1>. QED
    BY <1>1, WindowInvariant, PTL

\* While the window has room for every message of the feed, a restart after a save
\* handles none of them a second time.
THEOREM HandledAtMostOnce == Spec => []HandledOnce
  <1>1. WInv => HandledOnce
    BY DEF WInv, Roomy, HandledOnce
  <1>. QED
    BY <1>1, WindowInvariant, PTL
=============================================================================
