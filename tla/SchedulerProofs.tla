--------------------------- MODULE SchedulerProofs ---------------------------
(***************************************************************************)
(* What the operations on a queue of handles do, for any set H of handles: *)
(* the lemmas about the run queue and the queues of waiters on which the   *)
(* proofs of the components rest.                                          *)
(***************************************************************************)
EXTENDS Scheduler, SequenceTheorems, WellFoundedInduction, TLAPS

\* A queue of handles of a set, with entries nulled.
HandleQueue(H) == Seq(H \cup {Null})

\* What is queued is of the queue's kind.
LEMMA QueuedType ==
    ASSUME NEW H, NEW q \in HandleQueue(H)
    PROVE  Queued(q) \subseteq H
BY DEF Queued, HandleQueue

----------------------------------------------------------------------------
(* Which handle is the next                                                *)

\* A nonempty set of natural numbers has a least member.
LEMMA LeastNumber ==
    ASSUME NEW S \in SUBSET Nat, S # {}
    PROVE  \E n \in S : \A m \in S : n <= m
<1> DEFINE Less == {p \in Nat \X Nat : p[1] < p[2]}
<1>1. IsWellFoundedOn(Less, Nat)
  BY NatLessThanWellFounded DEF OpToRel
<1> HIDE DEF Less
<1>2. PICK n \in S : \A m \in S : ~(<<m, n>> \in Less)
  BY <1>1, WFMin
<1>3. \A m \in S : ~(m < n)
  BY <1>2 DEF Less
<1> QED BY <1>3

\* getNextInner finds nothing exactly if nothing is queued.
LEMMA NoNextQueued ==
    ASSUME NEW q
    PROVE  NoNext(q, {}) <=> Queued(q) = {}
BY DEF NoNext, Queued

\* Otherwise it finds exactly one position.
LEMMA NextExists ==
    ASSUME NEW H, NEW q \in HandleQueue(H), Queued(q) # {}
    PROVE  /\ \E i \in 1 .. Len(q) : IsNext(q, i, {})
           /\ \A i, j \in 1 .. Len(q) : IsNext(q, i, {}) /\ IsNext(q, j, {}) => i = j
<1>1. Len(q) \in Nat
  BY DEF HandleQueue
<1> DEFINE P == {i \in 1 .. Len(q) : q[i] # Null}
<1>2. P \in SUBSET Nat /\ P # {}
  BY <1>1 DEF Queued
<1>3. PICK i \in P : \A j \in P : i <= j
  BY <1>2, LeastNumber
<1>4. IsNext(q, i, {})
  BY <1>1, <1>3 DEF IsNext
<1>5. ASSUME NEW k \in 1 .. Len(q), NEW j \in 1 .. Len(q), IsNext(q, k, {}), IsNext(q, j, {})
      PROVE  k = j
  BY <1>1, <1>5 DEF IsNext
<1> QED BY <1>4, <1>5

\* Popping the next entry removes its handle and keeps the others.
LEMMA AfterHolds ==
    ASSUME NEW H, NEW q \in HandleQueue(H), NEW i \in 1 .. Len(q), IsNext(q, i, {})
    PROVE  /\ After(q, i) \in HandleQueue(H) /\ Len(After(q, i)) < Len(q)
           /\ q[i] \in Queued(q) /\ q[i] \in H
           /\ Queued(q) = Queued(After(q, i)) \cup {q[i]}
           /\ NoDuplicates(q) => NoDuplicates(After(q, i)) /\ q[i] \notin Queued(After(q, i))
<1> DEFINE e == After(q, i)
<1>1. /\ e \in HandleQueue(H)
      /\ Len(e) = Len(q) - i
      /\ Len(q) \in Nat
      /\ \A j \in 1 .. Len(q) - i : e[j] = q[i + j]
  BY DEF After, HandleQueue
<1>2. q[i] # Null /\ \A j \in 1 .. i - 1 : q[j] = Null
  BY DEF IsNext
<1>3. q[i] \in Queued(q) /\ q[i] \in H
  BY <1>2 DEF Queued, HandleQueue
<1> HIDE DEF e
<1>4. Queued(e) \subseteq Queued(q)
  BY <1>1 DEF Queued
<1>5. ASSUME NEW k \in 1 .. Len(q), q[k] # Null, q[k] # q[i]
      PROVE  q[k] \in Queued(e)
  <2>1. k > i
    BY <1>2, <1>5
  <2>2. k - i \in 1 .. Len(e) /\ e[k - i] = q[k]
    BY <1>1, <2>1
  <2> QED BY <1>5, <2>2 DEF Queued
<1>6. Queued(q) = Queued(e) \cup {q[i]}
  BY <1>3, <1>4, <1>5 DEF Queued
<1>7. ASSUME NoDuplicates(q) PROVE NoDuplicates(e) /\ q[i] \notin Queued(e)
  BY <1>1, <1>2, <1>7 DEF NoDuplicates, Queued
<1> QED BY <1>1, <1>3, <1>6, <1>7 DEF e

\* Oldest() and WithoutOldest(): either nothing is queued, or the oldest handle is
\* taken and the others stay.
LEMMA OldestTaken ==
    ASSUME NEW H, NEW q \in HandleQueue(H), Queued(q) # {}
    PROVE  \E h \in H :
             /\ Oldest(q) = <<h>>
             /\ h \in Queued(q)
             /\ WithoutOldest(q) \in HandleQueue(H) /\ Len(WithoutOldest(q)) < Len(q)
             /\ Queued(q) = Queued(WithoutOldest(q)) \cup {h}
             /\ NoDuplicates(q) => NoDuplicates(WithoutOldest(q)) /\ h \notin Queued(WithoutOldest(q))
<1> DEFINE i == CHOOSE k \in 1 .. Len(q) : IsNext(q, k, {})
<1>1. i \in 1 .. Len(q) /\ IsNext(q, i, {})
  BY NextExists
<1>2. ~NoNext(q, {})
  BY NoNextQueued
<1>3. Oldest(q) = <<q[i]>> /\ WithoutOldest(q) = After(q, i)
  BY <1>2 DEF Oldest, WithoutOldest
<1> HIDE DEF i
<1> QED BY <1>1, <1>3, AfterHolds

LEMMA OldestNone ==
    ASSUME NEW q, Queued(q) = {}
    PROVE  Oldest(q) = <<>> /\ WithoutOldest(q) = <<>>
BY NoNextQueued DEF Oldest, WithoutOldest

\* The coroutine that the scheduler resumes was in the run queue; if it was there
\* once it is gone from it.
LEMMA ResumedHolds ==
    ASSUME NEW H, NEW q \in HandleQueue(H), NEW h, Oldest(q) = <<h>>
    PROVE  /\ h \in H /\ h \in Queued(q)
           /\ WithoutOldest(q) \in HandleQueue(H)
           /\ Queued(q) = Queued(WithoutOldest(q)) \cup {h}
           /\ NoDuplicates(q) => NoDuplicates(WithoutOldest(q)) /\ h \notin Queued(WithoutOldest(q))
<1>1. CASE Queued(q) = {}
  BY <1>1, OldestNone
<1>2. CASE Queued(q) # {}
  <2>1. PICK g \in H :
             /\ Oldest(q) = <<g>>
             /\ g \in Queued(q)
             /\ WithoutOldest(q) \in HandleQueue(H)
             /\ Queued(q) = Queued(WithoutOldest(q)) \cup {g}
             /\ NoDuplicates(q) => NoDuplicates(WithoutOldest(q)) /\ g \notin Queued(WithoutOldest(q))
    BY <1>2, OldestTaken
  <2>2. g = h
    BY <2>1
  <2> QED BY <2>1, <2>2
<1> QED BY <1>1, <1>2

----------------------------------------------------------------------------
(* Enqueuing and cancelling                                                *)

LEMMA EmptyHolds ==
    ASSUME NEW H
    PROVE  /\ <<>> \in HandleQueue(H)
           /\ Queued(<<>>) = {}
           /\ NoDuplicates(<<>>)
BY DEF HandleQueue, Queued, NoDuplicates

\* enqueue adds a handle.
LEMMA EnqueueHolds ==
    ASSUME NEW H, Null \notin H, NEW q \in HandleQueue(H), NEW h \in H
    PROVE  /\ Enqueue(q, h) \in HandleQueue(H)
           /\ Queued(Enqueue(q, h)) = Queued(q) \cup {h}
           /\ NoDuplicates(q) /\ h \notin Queued(q) => NoDuplicates(Enqueue(q, h))
<1> DEFINE e == Enqueue(q, h)
<1>1. /\ e \in HandleQueue(H)
      /\ Len(e) = Len(q) + 1
      /\ Len(q) \in Nat
      /\ \A i \in 1 .. Len(q) : e[i] = q[i]
      /\ e[Len(q) + 1] = h
  BY DEF Enqueue, HandleQueue
<1>2. h # Null
  OBVIOUS
<1> HIDE DEF e
<1>3. Queued(e) = Queued(q) \cup {h}
  BY <1>1, <1>2 DEF Queued
<1>4. ASSUME NoDuplicates(q), h \notin Queued(q),
             NEW i \in 1 .. Len(e), NEW j \in 1 .. Len(e), i # j, e[i] = e[j]
      PROVE  e[i] = Null
  <2>1. \A k \in 1 .. Len(q) : q[k] # h
    BY <1>2, <1>4 DEF Queued
  <2>2. CASE i \in 1 .. Len(q) /\ j \in 1 .. Len(q)
    BY <1>1, <1>4, <2>2 DEF NoDuplicates
  <2>3. CASE i = Len(q) + 1 \/ j = Len(q) + 1
    BY <1>1, <1>4, <2>1, <2>3
  <2> QED BY <1>1, <1>4, <2>2, <2>3
<1>5. NoDuplicates(q) /\ h \notin Queued(q) => NoDuplicates(e)
  BY <1>4 DEF NoDuplicates
<1> QED BY <1>1, <1>3, <1>5 DEF e

\* cancel removes its handles, however often they are queued.
LEMMA CancelHolds ==
    ASSUME NEW H, NEW q \in HandleQueue(H), NEW C
    PROVE  /\ CancelAll(q, C) \in HandleQueue(H)
           /\ Len(CancelAll(q, C)) = Len(q)
           /\ Queued(CancelAll(q, C)) = Queued(q) \ C
           /\ NoDuplicates(q) => NoDuplicates(CancelAll(q, C))
<1> DEFINE n == Len(q)
           e == [i \in 1 .. n |-> IF q[i] \in C THEN Null ELSE q[i]]
<1>1. n \in Nat /\ \A i \in 1 .. n : q[i] \in H \cup {Null}
  BY DEF HandleQueue
<1>2. e \in [1 .. n -> H \cup {Null}]
  BY <1>1
<1>3. e = CancelAll(q, C) /\ \A i \in 1 .. n : e[i] = IF q[i] \in C THEN Null ELSE q[i]
  BY DEF CancelAll
<1> HIDE DEF e
<1>4. e \in Seq(H \cup {Null}) /\ Len(e) = n
  BY <1>1, <1>2
<1>5. Queued(e) = Queued(q) \ C
  BY <1>3, <1>4 DEF Queued
<1>6. NoDuplicates(q) => NoDuplicates(e)
  BY <1>3, <1>4 DEF NoDuplicates
<1> QED BY <1>3, <1>4, <1>5, <1>6 DEF HandleQueue

\* Two queues, one after the other
LEMMA ConcatHolds ==
    ASSUME NEW H, NEW q \in HandleQueue(H), NEW r \in HandleQueue(H)
    PROVE  /\ q \o r \in HandleQueue(H)
           /\ Queued(q \o r) = Queued(q) \cup Queued(r)
           /\ NoDuplicates(q \o r) <=>
                NoDuplicates(q) /\ NoDuplicates(r) /\ Queued(q) \cap Queued(r) = {}
<1> DEFINE e == q \o r
<1>1. /\ e \in HandleQueue(H)
      /\ Len(q) \in Nat /\ Len(r) \in Nat
      /\ Len(e) = Len(q) + Len(r)
      /\ \A i \in 1 .. Len(q) : e[i] = q[i]
      /\ \A i \in 1 .. Len(r) : e[Len(q) + i] = r[i]
  BY DEF HandleQueue
<1> HIDE DEF e
<1>2. \A k \in 1 .. Len(e) : \/ k \in 1 .. Len(q)
                             \/ \E i \in 1 .. Len(r) : k = Len(q) + i
  <2> SUFFICES ASSUME NEW k \in 1 .. Len(e), k \notin 1 .. Len(q)
               PROVE  \E i \in 1 .. Len(r) : k = Len(q) + i
    OBVIOUS
  <2>1. k - Len(q) \in 1 .. Len(r) /\ k = Len(q) + (k - Len(q))
    BY <1>1
  <2> QED BY <2>1
<1>3. \A i \in 1 .. Len(r) : Len(q) + i \in 1 .. Len(e) /\ Len(q) + i \notin 1 .. Len(q)
  BY <1>1
<1>4. \A i \in 1 .. Len(q) : i \in 1 .. Len(e)
  BY <1>1
<1>5. Queued(e) = Queued(q) \cup Queued(r)
  <2>1. ASSUME NEW k \in 1 .. Len(e), e[k] # Null
        PROVE  e[k] \in Queued(q) \cup Queued(r)
    <3>1. CASE k \in 1 .. Len(q)
      BY <1>1, <2>1, <3>1 DEF Queued
    <3>2. ASSUME NEW i \in 1 .. Len(r), k = Len(q) + i
          PROVE  e[k] \in Queued(r)
      BY <1>1, <2>1, <3>2 DEF Queued
    <3> QED BY <1>2, <3>1, <3>2
  <2>2. Queued(q) \subseteq Queued(e)
    BY <1>1, <1>4 DEF Queued
  <2>3. Queued(r) \subseteq Queued(e)
    BY <1>1, <1>3 DEF Queued
  <2> QED BY <2>1, <2>2, <2>3 DEF Queued
<1>6. ASSUME NoDuplicates(e)
      PROVE  NoDuplicates(q) /\ NoDuplicates(r) /\ Queued(q) \cap Queued(r) = {}
  <2>1. NoDuplicates(q)
    BY <1>1, <1>4, <1>6 DEF NoDuplicates
  <2>2. ASSUME NEW i \in 1 .. Len(r), NEW j \in 1 .. Len(r), i # j, r[i] = r[j]
        PROVE  r[i] = Null
    <3>1. Len(q) + i # Len(q) + j
      BY <1>1, <2>2
    <3> QED BY <1>1, <1>3, <1>6, <2>2, <3>1 DEF NoDuplicates
  <2>3. ASSUME NEW i \in 1 .. Len(q), NEW j \in 1 .. Len(r), q[i] = r[j]
        PROVE  q[i] = Null
    <3>1. i # Len(q) + j
      BY <1>3
    <3> QED BY <1>1, <1>3, <1>4, <1>6, <2>3, <3>1 DEF NoDuplicates
  <2> QED BY <2>1, <2>2, <2>3 DEF NoDuplicates, Queued
<1>7. ASSUME NoDuplicates(q), NoDuplicates(r), Queued(q) \cap Queued(r) = {},
             NEW i \in 1 .. Len(e), NEW j \in 1 .. Len(e), i # j, e[i] = e[j]
      PROVE  e[i] = Null
  <2>1. \A k \in 1 .. Len(q), l \in 1 .. Len(r) : q[k] = r[l] => q[k] = Null
    BY <1>7 DEF Queued
  <2>2. CASE i \in 1 .. Len(q) /\ j \in 1 .. Len(q)
    BY <1>1, <1>7, <2>2 DEF NoDuplicates
  <2>3. CASE i \in 1 .. Len(q) /\ j \notin 1 .. Len(q)
    <3>1. PICK l \in 1 .. Len(r) : j = Len(q) + l
      BY <1>2, <2>3
    <3> QED BY <1>1, <1>7, <2>1, <2>3, <3>1
  <2>4. CASE i \notin 1 .. Len(q) /\ j \in 1 .. Len(q)
    <3>1. PICK l \in 1 .. Len(r) : i = Len(q) + l
      BY <1>2, <2>4
    <3> QED BY <1>1, <1>7, <2>1, <2>4, <3>1
  <2>5. CASE i \notin 1 .. Len(q) /\ j \notin 1 .. Len(q)
    <3>1. PICK k \in 1 .. Len(r) : i = Len(q) + k
      BY <1>2, <2>5
    <3>2. PICK l \in 1 .. Len(r) : j = Len(q) + l
      BY <1>2, <2>5
    <3>3. k # l
      BY <1>7, <3>1, <3>2
    <3> QED BY <1>1, <1>7, <3>1, <3>2, <3>3 DEF NoDuplicates
  <2> QED BY <2>2, <2>3, <2>4, <2>5
<1>8. NoDuplicates(e) <=> NoDuplicates(q) /\ NoDuplicates(r) /\ Queued(q) \cap Queued(r) = {}
  BY <1>6, <1>7 DEF NoDuplicates
<1> QED BY <1>1, <1>5, <1>8 DEF e
=============================================================================
