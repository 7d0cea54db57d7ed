---------------------------- MODULE ChannelProofs ----------------------------
(***************************************************************************)
(* Theorems about Channel for any sets of readers and writers, any         *)
(* capacity and any size of the waiter queues.                             *)
(***************************************************************************)
EXTENDS Channel, SchedulerProofs, FiniteSetTheorems

\* TypeOK without the history
QueuesOK ==
    /\ items \in 0 .. Capacity
    /\ readWaiting \in Seq(Readers \cup {Null}) /\ Len(readWaiting) <= MaxWaiters
    /\ writeWaiting \in Seq(Writers \cup {Null}) /\ Len(writeWaiting) <= MaxWaiters
    /\ resumable \in Seq(Clients \cup {Null})
    /\ status \in [Clients -> {"idle", "waiting", "EBUSY", "failed"}]

LostOK == lostGets \in 0 .. Capacity /\ lostPuts \in 0 .. Capacity

\* HandlesAreWaiting, queue by queue: each handle is in one of the three queues,
\* once.  (Readers and writers are told apart by TypeOK.)
HandleInv ==
    /\ NoDuplicates(readWaiting) /\ NoDuplicates(writeWaiting) /\ NoDuplicates(resumable)
    /\ Queued(readWaiting) \cap Queued(resumable) = {}
    /\ Queued(writeWaiting) \cap Queued(resumable) = {}
    /\ Queued(readWaiting) \cup Queued(writeWaiting) \cup Queued(resumable)
         = {c \in Clients : status[c] = "waiting"}

----------------------------------------------------------------------------
(* Types of the queues                                                     *)

LEMMA QueueTypes ==
    QueuesOK <=> /\ items \in 0 .. Capacity
               /\ readWaiting \in HandleQueue(Readers) /\ Len(readWaiting) <= MaxWaiters
               /\ writeWaiting \in HandleQueue(Writers) /\ Len(writeWaiting) <= MaxWaiters
               /\ resumable \in HandleQueue(Clients)
               /\ status \in [Clients -> {"idle", "waiting", "EBUSY", "failed"}]
BY DEF QueuesOK, HandleQueue

LEMMA WiderQueue ==
    ASSUME NEW H, NEW G, H \subseteq G, NEW q \in HandleQueue(H)
    PROVE  q \in HandleQueue(G)
BY DEF HandleQueue

\* awake_reader() and awake_writer() move the handles new, at most one, from the
\* queue w of waiters of the set H to the end of the run queue q.
Wakes(H, q, w, new) ==
    /\ q \o Oldest(w) \in HandleQueue(Clients)
    /\ WithoutOldest(w) \in HandleQueue(H) /\ Len(WithoutOldest(w)) <= Len(w)
    /\ new = {} <=> Queued(w) = {}
    /\ \A c, d \in new : c = d
    /\ Queued(q \o Oldest(w)) = Queued(q) \cup new
    /\ Queued(w) = Queued(WithoutOldest(w)) \cup new
    /\ NoDuplicates(w) => NoDuplicates(WithoutOldest(w)) /\ new \cap Queued(WithoutOldest(w)) = {}
    /\ NoDuplicates(q) /\ Queued(q) \cap Queued(w) = {} => NoDuplicates(q \o Oldest(w))

\* They do so: somebody is woken if anybody waits.
LEMMA WakeOldest ==
    ASSUME NEW H \in SUBSET Clients, NEW q \in HandleQueue(Clients), NEW w \in HandleQueue(H)
    PROVE  \E new \in SUBSET Queued(w) : Wakes(H, q, w, new)
<1>0. Null \notin Clients
  BY ChannelAssumption DEF Clients
<1>1. CASE Queued(w) = {}
  <2>1. Oldest(w) = <<>> /\ WithoutOldest(w) = <<>>
    BY <1>1, OldestNone
  <2>2. q \o <<>> = q /\ Len(<<>>) <= Len(w)
    BY DEF HandleQueue
  <2>3. <<>> \in HandleQueue(H) /\ Queued(<<>>) = {} /\ NoDuplicates(<<>>)
    BY EmptyHolds
  <2>4. Wakes(H, q, w, {})
    BY <1>1, <2>1, <2>2, <2>3 DEF Wakes
  <2> QED BY <2>4
<1>2. CASE Queued(w) # {}
  <2>1. PICK h \in H :
          /\ Oldest(w) = <<h>>
          /\ h \in Queued(w)
          /\ WithoutOldest(w) \in HandleQueue(H) /\ Len(WithoutOldest(w)) < Len(w)
          /\ Queued(w) = Queued(WithoutOldest(w)) \cup {h}
          /\ NoDuplicates(w) => NoDuplicates(WithoutOldest(w)) /\ h \notin Queued(WithoutOldest(w))
    BY <1>2, OldestTaken
  <2>2. q \o Oldest(w) = Enqueue(q, h)
    BY <2>1 DEF Enqueue, HandleQueue
  <2>3. /\ Enqueue(q, h) \in HandleQueue(Clients)
        /\ Queued(Enqueue(q, h)) = Queued(q) \cup {h}
        /\ NoDuplicates(q) /\ h \notin Queued(q) => NoDuplicates(Enqueue(q, h))
    BY <1>0, EnqueueHolds
  <2>4. Len(WithoutOldest(w)) <= Len(w)
    BY <2>1 DEF HandleQueue
  <2>5. Wakes(H, q, w, {h}) /\ {h} \in SUBSET Queued(w)
    BY <1>2, <2>1, <2>2, <2>3, <2>4 DEF Wakes
  <2> QED BY <2>5
<1> QED BY <1>1, <1>2

----------------------------------------------------------------------------
(* QueuesOK and HandlesAreWaiting                                            *)

LEMMA HandlesByQueue == QueuesOK => (HandlesAreWaiting <=> HandleInv)
<1> SUFFICES ASSUME QueuesOK PROVE HandlesAreWaiting <=> HandleInv
  OBVIOUS
<1> USE ChannelAssumption
<1>1. /\ readWaiting \in HandleQueue(Clients) /\ Queued(readWaiting) \subseteq Readers
      /\ writeWaiting \in HandleQueue(Clients) /\ Queued(writeWaiting) \subseteq Writers
      /\ resumable \in HandleQueue(Clients)
  BY QueueTypes, QueuedType, WiderQueue DEF Clients
<1> DEFINE both == readWaiting \o writeWaiting
<1>2. /\ both \in HandleQueue(Clients)
      /\ Queued(both) = Queued(readWaiting) \cup Queued(writeWaiting)
      /\ NoDuplicates(both) <=>
           /\ NoDuplicates(readWaiting) /\ NoDuplicates(writeWaiting)
           /\ Queued(readWaiting) \cap Queued(writeWaiting) = {}
  BY <1>1, ConcatHolds
<1>3. Queued(readWaiting) \cap Queued(writeWaiting) = {}
  BY <1>1
<1> HIDE DEF both
<1>4. /\ Queued(both \o resumable) = Queued(both) \cup Queued(resumable)
      /\ NoDuplicates(both \o resumable) <=>
           /\ NoDuplicates(both) /\ NoDuplicates(resumable)
           /\ Queued(both) \cap Queued(resumable) = {}
  BY <1>1, <1>2, ConcatHolds
<1>5. HandlesAreWaiting <=>
        /\ NoDuplicates(both \o resumable)
        /\ Queued(both \o resumable) = {c \in Clients : status[c] = "waiting"}
  BY DEF HandlesAreWaiting, both
<1>6. NoDuplicates(both \o resumable) <=>
        /\ NoDuplicates(readWaiting) /\ NoDuplicates(writeWaiting) /\ NoDuplicates(resumable)
        /\ Queued(readWaiting) \cap Queued(resumable) = {}
        /\ Queued(writeWaiting) \cap Queued(resumable) = {}
  BY <1>2, <1>3, <1>4
<1>7. Queued(both \o resumable) = Queued(readWaiting) \cup Queued(writeWaiting) \cup Queued(resumable)
  BY <1>2, <1>4
<1> QED BY <1>5, <1>6, <1>7 DEF HandleInv

\* The state in which an operation ends by moving an item: the run queue is
\* queued, which may lack a coroutine that was just popped.
Ending(queued) ==
    /\ queued \in HandleQueue(Clients) /\ NoDuplicates(queued)
    /\ Queued(queued) \subseteq Queued(resumable)

\* Waking the other side moves a handle from a waiter queue to the run queue.
HandlesMoved(queued) ==
    /\ readWaiting' \in HandleQueue(Readers) /\ Len(readWaiting') <= MaxWaiters
    /\ writeWaiting' \in HandleQueue(Writers) /\ Len(writeWaiting') <= MaxWaiters
    /\ resumable' \in HandleQueue(Clients)
    /\ NoDuplicates(readWaiting') /\ NoDuplicates(writeWaiting') /\ NoDuplicates(resumable')
    /\ Queued(readWaiting') \cap Queued(resumable') = {}
    /\ Queued(writeWaiting') \cap Queued(resumable') = {}
    /\ Queued(readWaiting') \cup Queued(writeWaiting') \cup Queued(resumable')
         = Queued(readWaiting) \cup Queued(writeWaiting) \cup Queued(queued)

LEMMA PutItemHandles ==
    ASSUME QueuesOK, HandleInv, NEW queued, Ending(queued), hasSpace, PutItem(queued)
    PROVE  HandlesMoved(queued) /\ items' \in 0 .. Capacity
<1> USE ChannelAssumption
<1>1. items' \in 0 .. Capacity
  BY DEF QueuesOK, hasSpace, PutItem
<1>2. /\ readWaiting \in HandleQueue(Readers) /\ Len(readWaiting) <= MaxWaiters
      /\ writeWaiting \in HandleQueue(Writers) /\ Len(writeWaiting) <= MaxWaiters
      /\ Queued(readWaiting) \subseteq Readers /\ Queued(writeWaiting) \subseteq Writers
  BY QueueTypes, QueuedType
<1>3. PICK new \in SUBSET Queued(readWaiting) : Wakes(Readers, queued, readWaiting, new)
  <2>1. Readers \in SUBSET Clients /\ queued \in HandleQueue(Clients)
    BY DEF Clients, Ending
  <2> QED BY <1>2, <2>1, WakeOldest
<1>4. /\ writeWaiting' = writeWaiting /\ readWaiting' = WithoutOldest(readWaiting)
      /\ resumable' = queued \o Oldest(readWaiting)
  BY DEF PutItem
<1>5. Len(readWaiting') <= MaxWaiters
  BY <1>2, <1>3, <1>4 DEF HandleQueue, Wakes
<1>6. Queued(queued) \cap (Queued(readWaiting) \cup Queued(writeWaiting)) = {}
  BY DEF Ending, HandleInv
<1> QED BY <1>1, <1>2, <1>3, <1>4, <1>5, <1>6 DEF HandlesMoved, HandleInv, Ending, Wakes

LEMMA GetItemHandles ==
    ASSUME QueuesOK, HandleInv, NEW queued, Ending(queued), items > 0, GetItem(queued)
    PROVE  HandlesMoved(queued) /\ items' \in 0 .. Capacity
<1> USE ChannelAssumption
<1>1. items' \in 0 .. Capacity
  BY DEF QueuesOK, GetItem
<1>2. /\ readWaiting \in HandleQueue(Readers) /\ Len(readWaiting) <= MaxWaiters
      /\ writeWaiting \in HandleQueue(Writers) /\ Len(writeWaiting) <= MaxWaiters
      /\ Queued(readWaiting) \subseteq Readers /\ Queued(writeWaiting) \subseteq Writers
  BY QueueTypes, QueuedType
<1>3. PICK new \in SUBSET Queued(writeWaiting) : Wakes(Writers, queued, writeWaiting, new)
  <2>1. Writers \in SUBSET Clients /\ queued \in HandleQueue(Clients)
    BY DEF Clients, Ending
  <2> QED BY <1>2, <2>1, WakeOldest
<1>4. /\ readWaiting' = readWaiting /\ writeWaiting' = WithoutOldest(writeWaiting)
      /\ resumable' = queued \o Oldest(writeWaiting)
  BY DEF GetItem
<1>5. Len(writeWaiting') <= MaxWaiters
  BY <1>2, <1>3, <1>4 DEF HandleQueue, Wakes
<1>6. Queued(queued) \cap (Queued(readWaiting) \cup Queued(writeWaiting)) = {}
  BY DEF Ending, HandleInv
<1> QED BY <1>1, <1>2, <1>3, <1>4, <1>5, <1>6 DEF HandlesMoved, HandleInv, Ending, Wakes

LEMMA ChannelInit == Init => QueuesOK /\ HandleInv
<1> SUFFICES ASSUME Init PROVE QueuesOK /\ HandleInv
  OBVIOUS
<1>1. /\ <<>> \in HandleQueue(Readers) /\ <<>> \in HandleQueue(Writers)
      /\ <<>> \in HandleQueue(Clients)
      /\ Queued(<<>>) = {} /\ NoDuplicates(<<>>) /\ Len(<<>>) = 0
  BY EmptyHolds
<1>2. QueuesOK
  BY <1>1, ChannelAssumption, QueueTypes DEF Init
<1> QED BY <1>1, <1>2 DEF Init, HandleInv

\* A call that ends after its item was moved; it waited in the run queue, or not
\* at all.
LEMMA CallEnds ==
    ASSUME QueuesOK, HandleInv, NEW queued, Ending(queued), HandlesMoved(queued),
           items' \in 0 .. Capacity, NEW c \in Clients, NEW how \in {"idle", "failed"},
           status' = [status EXCEPT ![c] = how],
           c \notin Queued(readWaiting) \cup Queued(writeWaiting) \cup Queued(queued),
           Queued(resumable) \subseteq Queued(queued) \cup {c}
    PROVE  QueuesOK' /\ HandleInv'
<1>1. status' \in [Clients -> {"idle", "waiting", "EBUSY", "failed"}]
  BY DEF QueuesOK
<1>2. QueuesOK'
  BY <1>1 DEF HandlesMoved, QueuesOK, HandleQueue
<1>3. {d \in Clients : status'[d] = "waiting"} = {d \in Clients : status[d] = "waiting"} \ {c}
  BY DEF QueuesOK
<1>4. {d \in Clients : status[d] = "waiting"} \ {c}
        = Queued(readWaiting) \cup Queued(writeWaiting) \cup Queued(queued)
  BY DEF HandleInv, Ending
<1> QED BY <1>2, <1>3, <1>4 DEF HandlesMoved, HandleInv

\* A coroutine that is not in a call is in no queue.
LEMMA CallerNotQueued ==
    ASSUME QueuesOK, HandleInv, NEW c \in Clients, status[c] # "waiting"
    PROVE  c \notin Queued(readWaiting) \cup Queued(writeWaiting) \cup Queued(resumable)
BY DEF HandleInv

LEMMA CallNowHandles ==
    ASSUME QueuesOK, HandleInv, NEW c \in Clients, PutNow(c) \/ GetNow(c)
    PROVE  QueuesOK' /\ HandleInv'
<1>1. Ending(resumable)
  BY QueueTypes DEF Ending, HandleInv
<1>2. HandlesMoved(resumable) /\ items' \in 0 .. Capacity
  BY <1>1, PutItemHandles, GetItemHandles DEF PutNow, GetNow
<1>3. status[c] # "waiting" /\ status' = [status EXCEPT ![c] = "idle"]
  BY DEF PutNow, GetNow, MayCall
<1> QED BY <1>1, <1>2, <1>3, CallerNotQueued, CallEnds

LEMMA CallWaitHandles ==
    ASSUME QueuesOK, HandleInv, NEW c,
           (c \in Writers /\ PutWait(c)) \/ (c \in Readers /\ GetWait(c))
    PROVE  QueuesOK' /\ HandleInv'
<1> USE ChannelAssumption
<1>1. c \in Clients /\ status[c] # "waiting" /\ status' = [status EXCEPT ![c] = "waiting"]
  BY DEF PutWait, GetWait, MayCall, Clients
<1>2. c \notin Queued(readWaiting) \cup Queued(writeWaiting) \cup Queued(resumable)
  BY <1>1, CallerNotQueued
<1>3. /\ status' \in [Clients -> {"idle", "waiting", "EBUSY", "failed"}]
      /\ {d \in Clients : status'[d] = "waiting"} = {d \in Clients : status[d] = "waiting"} \cup {c}
  BY <1>1 DEF QueuesOK
<1>4. CASE c \in Writers /\ PutWait(c)
  <2>1. /\ writeWaiting' = Enqueue(writeWaiting, c) /\ Len(writeWaiting) < MaxWaiters
        /\ UNCHANGED <<items, readWaiting, resumable>>
    BY <1>4 DEF PutWait, Enqueue
  <2>2. /\ writeWaiting' \in HandleQueue(Writers)
        /\ Queued(writeWaiting') = Queued(writeWaiting) \cup {c}
        /\ NoDuplicates(writeWaiting')
    BY <1>2, <1>4, <2>1, EnqueueHolds, QueueTypes DEF HandleInv
  <2>3. Len(writeWaiting') <= MaxWaiters
    BY <2>1 DEF QueuesOK, Enqueue
  <2>4. QueuesOK'
    BY <1>3, <2>1, <2>2, <2>3, QueueTypes DEF QueuesOK, HandleQueue
  <2> QED BY <1>2, <1>3, <2>1, <2>2, <2>4 DEF HandleInv
<1>5. CASE c \in Readers /\ GetWait(c)
  <2>1. /\ readWaiting' = Enqueue(readWaiting, c) /\ Len(readWaiting) < MaxWaiters
        /\ UNCHANGED <<items, writeWaiting, resumable>>
    BY <1>5 DEF GetWait, Enqueue
  <2>2. /\ readWaiting' \in HandleQueue(Readers)
        /\ Queued(readWaiting') = Queued(readWaiting) \cup {c}
        /\ NoDuplicates(readWaiting')
    BY <1>2, <1>5, <2>1, EnqueueHolds, QueueTypes DEF HandleInv
  <2>3. Len(readWaiting') <= MaxWaiters
    BY <2>1 DEF QueuesOK, Enqueue
  <2>4. QueuesOK'
    BY <1>3, <2>1, <2>2, <2>3, QueueTypes DEF QueuesOK, HandleQueue
  <2> QED BY <1>2, <1>3, <2>1, <2>2, <2>4 DEF HandleInv
<1> QED BY <1>4, <1>5

LEMMA CallRefusedHandles ==
    ASSUME QueuesOK, HandleInv, NEW c \in Clients, PutRefused(c) \/ GetRefused(c)
    PROVE  QueuesOK' /\ HandleInv'
<1>1. /\ status[c] # "waiting" /\ status' = [status EXCEPT ![c] = "EBUSY"]
      /\ UNCHANGED <<items, readWaiting, writeWaiting, resumable>>
  BY DEF PutRefused, GetRefused, MayCall
<1>2. /\ status' \in [Clients -> {"idle", "waiting", "EBUSY", "failed"}]
      /\ {d \in Clients : status'[d] = "waiting"} = {d \in Clients : status[d] = "waiting"}
  BY <1>1 DEF QueuesOK
<1> QED BY <1>1, <1>2 DEF QueuesOK, HandleInv

\* The scheduler has popped c at position i: what is left of the run queue
LEMMA PoppedHandles ==
    ASSUME QueuesOK, HandleInv, NEW i, IsNext(resumable, i, {}), NEW c, resumable[i] = c
    PROVE  /\ Ending(After(resumable, i))
           /\ c \in Clients /\ c \in Queued(resumable)
           /\ Queued(resumable) = Queued(After(resumable, i)) \cup {c}
           /\ c \notin Queued(readWaiting) \cup Queued(writeWaiting) \cup Queued(After(resumable, i))
<1>1. i \in 1 .. Len(resumable) /\ resumable \in HandleQueue(Clients)
  BY QueueTypes DEF IsNext
<1>2. /\ After(resumable, i) \in HandleQueue(Clients)
      /\ c \in Clients /\ c \in Queued(resumable)
      /\ Queued(resumable) = Queued(After(resumable, i)) \cup {c}
      /\ NoDuplicates(After(resumable, i)) /\ c \notin Queued(After(resumable, i))
  BY <1>1, AfterHolds DEF HandleInv
<1> QED BY <1>2 DEF HandleInv, Ending

LEMMA CallResumeHandles ==
    ASSUME QueuesOK, HandleInv, NEW c, NEW i, PutResume(c, i) \/ GetResume(c, i)
    PROVE  QueuesOK' /\ HandleInv'
<1> DEFINE rest == After(resumable, i)
<1>1. IsNext(resumable, i, {}) /\ resumable[i] = c
  BY DEF PutResume, GetResume
<1>2. /\ Ending(rest) /\ c \in Clients /\ Queued(resumable) \subseteq Queued(rest) \cup {c}
      /\ c \notin Queued(readWaiting) \cup Queued(writeWaiting) \cup Queued(rest)
  BY <1>1, PoppedHandles
<1>3. CASE /\ resumable' = rest
           /\ status' = [status EXCEPT ![c] = "failed"]
           /\ UNCHANGED <<items, readWaiting, writeWaiting>>
  <2>1. HandlesMoved(rest) /\ items' \in 0 .. Capacity
    BY <1>2, <1>3, QueueTypes DEF HandlesMoved, Ending, HandleInv
  <2> QED BY <1>2, <1>3, <2>1, CallEnds
<1>4. CASE /\ (hasSpace /\ PutItem(rest)) \/ (items > 0 /\ GetItem(rest))
           /\ status' = [status EXCEPT ![c] = "idle"]
  <2>1. HandlesMoved(rest) /\ items' \in 0 .. Capacity
    BY <1>2, <1>4, PutItemHandles, GetItemHandles
  <2> QED BY <1>2, <1>4, <2>1, CallEnds
<1> QED BY <1>3, <1>4 DEF PutResume, GetResume

LEMMA DropCallHandles ==
    ASSUME QueuesOK, HandleInv, NEW c \in Clients, DropCall(c)
    PROVE  QueuesOK' /\ HandleInv'
<1>1. /\ readWaiting' \in HandleQueue(Readers) /\ Len(readWaiting') = Len(readWaiting)
      /\ Queued(readWaiting') = Queued(readWaiting) \ {c} /\ NoDuplicates(readWaiting')
  BY CancelHolds, QueueTypes DEF DropCall, HandleInv
<1>2. /\ writeWaiting' \in HandleQueue(Writers) /\ Len(writeWaiting') = Len(writeWaiting)
      /\ Queued(writeWaiting') = Queued(writeWaiting) \ {c} /\ NoDuplicates(writeWaiting')
  BY CancelHolds, QueueTypes DEF DropCall, HandleInv
<1>3. /\ resumable' \in HandleQueue(Clients)
      /\ Queued(resumable') = Queued(resumable) \ {c} /\ NoDuplicates(resumable')
  BY CancelHolds, QueueTypes DEF DropCall, HandleInv
<1>4. /\ status' \in [Clients -> {"idle", "waiting", "EBUSY", "failed"}]
      /\ {d \in Clients : status'[d] = "waiting"} = {d \in Clients : status[d] = "waiting"} \ {c}
  BY DEF QueuesOK, DropCall
<1>5. QueuesOK'
  BY <1>1, <1>2, <1>3, <1>4 DEF QueuesOK, HandleQueue, DropCall
<1> QED BY <1>1, <1>2, <1>3, <1>4, <1>5 DEF HandleInv

LEMMA DrainHandles ==
    ASSUME QueuesOK, HandleInv, Drain
    PROVE  QueuesOK' /\ HandleInv'
<1>1. Queued(resumable) = {} /\ resumable' = <<>>
  BY NoNextQueued DEF Drain
<1>2. <<>> \in HandleQueue(Clients) /\ Queued(<<>>) = {} /\ NoDuplicates(<<>>)
  BY EmptyHolds
<1> QED BY <1>1, <1>2 DEF Drain, QueuesOK, HandleInv, HandleQueue

LEMMA HandlesInductive == QueuesOK /\ HandleInv /\ [Next]_vars => QueuesOK' /\ HandleInv'
<1> SUFFICES ASSUME QueuesOK, HandleInv, [Next]_vars PROVE QueuesOK' /\ HandleInv'
  OBVIOUS
<1>1. ASSUME NEW c \in Writers, PutNow(c) \/ PutWait(c) \/ PutRefused(c)
      PROVE  QueuesOK' /\ HandleInv'
  BY <1>1, CallNowHandles, CallWaitHandles, CallRefusedHandles DEF Clients
<1>2. ASSUME NEW c \in Readers, GetNow(c) \/ GetWait(c) \/ GetRefused(c)
      PROVE  QueuesOK' /\ HandleInv'
  BY <1>2, CallNowHandles, CallWaitHandles, CallRefusedHandles DEF Clients
<1>3. ASSUME NEW c, NEW i, PutResume(c, i) \/ GetResume(c, i)
      PROVE  QueuesOK' /\ HandleInv'
  BY <1>3, CallResumeHandles
<1>4. CASE UNCHANGED vars
  BY <1>4 DEF vars, QueuesOK, HandleInv
<1> QED BY <1>1, <1>2, <1>3, <1>4, DropCallHandles, DrainHandles DEF Next

LEMMA LostInductive == QueuesOK /\ LostOK /\ [Next]_vars => LostOK'
<1> SUFFICES ASSUME QueuesOK, LostOK, [Next]_vars PROVE LostOK'
  OBVIOUS
<1> USE ChannelAssumption
<1>1. ASSUME NEW c \in Clients, DropCall(c) PROVE LostOK'
  BY <1>1 DEF DropCall, Lost, LostOK
<1>2. CASE UNCHANGED lost
  BY <1>2 DEF lost, LostOK
<1>3. ASSUME NEW c, PutNow(c) \/ PutWait(c) \/ PutRefused(c) \/ GetNow(c) \/ GetWait(c) \/ GetRefused(c)
      PROVE  UNCHANGED lost
  BY <1>3 DEF PutNow, PutWait, PutRefused, GetNow, GetWait, GetRefused, PutItem, GetItem
<1>4. ASSUME NEW c, NEW i, PutResume(c, i) \/ GetResume(c, i)
      PROVE  UNCHANGED lost
  BY <1>4 DEF PutResume, GetResume, PutItem, GetItem
<1>5. Drain \/ UNCHANGED vars => UNCHANGED lost
  BY DEF Drain, vars
<1> QED BY <1>1, <1>2, <1>3, <1>4, <1>5 DEF Next

\* The two halves of TypeOK
LEMMA TypeHalves == TypeOK <=> QueuesOK /\ LostOK
BY DEF TypeOK, QueuesOK, LostOK

LEMMA LostInit == Init => LostOK
BY ChannelAssumption DEF Init, LostOK

(* Buffer, queues and calls keep their types, and neither queue of waiters  *)
(* outgrows its bound, whatever calls are made, dropped and interleaved.    *)
THEOREM ChannelTypes == Spec => []TypeOK
BY ChannelInit, LostInit, HandlesInductive, LostInductive, TypeHalves, PTL DEF Spec

(* Every handle the channel or the scheduler holds is that of one call that *)
(* still waits, and every waiting call is held, exactly once: with any      *)
(* number of readers and writers, overtaking each other and dropped.        *)
THEOREM ChannelHandles == Spec => []HandlesAreWaiting
<1>1. QueuesOK /\ HandleInv => HandlesAreWaiting
  BY HandlesByQueue
<1> QED BY <1>1, ChannelInit, HandlesInductive, PTL DEF Spec

----------------------------------------------------------------------------
(* Nobody is stranded                                                      *)

\* A queue holds finitely many handles.
LEMMA QueuedFinite ==
    ASSUME NEW H, NEW q \in HandleQueue(H)
    PROVE  IsFiniteSet(Queued(q))
<1> DEFINE held == {q[i] : i \in 1 .. Len(q)}
<1>1. Len(q) \in Nat /\ q \in [1 .. Len(q) -> held]
  BY DEF HandleQueue
<1>2. q \in Surjection(1 .. Len(q), held)
  BY <1>1 DEF Surjection
<1>3. IsFiniteSet(held)
  BY <1>1, <1>2, FS_NatSurjection DEF ExistsSurjection
<1> QED BY <1>3, FS_Subset DEF Queued

\* n items or places are claimed by the woken coroutines A and l wake-ups that were
\* lost.  They stay claimed when the number shrinks, when a new one wakes somebody,
\* when a woken coroutine takes one, and when one is dropped and counted.
LEMMA StillClaimed ==
    ASSUME NEW A, IsFiniteSet(A), NEW B, NEW n \in Nat, NEW m \in Nat, NEW l \in Nat, NEW k \in Nat,
           Cardinality(A) + l >= n,
           \/ m <= n /\ k = l /\ B = A
           \/ m = n + 1 /\ k = l /\ \E h : h \notin A /\ B = A \cup {h}
           \/ m = n - 1 /\ k = l /\ \E h \in A : B = A \ {h}
           \/ m = n /\ k = l + 1 /\ \E h \in A : B = A \ {h}
    PROVE  Cardinality(B) + k >= m
<1>1. Cardinality(A) \in Nat
  BY FS_CardinalityType
<1>2. CASE m <= n /\ k = l /\ B = A
  BY <1>1, <1>2
<1>3. CASE m = n + 1 /\ k = l /\ \E h : h \notin A /\ B = A \cup {h}
  <2>1. Cardinality(B) = Cardinality(A) + 1
    BY <1>3, FS_AddElement
  <2> QED BY <1>1, <1>3, <2>1
<1>4. CASE m = n - 1 /\ k = l /\ \E h \in A : B = A \ {h}
  <2>1. Cardinality(B) = Cardinality(A) - 1
    BY <1>4, FS_RemoveElement
  <2> QED BY <1>1, <1>4, <2>1
<1>5. CASE m = n /\ k = l + 1 /\ \E h \in A : B = A \ {h}
  <2>1. Cardinality(B) = Cardinality(A) - 1
    BY <1>5, FS_RemoveElement
  <2> QED BY <1>1, <1>5, <2>1
<1> QED BY <1>2, <1>3, <1>4, <1>5

ReadersClaim ==
    Queued(readWaiting) # {} =>
        Cardinality(Queued(resumable) \cap Readers) + lostGets >= items
WritersClaim ==
    Queued(writeWaiting) # {} =>
        Cardinality(Queued(resumable) \cap Writers) + lostPuts >= Capacity - items
Claims == ReadersClaim /\ WritersClaim

LEMMA ClaimsStrandNobody == QueuesOK /\ LostOK /\ Claims => NobodyStranded
BY DEF Claims, ReadersClaim, WritersClaim, NobodyStranded, ReaderNotStranded, WriterNotStranded

\* What the counting rests on, in one place
LEMMA ClaimTypes ==
    ASSUME QueuesOK, LostOK
    PROVE  /\ IsFiniteSet(Queued(resumable) \cap Readers)
           /\ IsFiniteSet(Queued(resumable) \cap Writers)
           /\ Cardinality(Queued(resumable) \cap Readers) \in Nat
           /\ Cardinality(Queued(resumable) \cap Writers) \in Nat
           /\ items \in Nat /\ Capacity \in Nat /\ Capacity - items \in Nat
           /\ lostGets \in Nat /\ lostPuts \in Nat
           /\ Queued(readWaiting) \subseteq Readers /\ Queued(writeWaiting) \subseteq Writers
<1> USE ChannelAssumption
<1>1. IsFiniteSet(Queued(resumable))
  BY QueueTypes, QueuedFinite
<1>2. /\ IsFiniteSet(Queued(resumable) \cap Readers)
      /\ IsFiniteSet(Queued(resumable) \cap Writers)
  BY <1>1, FS_Subset
<1>3. Queued(readWaiting) \subseteq Readers /\ Queued(writeWaiting) \subseteq Writers
  BY QueueTypes, QueuedType
<1> QED BY <1>2, <1>3, FS_CardinalityType DEF QueuesOK, LostOK

\* put() moves its item: the run queue is as it was, or lacks the writer that was
\* popped.
LEMMA PutItemClaims ==
    ASSUME QueuesOK, HandleInv, LostOK, Claims, hasSpace, LostOK',
           NEW queued, Ending(queued), PutItem(queued),
           \/ Queued(queued) = Queued(resumable)
           \/ \E c \in Queued(resumable) : c \in Writers /\ Queued(queued) = Queued(resumable) \ {c}
    PROVE  Claims'
<1> USE ChannelAssumption
<1>1. PICK new \in SUBSET Queued(readWaiting) : Wakes(Readers, queued, readWaiting, new)
  <2>1. Readers \in SUBSET Clients /\ queued \in HandleQueue(Clients)
    BY DEF Clients, Ending
  <2> QED BY <2>1, WakeOldest, QueueTypes
<1>2. /\ items' = items + 1 /\ items < Capacity /\ UNCHANGED <<writeWaiting, lostGets, lostPuts>>
      /\ Queued(resumable') = Queued(queued) \cup new
      /\ Queued(readWaiting') \subseteq Queued(readWaiting)
      /\ Queued(readWaiting') # {} => \E h : new = {h}
  <2>1. /\ Queued(readWaiting') \subseteq Queued(readWaiting)
        /\ Queued(readWaiting) # {} => new # {}
        /\ \A d, h \in new : d = h
    BY <1>1 DEF PutItem, Wakes, hasSpace, lost
  <2>2. ASSUME Queued(readWaiting') # {} PROVE \E h : new = {h}
    <3>1. PICK h : h \in new
      BY <2>1, <2>2
    <3>2. new = {h}
      BY <2>1, <3>1
    <3> QED BY <3>2
  <2> QED BY <1>1, <2>1, <2>2 DEF PutItem, Wakes, hasSpace, lost
<1>3. new \subseteq Readers /\ new \cap Queued(resumable) = {} /\ new \cap Writers = {}
  BY ClaimTypes DEF HandleInv
<1>4. Queued(resumable') \cap Readers = (Queued(resumable) \cap Readers) \cup new
  BY <1>2, <1>3
<1>5. ReadersClaim'
  <2> SUFFICES ASSUME Queued(readWaiting') # {}
               PROVE  Cardinality(Queued(resumable') \cap Readers) + lostGets' >= items'
    BY DEF ReadersClaim
  <2>1. \E h : /\ h \notin Queued(resumable) \cap Readers
               /\ Queued(resumable') \cap Readers = (Queued(resumable) \cap Readers) \cup {h}
    BY <1>2, <1>3, <1>4
  <2>2. Cardinality(Queued(resumable) \cap Readers) + lostGets >= items
    BY <1>2 DEF Claims, ReadersClaim
  <2>3. items' = items + 1 /\ items' \in Nat /\ lostGets' = lostGets
    BY <1>2, ClaimTypes
  <2> QED BY <2>1, <2>2, <2>3, ClaimTypes, StillClaimed
<1>6. WritersClaim'
  <2> SUFFICES ASSUME Queued(writeWaiting) # {}
               PROVE  Cardinality(Queued(resumable') \cap Writers) + lostPuts >= Capacity - (items + 1)
    BY <1>2 DEF WritersClaim
  <2>1. Cardinality(Queued(resumable) \cap Writers) + lostPuts >= Capacity - items
    BY DEF Claims, WritersClaim
  <2>2. \/ Queued(resumable') \cap Writers = Queued(resumable) \cap Writers
        \/ \E h \in Queued(resumable) \cap Writers :
             Queued(resumable') \cap Writers = (Queued(resumable) \cap Writers) \ {h}
    BY <1>2, <1>3
  <2>3. /\ Capacity - (items + 1) \in Nat /\ Capacity - (items + 1) = (Capacity - items) - 1
        /\ Capacity - (items + 1) <= Capacity - items
    BY <1>2, ClaimTypes
  <2> DEFINE A == Queued(resumable) \cap Writers
             B == Queued(resumable') \cap Writers
             n == Capacity - items
             m == Capacity - (items + 1)
  <2>4. IsFiniteSet(A) /\ n \in Nat /\ m \in Nat /\ lostPuts \in Nat /\ Cardinality(A) + lostPuts >= n
    BY <2>1, <2>2, <2>3, ClaimTypes
  <2>5. \/ m <= n /\ B = A
        \/ m = n - 1 /\ \E h \in A : B = A \ {h}
    BY <2>2, <2>3
  <2> HIDE DEF A, B, n, m
  <2>6. Cardinality(B) + lostPuts >= m
    BY <2>4, <2>5, StillClaimed
  <2> QED BY <2>6 DEF B, m
<1> QED BY <1>5, <1>6 DEF Claims

\* The same for get()
LEMMA GetItemClaims ==
    ASSUME QueuesOK, HandleInv, LostOK, Claims, items > 0, LostOK',
           NEW queued, Ending(queued), GetItem(queued),
           \/ Queued(queued) = Queued(resumable)
           \/ \E c \in Queued(resumable) : c \in Readers /\ Queued(queued) = Queued(resumable) \ {c}
    PROVE  Claims'
<1> USE ChannelAssumption
<1>1. PICK new \in SUBSET Queued(writeWaiting) : Wakes(Writers, queued, writeWaiting, new)
  <2>1. Writers \in SUBSET Clients /\ queued \in HandleQueue(Clients)
    BY DEF Clients, Ending
  <2> QED BY <2>1, WakeOldest, QueueTypes
<1>2. /\ items' = items - 1 /\ UNCHANGED <<readWaiting, lostGets, lostPuts>>
      /\ Queued(resumable') = Queued(queued) \cup new
      /\ Queued(writeWaiting') \subseteq Queued(writeWaiting)
      /\ Queued(writeWaiting') # {} => \E h : new = {h}
  <2>1. /\ Queued(writeWaiting') \subseteq Queued(writeWaiting)
        /\ Queued(writeWaiting) # {} => new # {}
        /\ \A d, h \in new : d = h
    BY <1>1 DEF GetItem, Wakes, lost
  <2>2. ASSUME Queued(writeWaiting') # {} PROVE \E h : new = {h}
    <3>1. PICK h : h \in new
      BY <2>1, <2>2
    <3>2. new = {h}
      BY <2>1, <3>1
    <3> QED BY <3>2
  <2> QED BY <1>1, <2>1, <2>2 DEF GetItem, Wakes, lost
<1>3. new \subseteq Writers /\ new \cap Queued(resumable) = {} /\ new \cap Readers = {}
  BY ClaimTypes DEF HandleInv
<1>4. Queued(resumable') \cap Writers = (Queued(resumable) \cap Writers) \cup new
  BY <1>2, <1>3
<1>5. WritersClaim'
  <2> SUFFICES ASSUME Queued(writeWaiting') # {}
               PROVE  Cardinality(Queued(resumable') \cap Writers) + lostPuts >= Capacity - (items - 1)
    BY <1>2 DEF WritersClaim
  <2>1. \E h : /\ h \notin Queued(resumable) \cap Writers
               /\ Queued(resumable') \cap Writers = (Queued(resumable) \cap Writers) \cup {h}
    BY <1>2, <1>3, <1>4
  <2>2. Cardinality(Queued(resumable) \cap Writers) + lostPuts >= Capacity - items
    BY <1>2 DEF Claims, WritersClaim
  <2>3. Capacity - (items - 1) = (Capacity - items) + 1 /\ Capacity - (items - 1) \in Nat
    BY ClaimTypes
  <2> DEFINE A == Queued(resumable) \cap Writers
             B == Queued(resumable') \cap Writers
             n == Capacity - items
             m == Capacity - (items - 1)
  <2>4. IsFiniteSet(A) /\ n \in Nat /\ m \in Nat /\ lostPuts \in Nat /\ Cardinality(A) + lostPuts >= n
    BY <2>1, <2>2, <2>3, ClaimTypes
  <2>5. m = n + 1 /\ \E h : h \notin A /\ B = A \cup {h}
    BY <2>1, <2>3
  <2> HIDE DEF A, B, n, m
  <2>6. Cardinality(B) + lostPuts >= m
    BY <2>4, <2>5, StillClaimed
  <2> QED BY <2>6 DEF B, m
<1>6. ReadersClaim'
  <2> SUFFICES ASSUME Queued(readWaiting) # {}
               PROVE  Cardinality(Queued(resumable') \cap Readers) + lostGets >= items - 1
    BY <1>2 DEF ReadersClaim
  <2>1. Cardinality(Queued(resumable) \cap Readers) + lostGets >= items
    BY DEF Claims, ReadersClaim
  <2>2. \/ Queued(resumable') \cap Readers = Queued(resumable) \cap Readers
        \/ \E h \in Queued(resumable) \cap Readers :
             Queued(resumable') \cap Readers = (Queued(resumable) \cap Readers) \ {h}
    BY <1>2, <1>3
  <2>3. items - 1 \in Nat /\ items - 1 <= items
    BY ClaimTypes
  <2> DEFINE A == Queued(resumable) \cap Readers
             B == Queued(resumable') \cap Readers
             n == items
             m == items - 1
  <2>4. IsFiniteSet(A) /\ n \in Nat /\ m \in Nat /\ lostGets \in Nat /\ Cardinality(A) + lostGets >= n
    BY <2>1, <2>2, <2>3, ClaimTypes
  <2>5. \/ m <= n /\ B = A
        \/ m = n - 1 /\ \E h \in A : B = A \ {h}
    BY <2>2, <2>3
  <2> HIDE DEF A, B, n, m
  <2>6. Cardinality(B) + lostGets >= m
    BY <2>4, <2>5, StillClaimed
  <2> QED BY <2>6 DEF B, m
<1> QED BY <1>5, <1>6 DEF Claims

LEMMA CallClaims ==
    ASSUME QueuesOK, HandleInv, LostOK, Claims, LostOK', NEW c,
           \/ c \in Writers /\ (PutNow(c) \/ PutWait(c) \/ PutRefused(c))
           \/ c \in Readers /\ (GetNow(c) \/ GetWait(c) \/ GetRefused(c))
    PROVE  Claims'
<1>1. Ending(resumable)
  BY QueueTypes DEF Ending, HandleInv
<1>2. CASE PutNow(c)
  BY <1>1, <1>2, PutItemClaims DEF PutNow
<1>3. CASE GetNow(c)
  BY <1>1, <1>3, GetItemClaims DEF GetNow
<1>4. CASE PutWait(c)
  <2>1. items = Capacity /\ UNCHANGED <<items, readWaiting, resumable, lostGets, lostPuts>>
    BY <1>4, ChannelAssumption DEF PutWait, hasSpace, QueuesOK, lost
  <2> QED BY <2>1, ClaimTypes DEF Claims, ReadersClaim, WritersClaim
<1>5. CASE GetWait(c)
  <2>1. items = 0 /\ UNCHANGED <<items, writeWaiting, resumable, lostGets, lostPuts>>
    BY <1>5 DEF GetWait, lost
  <2> QED BY <2>1, ClaimTypes DEF Claims, ReadersClaim, WritersClaim
<1>6. CASE PutRefused(c) \/ GetRefused(c)
  BY <1>6 DEF PutRefused, GetRefused, lost, Claims, ReadersClaim, WritersClaim
<1> QED BY <1>2, <1>3, <1>4, <1>5, <1>6

\* A woken call claims what it takes; one that finds nothing leaves nothing unclaimed.
LEMMA ResumeClaims ==
    ASSUME QueuesOK, HandleInv, LostOK, Claims, LostOK', NEW c, NEW i,
           (c \in Writers /\ PutResume(c, i)) \/ (c \in Readers /\ GetResume(c, i))
    PROVE  Claims'
<1> DEFINE rest == After(resumable, i)
<1>1. IsNext(resumable, i, {}) /\ resumable[i] = c
  BY DEF PutResume, GetResume
<1>2. /\ Ending(rest) /\ c \in Queued(resumable)
      /\ Queued(rest) = Queued(resumable) \ {c}
  BY <1>1, PoppedHandles
<1>3. CASE c \in Writers /\ PutResume(c, i)
  <2>1. CASE hasSpace
    <3>1. PutItem(rest)
      BY <1>3, <2>1 DEF PutResume
    <3> HIDE DEF rest
    <3> QED BY <1>2, <1>3, <2>1, <3>1, PutItemClaims
  <2>2. CASE ~hasSpace
    <3>1. /\ UNCHANGED <<items, readWaiting, writeWaiting, lostGets, lostPuts>>
          /\ resumable' = rest /\ items = Capacity
      BY <1>3, <2>2, ChannelAssumption DEF PutResume, lost, hasSpace, QueuesOK
    <3>2. /\ Queued(resumable') \cap Readers = Queued(resumable) \cap Readers
          /\ Queued(resumable') \cap Writers \subseteq Queued(resumable) \cap Writers
      BY <1>2, <1>3, <3>1, ChannelAssumption
    <3>3. Cardinality(Queued(resumable') \cap Writers) \in Nat
      BY <3>2, ClaimTypes, FS_Subset, FS_CardinalityType
    <3> QED BY <3>1, <3>2, <3>3, ClaimTypes DEF Claims, ReadersClaim, WritersClaim
  <2> QED BY <2>1, <2>2
<1>4. CASE c \in Readers /\ GetResume(c, i)
  <2>1. CASE items > 0
    <3>1. GetItem(rest)
      BY <1>4, <2>1 DEF GetResume
    <3> HIDE DEF rest
    <3> QED BY <1>2, <1>4, <2>1, <3>1, GetItemClaims
  <2>2. CASE ~(items > 0)
    <3>1. /\ UNCHANGED <<items, readWaiting, writeWaiting, lostGets, lostPuts>>
          /\ resumable' = rest /\ items = 0
      BY <1>4, <2>2, ChannelAssumption DEF GetResume, lost, QueuesOK
    <3>2. /\ Queued(resumable') \cap Writers = Queued(resumable) \cap Writers
          /\ Queued(resumable') \cap Readers \subseteq Queued(resumable) \cap Readers
      BY <1>2, <1>4, <3>1, ChannelAssumption
    <3>3. Cardinality(Queued(resumable') \cap Readers) \in Nat
      BY <3>2, ClaimTypes, FS_Subset, FS_CardinalityType
    <3>4. ReadersClaim'
      BY <3>1, <3>3, ClaimTypes DEF ReadersClaim
    <3>5. WritersClaim'
      BY <3>1, <3>2 DEF Claims, WritersClaim
    <3> QED BY <3>4, <3>5 DEF Claims
  <2> QED BY <2>1, <2>2
<1> QED BY <1>3, <1>4

\* A dropped call that had been woken is counted.
LEMMA DropCallClaims ==
    ASSUME QueuesOK, HandleInv, LostOK, Claims, LostOK', NEW c \in Clients, DropCall(c)
    PROVE  Claims'
<1> USE ChannelAssumption
<1>1. /\ Queued(readWaiting') \subseteq Queued(readWaiting)
      /\ Queued(writeWaiting') \subseteq Queued(writeWaiting)
      /\ Queued(resumable') = Queued(resumable) \ {c}
  BY CancelHolds, QueueTypes DEF DropCall
<1>2. items' = items
  BY DEF DropCall
<1>3. ASSUME NEW H, NEW n \in Nat, NEW l \in Nat, IsFiniteSet(Queued(resumable) \cap H), n <= Capacity,
             Lost(l, c, H) \in Nat, Cardinality(Queued(resumable) \cap H) + l >= n
      PROVE  Cardinality(Queued(resumable') \cap H) + Lost(l, c, H) >= n
  <2>1. CASE c \notin Queued(resumable) \cap H
    <3>1. Queued(resumable') \cap H = Queued(resumable) \cap H /\ Lost(l, c, H) = l
      BY <1>1, <2>1 DEF Lost
    <3> QED BY <1>3, <3>1
  <2>2. CASE c \in Queued(resumable) \cap H /\ l < Capacity
    <3>1. /\ Queued(resumable') \cap H = (Queued(resumable) \cap H) \ {c}
          /\ Lost(l, c, H) = l + 1
      BY <1>1, <2>2 DEF Lost
    <3> QED BY <1>3, <2>2, <3>1, StillClaimed
  <2>3. CASE c \in Queued(resumable) \cap H /\ ~(l < Capacity)
    <3>1. Queued(resumable') \cap H \subseteq Queued(resumable) \cap H /\ Lost(l, c, H) = l
      BY <1>1, <2>3 DEF Lost
    <3>2. Cardinality(Queued(resumable') \cap H) \in Nat
      BY <1>3, <3>1, FS_Subset, FS_CardinalityType
    <3> QED BY <1>3, <2>3, <3>1, <3>2
  <2> QED BY <2>1, <2>2, <2>3
<1>4. lostGets' = Lost(lostGets, c, Readers) /\ lostPuts' = Lost(lostPuts, c, Writers)
  BY DEF DropCall
<1>5. lostGets' \in Nat /\ lostPuts' \in Nat /\ items <= Capacity /\ Capacity - items <= Capacity
  BY DEF LostOK, QueuesOK
<1>6. ReadersClaim'
  BY <1>1, <1>2, <1>3, <1>4, <1>5, ClaimTypes DEF Claims, ReadersClaim
<1>7. WritersClaim'
  BY <1>1, <1>2, <1>3, <1>4, <1>5, ClaimTypes DEF Claims, WritersClaim
<1> QED BY <1>6, <1>7 DEF Claims

LEMMA ClaimsInit == Init => Claims
BY EmptyHolds DEF Init, Claims, ReadersClaim, WritersClaim

LEMMA ClaimsInductive ==
    QueuesOK /\ HandleInv /\ LostOK /\ Claims /\ LostOK' /\ [Next]_vars => Claims'
<1> SUFFICES ASSUME QueuesOK, HandleInv, LostOK, Claims, LostOK', [Next]_vars PROVE Claims'
  OBVIOUS
<1>1. CASE Drain
  <2>1. Queued(resumable) = {} /\ resumable' = <<>> /\ Queued(<<>>) = {}
    BY <1>1, NoNextQueued, EmptyHolds DEF Drain
  <2> QED BY <1>1, <2>1 DEF Drain, Claims, ReadersClaim, WritersClaim, lost
<1>2. CASE UNCHANGED vars
  BY <1>2 DEF vars, lost, Claims, ReadersClaim, WritersClaim
<1> QED BY <1>1, <1>2, CallClaims, ResumeClaims, DropCallClaims DEF Next

(* Nobody waits for an item or a place that is there, unless for every one  *)
(* a woken coroutine is on its way or was dropped on its way: for any       *)
(* number of readers and writers, any capacity, calls that overtake the     *)
(* woken ones, and calls dropped at any moment.                             *)
THEOREM ChannelStrandsNobody == Spec => []NobodyStranded
BY ClaimsStrandNobody, ChannelInit, LostInit, ClaimsInit, HandlesInductive, LostInductive,
   ClaimsInductive, PTL DEF Spec
=============================================================================
