------------------------- MODULE BoundedQueueProofs -------------------------
(***************************************************************************)
(* For every capacity and every set of items: the ring buffer keeps its    *)
(* shape, never leaves the vector's bounds, never hands out a moved-from   *)
(* slot, and implements the bounded FIFO queue.                            *)
(*                                                                         *)
(* The provers do linear arithmetic well and modulo badly, so the argument *)
(* is carried out on Linear, which says what RingInv says without modulo.  *)
(***************************************************************************)
EXTENDS BoundedQueue, SequenceTheorems, TLAPS

(* The position (1-based) that is i slots after the 0-based slot t.        *)
Ring(t, i) == IF t + i < Capacity THEN t + i + 1 ELSE t + i + 1 - Capacity

Linear ==
    /\ TypeOK
    /\ Len(queue) < Capacity => head = Len(queue) /\ tail + size = head
    /\ Len(queue) = Capacity /\ Capacity > 0 =>
         head < Capacity /\ tail < Capacity /\ Ring(tail, size) = head + 1
    /\ \A i \in 0 .. size - 1 : queue[Ring(tail, i)] \in T

(* A modulo that stays below the capacity or wraps once is Ring.           *)
LEMMA ModRing ==
    ASSUME NEW t \in Nat, NEW i \in Nat, t < Capacity, i <= Capacity
    PROVE  /\ 1 + ((t + i) % Capacity) = Ring(t, i)
           /\ Ring(t, i) \in 1 .. Capacity
           /\ (t + i) % Capacity \in Nat
<1> USE CapacityAssumption
<1>1. CASE t + i < Capacity
  <2>1. (t + i) % Capacity = t + i
    BY <1>1, Z3
  <2> QED BY <1>1, <2>1 DEF Ring
<1>2. CASE t + i >= Capacity
  <2>1. (t + i) % Capacity = t + i - Capacity
    BY <1>2, Z3
  <2> QED BY <1>2, <2>1 DEF Ring
<1> QED BY <1>1, <1>2

(* RingInv and Linear say the same.                                        *)
LEMMA LinearRing == RingInv <=> Linear
<1> USE CapacityAssumption
<1>. SUFFICES ASSUME TypeOK PROVE RingInv <=> Linear
  BY DEF RingInv, Linear
<1>1. /\ tail \in Nat /\ size \in Nat /\ head \in Nat
      /\ Len(queue) \in Nat /\ size <= Capacity
      /\ tail <= Capacity /\ Len(queue) <= Capacity
  BY DEF TypeOK
<1>2. CASE tail < Capacity
  <2>1. /\ 1 + ((tail + size) % Capacity) = Ring(tail, size)
        /\ (tail + size) % Capacity \in Nat
    BY <1>1, <1>2, ModRing
  <2>2. ASSUME NEW i \in 0 .. size - 1 PROVE Slot(i) = Ring(tail, i)
    <3>1. i \in Nat /\ i <= Capacity
      BY <1>1
    <3> QED BY <1>1, <1>2, <3>1, ModRing DEF Slot
  <2>3. OccupiedSlotsHoldItems <=>
          \A i \in 0 .. size - 1 : queue[Ring(tail, i)] \in T
    BY <2>2 DEF OccupiedSlotsHoldItems
  <2> QED BY <1>1, <1>2, <2>1, <2>3 DEF RingInv, Linear, RingShape
<1>3. CASE tail = Capacity /\ Capacity > 0
  BY <1>1, <1>3 DEF RingInv, Linear, RingShape
<1>4. CASE Capacity = 0
  <2>1. size = 0 /\ 0 .. size - 1 = {}
    BY <1>1, <1>4
  <2> QED BY <1>1, <1>4, <2>1 DEF RingInv, Linear, RingShape, OccupiedSlotsHoldItems
<1> QED BY <1>1, <1>2, <1>3, <1>4

(* The facts the step proofs use about a ring that may move.               *)
LEMMA LinearTypes ==
    ASSUME Linear
    PROVE  /\ tail \in Nat /\ size \in Nat /\ head \in Nat /\ Len(queue) \in Nat
           /\ size <= Capacity /\ tail <= Capacity /\ Len(queue) <= Capacity
           /\ queue \in Seq(T \cup {MovedFrom})
           /\ size < Capacity => head < Capacity /\ tail < Capacity
                                 /\ Ring(tail, size) = head + 1
           /\ size > 0 => tail < Len(queue) /\ tail < Capacity
           /\ \A i \in 0 .. size - 1 : Ring(tail, i) \in 1 .. Len(queue)
  BY CapacityAssumption DEF Linear, TypeOK, Ring

(* put() with space preserves the ring.                                    *)
LEMMA PutStoreInv ==
    ASSUME Linear, NEW elem \in T, PutStore(elem)
    PROVE  Linear'
<1> USE CapacityAssumption
<1>1. /\ tail \in Nat /\ size \in Nat /\ head \in Nat /\ Len(queue) \in Nat
      /\ size < Capacity /\ tail < Capacity /\ head < Capacity
      /\ Len(queue) <= Capacity /\ Ring(tail, size) = head + 1
      /\ queue \in Seq(T \cup {MovedFrom})
      /\ \A i \in 0 .. size - 1 : Ring(tail, i) \in 1 .. Len(queue)
  BY LinearTypes DEF PutStore, hasSpace
<1>2. head' = IF head + 1 = Capacity THEN 0 ELSE head + 1
  <2>1. 1 + ((head + 1) % Capacity) = Ring(head, 1)
        /\ (head + 1) % Capacity \in Nat
    <3>1. head \in Nat /\ head < Capacity /\ 1 <= Capacity
      BY <1>1
    <3> QED BY <3>1, ModRing
  <2> QED BY <1>1, <2>1 DEF Ring, PutStore
<1>3. tail' = tail /\ size' = size + 1 /\ ret' = "ok"
  BY DEF PutStore
<1>4. /\ queue' \in Seq(T \cup {MovedFrom})
      /\ Len(queue') = IF Len(queue) < Capacity THEN Len(queue) + 1 ELSE Len(queue)
      /\ queue'[head + 1] = elem
      /\ \A j \in 1 .. Len(queue) : j # head + 1 => queue'[j] = queue[j]
  <2>1. CASE Len(queue) < Capacity
    <3>1. queue' = Append(queue, elem) /\ head = Len(queue)
      BY <2>1 DEF PutStore, Linear
    <3> QED BY <1>1, <2>1, <3>1, AppendProperties
  <2>2. CASE Len(queue) >= Capacity
    <3>1. queue' = [queue EXCEPT ![head + 1] = elem] /\ head + 1 \in 1 .. Len(queue)
      BY <1>1, <2>2 DEF PutStore
    <3> QED BY <1>1, <2>2, <3>1, ExceptSeq
  <2> QED BY <1>1, <2>1, <2>2
<1>5. TypeOK'
  BY <1>1, <1>2, <1>3, <1>4 DEF TypeOK
<1>6. Len(queue') < Capacity => head' = Len(queue') /\ tail' + size' = head'
  BY <1>1, <1>2, <1>3, <1>4 DEF Linear
<1>7. Len(queue') = Capacity => 
         head' < Capacity /\ tail' < Capacity /\ Ring(tail', size') = head' + 1
  BY <1>1, <1>2, <1>3, <1>4 DEF Ring, Linear
<1>8. ASSUME NEW i \in 0 .. size' - 1 PROVE queue'[Ring(tail', i)] \in T
  <2>1. CASE i = size
    BY <1>1, <1>3, <1>4, <2>1
  <2>2. CASE i < size
    <3>1. i \in 0 .. size - 1
      BY <1>1, <1>3, <2>2
    <3>2. Ring(tail, i) \in 1 .. Len(queue) /\ queue[Ring(tail, i)] \in T
      BY <1>1, <3>1 DEF Linear
    <3>3. Ring(tail, i) # Ring(tail, size)
      BY <1>1, <3>1 DEF Ring
    <3> QED BY <1>1, <1>3, <1>4, <3>2, <3>3
  <2> QED BY <1>1, <1>3, <2>1, <2>2
<1> QED BY <1>5, <1>6, <1>7, <1>8 DEF Linear, Ring

(* get() preserves the ring: the slot it leaves as a husk is not occupied  *)
(* any more.                                                               *)
LEMMA GetItemInv ==
    ASSUME Linear, GetItem
    PROVE  Linear'
<1> USE CapacityAssumption
<1>1. /\ tail \in Nat /\ size \in Nat /\ head \in Nat /\ Len(queue) \in Nat
      /\ size > 0 /\ size <= Capacity /\ tail < Capacity /\ tail < Len(queue)
      /\ Len(queue) <= Capacity
      /\ queue \in Seq(T \cup {MovedFrom})
      /\ \A i \in 0 .. size - 1 : Ring(tail, i) \in 1 .. Len(queue)
  BY LinearTypes DEF GetItem, empty
<1>2. tail' = IF tail + 1 = Capacity THEN 0 ELSE tail + 1
  <2>1. 1 + ((tail + 1) % Capacity) = Ring(tail, 1)
        /\ (tail + 1) % Capacity \in Nat
    BY <1>1, ModRing
  <2> QED BY <1>1, <2>1 DEF Ring, GetItem
<1>3. head' = head /\ size' = size - 1 /\ ret' = queue[tail + 1]
  BY DEF GetItem
<1>4. /\ queue' \in Seq(T \cup {MovedFrom})
      /\ Len(queue') = Len(queue)
      /\ \A j \in 1 .. Len(queue) : j # tail + 1 => queue'[j] = queue[j]
  BY <1>1, ExceptSeq DEF GetItem
<1>5. queue[tail + 1] \in T
  <2>1. Ring(tail, 0) = tail + 1 /\ 0 \in 0 .. size - 1
    BY <1>1 DEF Ring
  <2> QED BY <2>1 DEF Linear
<1>6. TypeOK'
  BY <1>1, <1>2, <1>3, <1>4, <1>5 DEF TypeOK, Linear
<1>7. Len(queue') < Capacity => head' = Len(queue') /\ tail' + size' = head'
  BY <1>1, <1>2, <1>3, <1>4 DEF Linear
<1>8. Len(queue') = Capacity /\ Capacity > 0 => 
         head' < Capacity /\ tail' < Capacity /\ Ring(tail', size') = head' + 1
  BY <1>1, <1>2, <1>3, <1>4 DEF Ring, Linear
<1>9. ASSUME NEW i \in 0 .. size' - 1 PROVE queue'[Ring(tail', i)] \in T
  <2>1. /\ Ring(tail', i) = Ring(tail, i + 1)
        /\ i + 1 \in 0 .. size - 1
        /\ Ring(tail, i + 1) # tail + 1
    BY <1>1, <1>2, <1>3 DEF Ring
  <2> QED BY <1>1, <1>4, <2>1 DEF Linear
<1> QED BY <1>6, <1>7, <1>8, <1>9 DEF Linear, Ring

(* forEach() preserves the ring: occupied slots get images under f.        *)
LEMMA ForEachInv ==
    ASSUME Linear, NEW f \in [T -> T], ForEach(f)
    PROVE  /\ Linear'
           /\ \A i \in 0 .. size - 1 : queue'[Ring(tail, i)] = f[queue[Ring(tail, i)]]
<1> USE CapacityAssumption
<1> DEFINE Occupied(j) == \E i \in 0 .. size - 1 : Slot(i) = j
<1>1. /\ tail \in Nat /\ size \in Nat /\ Len(queue) \in Nat /\ size <= Capacity
      /\ queue \in Seq(T \cup {MovedFrom})
      /\ size > 0 => tail < Capacity
      /\ \A i \in 0 .. size - 1 : Ring(tail, i) \in 1 .. Len(queue)
  BY LinearTypes
<1>2. ASSUME NEW i \in 0 .. size - 1 PROVE Slot(i) = Ring(tail, i)
  <2>1. i \in Nat /\ i <= Capacity /\ tail < Capacity
    BY <1>1
  <2> QED BY <1>1, <2>1, ModRing DEF Slot
<1>3. queue' = [j \in 1 .. Len(queue) |-> IF Occupied(j) THEN f[queue[j]] ELSE queue[j]]
  BY DEF ForEach
<1>4. ASSUME NEW j \in 1 .. Len(queue), Occupied(j)
      PROVE  queue[j] \in T /\ f[queue[j]] \in T
  BY <1>2, <1>4 DEF Linear
<1>5. \A i \in 0 .. size - 1 : /\ queue'[Ring(tail, i)] = f[queue[Ring(tail, i)]]
                               /\ f[queue[Ring(tail, i)]] \in T
  BY <1>1, <1>2, <1>3, <1>4
<1>6. \A j \in 1 .. Len(queue) : queue'[j] \in T \cup {MovedFrom}
  <2>1. \A j \in 1 .. Len(queue) : queue[j] \in T \cup {MovedFrom}
    BY <1>1, ElementOfSeq
  <2> QED BY <1>3, <1>4, <2>1
<1>7. queue' \in Seq(T \cup {MovedFrom}) /\ Len(queue') = Len(queue)
  <2>1. queue' = [j \in 1 .. Len(queue) |-> queue'[j]]
    BY <1>3
  <2> HIDE DEF Occupied
  <2> QED BY <1>1, <1>6, <2>1
<1>8. head' = head /\ tail' = tail /\ size' = size /\ ret' = "ok"
  BY DEF ForEach
<1>9. Linear'
  BY <1>5, <1>7, <1>8 DEF Linear, TypeOK, Ring
<1> QED BY <1>5, <1>9

(* Linear is an inductive invariant.                                       *)
LEMMA LinearInductive ==
    /\ Init => Linear
    /\ Linear /\ [Next]_vars => Linear'
<1> USE CapacityAssumption
<1>1. Init => Linear
  <2>. SUFFICES ASSUME Init PROVE Linear
    OBVIOUS
  <2>1. queue \in Seq(T \cup {MovedFrom}) /\ Len(queue) = 0
    BY EmptySeq DEF Init
  <2> QED BY <2>1 DEF Init, Linear, TypeOK
<1>2. ASSUME Linear, [Next]_vars PROVE Linear'
  <2>1. ASSUME NEW elem \in T, PutStore(elem) PROVE Linear'
    BY <1>2, <2>1, PutStoreInv
  <2>2. ASSUME NEW elem \in T, PutFull(elem) PROVE Linear'
    BY <1>2, <2>2 DEF PutFull, Linear, TypeOK, Ring
  <2>3. CASE GetItem
    BY <1>2, <2>3, GetItemInv
  <2>4. CASE GetEmpty
    BY <1>2, <2>4 DEF GetEmpty, Linear, TypeOK, Ring
  <2>5. ASSUME NEW f \in [T -> T], ForEach(f) PROVE Linear'
    BY <1>2, <2>5, ForEachInv
  <2>6. CASE UNCHANGED vars
    BY <1>2, <2>6 DEF vars, Linear, TypeOK, Ring
  <2> QED BY <1>2, <2>1, <2>2, <2>3, <2>4, <2>5, <2>6 DEF Next
<1> QED BY <1>1, <1>2

(* For every capacity, put(), get() and forEach() keep head_, tail_, size_ *)
(* and the vector in the relation RingInv, and every occupied slot holds   *)
(* an item.                                                                *)
THEOREM RingInvariant == Spec => []RingInv
  BY LinearInductive, LinearRing, PTL DEF Spec

(* For every capacity, no at() of put(), get() or forEach() throws and the *)
(* assertion of put() holds.                                               *)
THEOREM BoundsSafety == Spec => []AccessInBounds
<1>1. Linear => AccessInBounds
  <2>. SUFFICES ASSUME Linear PROVE AccessInBounds
    OBVIOUS
  <2>1. /\ tail \in Nat /\ size \in Nat /\ head \in Nat /\ Len(queue) \in Nat
        /\ size <= Capacity /\ Len(queue) <= Capacity
        /\ size < Capacity => head < Capacity
        /\ size > 0 => tail < Len(queue) /\ tail < Capacity
        /\ \A i \in 0 .. size - 1 : Ring(tail, i) \in 1 .. Len(queue)
    BY LinearTypes
  <2>2. ASSUME NEW i \in 0 .. size - 1 PROVE Slot(i) <= Len(queue)
    <3>1. i \in Nat /\ i <= Capacity /\ tail < Capacity
      BY <2>1, CapacityAssumption
    <3>2. Slot(i) = Ring(tail, i)
      BY <2>1, <3>1, ModRing DEF Slot
    <3> QED BY <2>1, <3>2
  <2> QED BY <2>1, <2>2, CapacityAssumption
          DEF AccessInBounds, hasSpace, empty, Linear
<1> QED BY <1>1, LinearInductive, PTL DEF Spec

(* Contents, without the modulo.                                           *)
LEMMA ContentsRing ==
    Linear => Contents = [i \in 1 .. size |-> queue[Ring(tail, i - 1)]]
<1>. SUFFICES ASSUME Linear
     PROVE Contents = [i \in 1 .. size |-> queue[Ring(tail, i - 1)]]
  OBVIOUS
<1>1. size \in Nat /\ tail \in Nat /\ size <= Capacity /\ (size > 0 => tail < Capacity)
  BY LinearTypes
<1>2. ASSUME NEW i \in 1 .. size PROVE Slot(i - 1) = Ring(tail, i - 1)
  <2>1. i - 1 \in Nat /\ i - 1 <= Capacity /\ tail < Capacity
    BY <1>1, CapacityAssumption
  <2> QED BY <1>1, <2>1, ModRing DEF Slot
<1> QED BY <1>2 DEF Contents

(* Contents is a sequence of size items, the i-th being i - 1 slots after  *)
(* tail_.                                                                  *)
LEMMA ContentsSeq ==
    Linear => /\ Contents \in Seq(T)
              /\ Len(Contents) = size
              /\ \A i \in 1 .. size : Contents[i] = queue[Ring(tail, i - 1)]
<1>. SUFFICES ASSUME Linear
     PROVE  /\ Contents \in Seq(T)
            /\ Len(Contents) = size
            /\ \A i \in 1 .. size : Contents[i] = queue[Ring(tail, i - 1)]
  OBVIOUS
<1>1. size \in Nat
  BY LinearTypes
<1>2. Contents = [i \in 1 .. size |-> queue[Ring(tail, i - 1)]]
  BY ContentsRing
<1>3. \A i \in 1 .. size : queue[Ring(tail, i - 1)] \in T
  <2>. SUFFICES ASSUME NEW i \in 1 .. size PROVE queue[Ring(tail, i - 1)] \in T
    OBVIOUS
  <2>1. i - 1 \in 0 .. size - 1
    BY <1>1
  <2> QED BY <2>1 DEF Linear
<1> QED BY <1>1, <1>2, <1>3

(* put() with space appends to Contents.                                   *)
LEMMA PutStoreRefines ==
    ASSUME Linear, Linear', NEW elem \in T, PutStore(elem)
    PROVE  Len(Contents) < Capacity /\ Contents' = Append(Contents, elem)
<1> USE CapacityAssumption
<1>1. /\ tail \in Nat /\ size \in Nat /\ head \in Nat /\ Len(queue) \in Nat
      /\ size < Capacity /\ tail < Capacity /\ head < Capacity
      /\ Len(queue) <= Capacity /\ Ring(tail, size) = head + 1
      /\ queue \in Seq(T \cup {MovedFrom})
      /\ \A i \in 0 .. size - 1 : Ring(tail, i) \in 1 .. Len(queue)
  BY LinearTypes DEF PutStore, hasSpace
<1>2. /\ Contents \in Seq(T) /\ Len(Contents) = size
      /\ \A i \in 1 .. size : Contents[i] = queue[Ring(tail, i - 1)]
  BY ContentsSeq
<1>3. /\ Contents' \in Seq(T) /\ Len(Contents') = size'
      /\ \A i \in 1 .. size' : Contents'[i] = queue'[Ring(tail', i - 1)]
  <2>1. (Linear => /\ Contents \in Seq(T) /\ Len(Contents) = size
                   /\ \A i \in 1 .. size : Contents[i] = queue[Ring(tail, i - 1)])'
    BY ContentsSeq, PTL
  <2> QED BY <2>1 DEF Ring
<1>4. tail' = tail /\ size' = size + 1
  BY DEF PutStore
<1>5. /\ queue'[head + 1] = elem
      /\ \A j \in 1 .. Len(queue) : j # head + 1 => queue'[j] = queue[j]
  <2>1. CASE Len(queue) < Capacity
    <3>1. queue' = Append(queue, elem) /\ head = Len(queue)
      BY <2>1 DEF PutStore, Linear
    <3> QED BY <1>1, <2>1, <3>1, AppendProperties
  <2>2. CASE Len(queue) >= Capacity
    <3>1. queue' = [queue EXCEPT ![head + 1] = elem] /\ head + 1 \in 1 .. Len(queue)
      BY <1>1, <2>2 DEF PutStore
    <3> QED BY <1>1, <2>2, <3>1, ExceptSeq
  <2> QED BY <1>1, <2>1, <2>2
<1>6. ASSUME NEW i \in 1 .. size PROVE Contents'[i] = Contents[i]
  <2>1. i - 1 \in 0 .. size - 1 /\ i \in 1 .. size'
    BY <1>1, <1>4
  <2>2. Ring(tail, i - 1) \in 1 .. Len(queue)
    BY <1>1, <2>1
  <2>3. Ring(tail, i - 1) # Ring(tail, size)
    BY <1>1, <2>1 DEF Ring
  <2> QED BY <1>1, <1>2, <1>3, <1>4, <1>5, <2>1, <2>2, <2>3
<1>7. Contents'[size + 1] = elem
  <2>1. size + 1 \in 1 .. size' /\ size + 1 - 1 = size
    BY <1>1, <1>4
  <2> QED BY <1>1, <1>3, <1>4, <1>5, <2>1
<1>8. /\ Append(Contents, elem) \in Seq(T)
      /\ Len(Append(Contents, elem)) = size + 1
      /\ \A i \in 1 .. size : Append(Contents, elem)[i] = Contents[i]
      /\ Append(Contents, elem)[size + 1] = elem
  BY <1>2, AppendProperties
<1>9. ASSUME NEW i \in 1 .. Len(Contents') PROVE Contents'[i] = Append(Contents, elem)[i]
  <2>1. i \in 1 .. size \/ i = size + 1
    BY <1>1, <1>3, <1>4
  <2>2. CASE i \in 1 .. size
    <3>1. Append(Contents, elem)[i] = Contents[i]
      BY <1>8, <2>2
    <3> QED BY <1>6, <2>2, <3>1
  <2>3. CASE i = size + 1
    BY <1>7, <1>8, <2>3
  <2> QED BY <2>1, <2>2, <2>3
<1>10. Contents' = Append(Contents, elem)
  BY <1>3, <1>4, <1>8, <1>9, SeqEqual
<1> QED BY <1>1, <1>2, <1>10

(* get() hands out the head of Contents and leaves its tail.               *)
LEMMA GetItemRefines ==
    ASSUME Linear, Linear', GetItem
    PROVE  Contents # <<>> /\ ret' = Head(Contents) /\ Contents' = Tail(Contents)
<1> USE CapacityAssumption
<1>1. /\ tail \in Nat /\ size \in Nat /\ head \in Nat /\ Len(queue) \in Nat
      /\ size > 0 /\ size <= Capacity /\ tail < Capacity /\ tail < Len(queue)
      /\ Len(queue) <= Capacity
      /\ queue \in Seq(T \cup {MovedFrom})
      /\ \A i \in 0 .. size - 1 : Ring(tail, i) \in 1 .. Len(queue)
  BY LinearTypes DEF GetItem, empty
<1>2. /\ Contents \in Seq(T) /\ Len(Contents) = size
      /\ \A i \in 1 .. size : Contents[i] = queue[Ring(tail, i - 1)]
  BY ContentsSeq
<1>3. /\ Contents' \in Seq(T) /\ Len(Contents') = size'
      /\ \A i \in 1 .. size' : Contents'[i] = queue'[Ring(tail', i - 1)]
  <2>1. (Linear => /\ Contents \in Seq(T) /\ Len(Contents) = size
                   /\ \A i \in 1 .. size : Contents[i] = queue[Ring(tail, i - 1)])'
    BY ContentsSeq, PTL
  <2> QED BY <2>1 DEF Ring
<1>4. tail' = IF tail + 1 = Capacity THEN 0 ELSE tail + 1
  <2>1. 1 + ((tail + 1) % Capacity) = Ring(tail, 1)
        /\ (tail + 1) % Capacity \in Nat
    BY <1>1, ModRing
  <2> QED BY <1>1, <2>1 DEF Ring, GetItem
<1>5. size' = size - 1 /\ ret' = queue[tail + 1]
      /\ \A j \in 1 .. Len(queue) : j # tail + 1 => queue'[j] = queue[j]
  BY <1>1 DEF GetItem
<1>6. Contents # <<>>
  BY <1>1, <1>2
<1>7. /\ Head(Contents) = Contents[1]
      /\ Tail(Contents) \in Seq(T)
      /\ Len(Tail(Contents)) = size - 1
      /\ \A i \in 1 .. size - 1 : Tail(Contents)[i] = Contents[i + 1]
  BY <1>1, <1>2, <1>6, HeadTailProperties
<1>8. ret' = Head(Contents)
  <2>1. Ring(tail, 1 - 1) = tail + 1 /\ 1 \in 1 .. size
    BY <1>1 DEF Ring
  <2> QED BY <1>2, <1>5, <1>7, <2>1
<1>9. ASSUME NEW i \in 1 .. size - 1 PROVE Contents'[i] = Tail(Contents)[i]
  <2>1. /\ Ring(tail', i - 1) = Ring(tail, i)
        /\ Ring(tail, i) # tail + 1
        /\ i \in 0 .. size - 1
        /\ i \in 1 .. size'
        /\ i + 1 \in 1 .. size
        /\ (i + 1) - 1 = i
    <3>1. i \in Nat /\ i >= 1 /\ i <= size - 1 /\ size - 1 < Capacity
      BY <1>1
    <3>2. Ring(tail', i - 1) = Ring(tail, i) /\ Ring(tail, i) # tail + 1
      BY <1>1, <1>4, <3>1 DEF Ring
    <3> QED BY <1>1, <1>5, <3>1, <3>2
  <2>2. Contents'[i] = queue[Ring(tail, i)]
    BY <1>1, <1>3, <1>5, <2>1
  <2>3. Contents[i + 1] = queue[Ring(tail, i)]
    BY <1>2, <2>1
  <2> QED BY <1>7, <2>2, <2>3
<1>10. Contents' = Tail(Contents)
  BY <1>3, <1>5, <1>7, <1>9, SeqEqual
<1> QED BY <1>6, <1>8, <1>10

(* forEach() maps f over Contents.                                         *)
LEMMA ForEachRefines ==
    ASSUME Linear, Linear', NEW f \in [T -> T], ForEach(f)
    PROVE  Contents' = [i \in 1 .. Len(Contents) |-> f[Contents[i]]]
<1>1. size \in Nat
  BY LinearTypes
<1>2. /\ Contents \in Seq(T) /\ Len(Contents) = size
      /\ \A i \in 1 .. size : Contents[i] = queue[Ring(tail, i - 1)]
  BY ContentsSeq
<1>3. Contents' = [i \in 1 .. size' |-> queue'[Ring(tail', i - 1)]]
  <2>1. (Linear => Contents = [i \in 1 .. size |-> queue[Ring(tail, i - 1)]])'
    BY ContentsRing, PTL
  <2> QED BY <2>1 DEF Ring
<1>4. size' = size /\ tail' = tail
  BY DEF ForEach
<1>5. \A i \in 0 .. size - 1 : queue'[Ring(tail, i)] = f[queue[Ring(tail, i)]]
  BY ForEachInv
<1>6. ASSUME NEW i \in 1 .. size
      PROVE  queue'[Ring(tail', i - 1)] = f[Contents[i]]
  <2>1. i - 1 \in 0 .. size - 1
    BY <1>1
  <2> QED BY <1>2, <1>4, <1>5, <2>1
<1> QED BY <1>2, <1>3, <1>4, <1>6

(* The ring buffer implements the bounded FIFO queue, for every capacity   *)
(* and every set of items: what Channel relies on.                         *)
THEOREM RingImplementsFifo == Spec => ImplementsFifo
<1> USE CapacityAssumption
<1>1. Init => F!Init
  <2>. SUFFICES ASSUME Init PROVE F!Init
    OBVIOUS
  <2>1. Linear /\ size = 0
    BY LinearInductive DEF Init
  <2>2. Contents \in Seq(T) /\ Len(Contents) = 0
    BY <2>1, ContentsSeq
  <2>3. Contents = <<>>
    BY <2>2, EmptySeq
  <2> QED BY <2>3 DEF Init, F!Init
<1>2. ASSUME Linear, Linear', [Next]_vars PROVE [F!Next]_F!vars
  <2>0. Contents \in Seq(T) /\ Len(Contents) = size /\ size \in Nat
    BY <1>2, ContentsSeq, LinearTypes
  <2>1. ASSUME NEW elem \in T, PutStore(elem) PROVE F!Next
    <3>1. Len(Contents) < Capacity /\ Contents' = Append(Contents, elem)
      BY <1>2, <2>1, PutStoreRefines
    <3>2. F!Put(elem)
      BY <2>1, <3>1 DEF F!Put, PutStore
    <3> QED BY <3>2 DEF F!Next
  <2>2. ASSUME NEW elem \in T, PutFull(elem) PROVE F!Next
    <3>1. Contents' = Contents
      BY <2>2 DEF PutFull, Contents, Slot
    <3>2. F!Put(elem)
      BY <2>0, <2>2, <3>1 DEF F!Put, PutFull, hasSpace
    <3> QED BY <3>2 DEF F!Next
  <2>3. CASE GetItem
    <3>1. Contents # <<>> /\ ret' = Head(Contents) /\ Contents' = Tail(Contents)
      BY <1>2, <2>3, GetItemRefines
    <3> QED BY <3>1 DEF F!Next, F!Get
  <2>4. CASE GetEmpty
    <3>1. Contents' = Contents /\ size = 0
      BY <2>4 DEF GetEmpty, Contents, Slot, empty
    <3>2. Contents = <<>>
      BY <2>0, <3>1, EmptySeq
    <3> QED BY <2>4, <3>1, <3>2 DEF F!Next, F!Get, GetEmpty
  <2>5. ASSUME NEW f \in [T -> T], ForEach(f) PROVE F!Next
    <3>1. Contents' = [i \in 1 .. Len(Contents) |-> f[Contents[i]]]
      BY <1>2, <2>5, ForEachRefines
    <3>2. F!ForEach(f)
      BY <2>5, <3>1 DEF F!ForEach, ForEach
    <3> QED BY <3>2 DEF F!Next
  <2>6. CASE UNCHANGED vars
    BY <2>6 DEF vars, F!vars, Contents, Slot
  <2> QED BY <1>2, <2>1, <2>2, <2>3, <2>4, <2>5, <2>6 DEF Next
<1> QED BY <1>1, <1>2, LinearInductive, PTL DEF Spec, ImplementsFifo, F!Spec

=============================================================================
