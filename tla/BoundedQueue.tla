---------------------------- MODULE BoundedQueue ----------------------------
(***************************************************************************)
(* BoundedQueue<T> of src/uvco/bounded_queue.h: a ring buffer in a vector  *)
(* that is reserved once, grows by push_back until it holds Capacity       *)
(* elements and is overwritten in place from then on.  Vector positions    *)
(* are 0-based in the code (head_, tail_) and 1-based in queue.  Moving an *)
(* item out leaves a husk in its slot, written MovedFrom.                  *)
(***************************************************************************)
EXTENDS Integers, Sequences

CONSTANTS T,          \* the items
          Capacity,   \* constructor argument, 0 is accepted by the code
          MovedFrom   \* what std::move leaves in a slot

ASSUME CapacityAssumption == Capacity \in Nat
ASSUME MovedFromAssumption == MovedFrom \notin T

VARIABLES queue,      \* queue_: the elements of the vector
          head,       \* head_: the next slot to be filled
          tail,       \* tail_: the next slot to be popped
          size,       \* size_
          ret         \* outcome of the last call: item, "ok" or the error thrown

vars == <<queue, head, tail, size, ret>>

\* The empty vector after reserve(capacity).
Init ==
    /\ queue = <<>>
    /\ head = 0
    /\ tail = 0
    /\ size = 0
    /\ ret = "ok"

hasSpace == size < Capacity

empty == size = 0

\* idx of forEach after i increments, as a position of queue.
Slot(i) == 1 + ((tail + i) % Capacity)

----------------------------------------------------------------------------
\* put() that does not wrap head_ / that takes a full vector for a growing one
PutNoWrap(elem) ==
    /\ hasSpace
    /\ queue' = IF Len(queue) < Capacity THEN Append(queue, elem)
                ELSE [queue EXCEPT ![head + 1] = elem]
    /\ head' = head + 1
    /\ size' = size + 1
    /\ ret' = "ok"
    /\ UNCHANGED tail

\* put() with space: push_back while the vector grows, else overwrite.
PutStore(elem) ==
    /\ hasSpace
    /\ queue' = IF Len(queue) < Capacity THEN Append(queue, elem)
                ELSE [queue EXCEPT ![head + 1] = elem]
    /\ head' = (head + 1) % Capacity
    /\ size' = size + 1
    /\ ret' = "ok"
    /\ UNCHANGED tail

\* put() on a full queue throws before it touches anything.
PutFull(elem) ==
    /\ ~hasSpace
    /\ ret' = "EBUSY"
    /\ UNCHANGED <<queue, head, tail, size>>

\* get() that reads the slot after the one tail_ points to: tail_ is
\* incremented before it is used
GetPreIncrement ==
    LET t == (tail + 1) % Capacity IN
    /\ ~empty
    /\ t < Len(queue)
    /\ ret' = queue[t + 1]
    /\ queue' = [queue EXCEPT ![t + 1] = MovedFrom]
    /\ tail' = t
    /\ size' = size - 1
    /\ UNCHANGED head

\* get() moves the item out of slot tail_ and advances.
GetItem ==
    /\ ~empty
    /\ ret' = queue[tail + 1]
    /\ queue' = [queue EXCEPT ![tail + 1] = MovedFrom]
    /\ tail' = (tail + 1) % Capacity
    /\ size' = size - 1
    /\ UNCHANGED head

\* get() on an empty queue throws.
GetEmpty ==
    /\ empty
    /\ ret' = "EAGAIN"
    /\ UNCHANGED <<queue, head, tail, size>>

\* forEach() that walks the vector instead of the occupied part of the ring
ForEachWholeVector(f) ==
    /\ queue' = [j \in 1 .. Len(queue) |->
                    IF queue[j] \in T THEN f[queue[j]] ELSE queue[j]]
    /\ tail' = 0
    /\ ret' = "ok"
    /\ UNCHANGED <<head, size>>

\* forEach(): the callback gets a reference to each queued item, oldest
\* first, and may assign through it.
ForEach(f) ==
    /\ queue' = [j \in 1 .. Len(queue) |->
                    IF \E i \in 0 .. size - 1 : Slot(i) = j
                    THEN f[queue[j]] ELSE queue[j]]
    /\ ret' = "ok"
    /\ UNCHANGED <<head, tail, size>>

Next ==
    \/ \E elem \in T : PutStore(elem) \/ PutFull(elem)
    \/ GetItem
    \/ GetEmpty
    \/ \E f \in [T -> T] : ForEach(f)

Spec == Init /\ [][Next]_vars

----------------------------------------------------------------------------
TypeOK ==
    /\ queue \in Seq(T \cup {MovedFrom})
    /\ Len(queue) <= Capacity
    /\ head \in 0 .. Capacity
    /\ tail \in 0 .. Capacity
    /\ size \in 0 .. Capacity
    /\ ret \in T \cup {"ok", "EBUSY", "EAGAIN"}

\* The ring: while the vector grows, tail_ .. head_ is the occupied part and
\* head_ is its end; once it has grown, head_ is size_ slots after tail_.
RingShape ==
    /\ Len(queue) < Capacity => head = Len(queue) /\ tail + size = head
    /\ Len(queue) = Capacity /\ Capacity > 0 =>
         /\ head < Capacity
         /\ tail < Capacity
         /\ head = (tail + size) % Capacity

\* No call ever leaves the bounds of the vector: queue_.at(head_) of put()
\* (bounded_queue.h:66), queue_.at(tail_++) of get() (:76) and queue_.at(idx)
\* of forEach() (:86) never throw std::out_of_range, and the assertion
\* tail_ <= head_ of a growing put() (:63) holds.
AccessInBounds ==
    /\ hasSpace /\ Len(queue) < Capacity => tail <= head
    /\ hasSpace /\ Len(queue) >= Capacity => head < Len(queue)
    /\ ~empty => tail < Len(queue)
    /\ \A i \in 0 .. size - 1 : Slot(i) <= Len(queue)

\* Every occupied slot holds an item that was put and not yet moved out, so
\* that neither get() nor a callback of forEach() ever sees a husk.
OccupiedSlotsHoldItems ==
    \A i \in 0 .. size - 1 : queue[Slot(i)] \in T

\* The inductive invariant of the ring.
RingInv ==
    /\ TypeOK
    /\ RingShape
    /\ OccupiedSlotsHoldItems

\* The queue the ring stands for.
Contents == [i \in 1 .. size |-> queue[Slot(i - 1)]]

F == INSTANCE Fifo WITH items <- Contents

\* The ring buffer implements the bounded first-in first-out queue: every
\* put(), get() and forEach() does to Contents what Fifo says, and reports
\* the same outcome.
ImplementsFifo == F!Spec
=============================================================================
