------------------------------ MODULE Scheduler ------------------------------
(***************************************************************************)
(* The run queue of src/uvco/loop/scheduler.cc: a deque of coroutine       *)
(* handles, resumable_.  Every component of the library that wakes a       *)
(* coroutine does it through these operations, so that the modules of the  *)
(* components share them.  A cancelled entry stays in the deque as Null    *)
(* until it is popped.                                                     *)
(***************************************************************************)
EXTENDS Naturals, Sequences

CONSTANT Null   \* nullptr

\* enqueue at the front
EnqueueFront(q, handle) == <<handle>> \o q

\* Scheduler::enqueue
Enqueue(q, handle) == Append(q, handle)

\* Scheduler::cancel, for every handle of a set: entries are nulled in place,
\* however often the handle was enqueued.
CancelAll(q, handles) ==
    [i \in 1 .. Len(q) |-> IF q[i] \in handles THEN Null ELSE q[i]]

\* getNextInner: position i of q is the one popped and returned, i.e. all
\* entries before it are null or done and are thrown away.
IsNext(q, i, done) ==
    /\ i \in 1 .. Len(q)
    /\ q[i] # Null /\ q[i] \notin done
    /\ \A j \in 1 .. i - 1 : q[j] = Null \/ q[j] \in done

\* getNextInner returns the noop coroutine, having emptied the deque.
NoNext(q, done) == \A i \in 1 .. Len(q) : q[i] = Null \/ q[i] \in done

\* What is left of the deque once position i has been popped.
After(q, i) == SubSeq(q, i + 1, Len(q))

\* Skipping null entries, the oldest handle of a queue, as a sequence of at
\* most one, and the queue without what was skipped and taken.
Oldest(q) == IF NoNext(q, {}) THEN <<>> ELSE <<q[CHOOSE i \in 1 .. Len(q) : IsNext(q, i, {})]>>
WithoutOldest(q) ==
    IF NoNext(q, {}) THEN <<>> ELSE After(q, CHOOSE i \in 1 .. Len(q) : IsNext(q, i, {}))

\* The handles waiting in the deque.
Queued(q) == {q[i] : i \in 1 .. Len(q)} \ {Null}

\* No handle waits in the deque twice.
NoDuplicates(q) ==
    \A i, j \in 1 .. Len(q) : i # j /\ q[i] = q[j] => q[i] = Null
=============================================================================
