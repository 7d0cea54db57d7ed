-------------------------------- MODULE Fifo --------------------------------
(***************************************************************************)
(* What BoundedQueue<T> (src/uvco/bounded_queue.h) promises its clients    *)
(* (channels, UDP receivers, file watchers): a first-in first-out queue of *)
(* at most Capacity items, whose operations report what happened through   *)
(* ret.  Nothing of the array, of head_, tail_ or of the modulo arithmetic *)
(* is visible here.                                                        *)
(***************************************************************************)
EXTENDS Naturals, Sequences

CONSTANTS T,         \* the items
          Capacity   \* the bound

VARIABLES items,     \* the queued items, oldest first
          ret        \* the outcome of the last operation

vars == <<items, ret>>

Init ==
    /\ items = <<>>
    /\ ret = "ok"

\* An item is accepted at the back, or refused because the queue is full.
Put(elem) ==
    \/ /\ Len(items) < Capacity
       /\ items' = Append(items, elem)
       /\ ret' = "ok"
    \/ /\ Len(items) >= Capacity
       /\ ret' = "EBUSY"
       /\ UNCHANGED items

\* The oldest item is handed out, or there is none.
Get ==
    \/ /\ items # <<>>
       /\ ret' = Head(items)
       /\ items' = Tail(items)
    \/ /\ items = <<>>
       /\ ret' = "EAGAIN"
       /\ UNCHANGED items

\* Every queued item, and nothing else, is replaced by its image under f.
ForEach(f) ==
    /\ items' = [i \in 1 .. Len(items) |-> f[items[i]]]
    /\ ret' = "ok"

Next ==
    \/ \E elem \in T : Put(elem)
    \/ Get
    \/ \E f \in [T -> T] : ForEach(f)

Spec == Init /\ [][Next]_vars
=============================================================================
