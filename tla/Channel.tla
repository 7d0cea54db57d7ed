------------------------------- MODULE Channel -------------------------------
(***************************************************************************)
(* Channel<T> of src/uvco/channel.h: a bounded buffer with a waiter queue  *)
(* for readers and one for writers, used by coroutines of one loop.  A     *)
(* put() or get() that has to wait registers its handle and suspends; the  *)
(* operation that makes room (or provides an item) takes the oldest handle *)
(* out of the waiter queue and puts it into the scheduler's run queue, and *)
(* the woken coroutine goes on only when the scheduler gets to it.  A      *)
(* waiting put() or get() may be cancelled by dropping its promise, before *)
(* or after it was woken.  Nothing keeps a running coroutine from calling  *)
(* the channel while woken ones are still on their way, so what a call was *)
(* woken for may be gone when it runs.                                     *)
(*                                                                         *)
(* The buffer is the abstract queue that BoundedQueue implements; which    *)
(* item is at its front is settled there, here only their number matters.  *)
(* One round of getAll() is a get().                                       *)
(***************************************************************************)
EXTENDS Scheduler, FiniteSets

CONSTANTS
    Readers, Writers,   \* the coroutines that call get() / put()
    Capacity,           \* of the buffer
    MaxWaiters,         \* of each waiter queue
    MaxRunQueue         \* bound: no call is made on a longer run queue

ASSUME ChannelAssumption ==
    /\ {Capacity, MaxWaiters, MaxRunQueue} \subseteq Nat
    /\ Readers \cap Writers = {} /\ Null \notin Readers \cup Writers

VARIABLES
    items,          \* queue_.size()
    readWaiting,    \* read_waiting_: handles, nulled when cancelled
    writeWaiting,   \* write_waiting_
    resumable,      \* Scheduler::resumable_
    status,         \* of each coroutine's current call
    lostGets,       \* history: woken get()s dropped before they ran, up to
                    \* Capacity
    lostPuts        \* history: woken put()s, likewise

lost == <<lostGets, lostPuts>>

vars == <<items, readWaiting, writeWaiting, resumable, status, lost>>

Clients == Readers \cup Writers

Init ==
    /\ items = 0
    /\ readWaiting = <<>>
    /\ writeWaiting = <<>>
    /\ resumable = <<>>
    /\ status = [c \in Clients |-> "idle"]
    /\ lostGets = 0 /\ lostPuts = 0

hasSpace == items < Capacity

\* A running coroutine that is not inside a call of the channel may make one.
MayCall(c) ==
    /\ status[c] # "waiting"
    /\ Len(resumable) <= MaxRunQueue

----------------------------------------------------------------------------
(* The ends of put() and get(): the item moves, and the other side is woken *)

\* put() that wakes nobody
PutItemNoWake(queued) ==
    /\ items' = items + 1
    /\ resumable' = queued
    /\ UNCHANGED <<readWaiting, writeWaiting, lost>>

\* queue_.put() and awake_reader(): cancelled readers are skipped.
PutItem(queued) ==
    /\ items' = items + 1
    /\ readWaiting' = WithoutOldest(readWaiting)
    /\ resumable' = queued \o Oldest(readWaiting)
    /\ UNCHANGED <<writeWaiting, lost>>

\* queue_.get() and awake_writer()
GetItem(queued) ==
    /\ items' = items - 1
    /\ writeWaiting' = WithoutOldest(writeWaiting)
    /\ resumable' = queued \o Oldest(writeWaiting)
    /\ UNCHANGED <<readWaiting, lost>>

----------------------------------------------------------------------------
(* put()                                                                   *)

\* There is space: no suspension.
PutNow(c) ==
    /\ MayCall(c)
    /\ hasSpace
    /\ PutItem(resumable)
    /\ status' = [status EXCEPT ![c] = "idle"]

\* No space: ChannelAwaiter_::await_suspend registers the coroutine.
PutWait(c) ==
    /\ MayCall(c)
    /\ ~hasSpace
    /\ Len(writeWaiting) < MaxWaiters
    /\ writeWaiting' = Append(writeWaiting, c)
    /\ status' = [status EXCEPT ![c] = "waiting"]
    /\ UNCHANGED <<items, readWaiting, resumable, lost>>

\* No space, and the waiter queue has none either: await_suspend throws.
PutRefused(c) ==
    /\ MayCall(c)
    /\ ~hasSpace
    /\ Len(writeWaiting) >= MaxWaiters
    /\ status' = [status EXCEPT ![c] = "EBUSY"]
    /\ UNCHANGED <<items, readWaiting, writeWaiting, resumable, lost>>

\* The scheduler resumes a woken put().  The code relies on there being
\* space (BOOST_VERIFY); if there is none queue_.put() throws.
PutResume(c, i) ==
    /\ IsNext(resumable, i, {}) /\ resumable[i] = c
    /\ IF hasSpace
       THEN /\ PutItem(After(resumable, i))
            /\ status' = [status EXCEPT ![c] = "idle"]
       ELSE /\ resumable' = After(resumable, i)
            /\ status' = [status EXCEPT ![c] = "failed"]
            /\ UNCHANGED <<items, readWaiting, writeWaiting, lost>>

----------------------------------------------------------------------------
(* get(), and each round of getAll()                                       *)

GetNow(c) ==
    /\ MayCall(c)
    /\ items > 0
    /\ GetItem(resumable)
    /\ status' = [status EXCEPT ![c] = "idle"]

\* await_suspend that finds room in the waiter queue once too often / too rarely
GetWaitOffByOne(c) ==
    /\ MayCall(c)
    /\ items = 0
    /\ Len(readWaiting) <= MaxWaiters
    /\ readWaiting' = Append(readWaiting, c)
    /\ status' = [status EXCEPT ![c] = "waiting"]
    /\ UNCHANGED <<items, writeWaiting, resumable, lost>>

GetWait(c) ==
    /\ MayCall(c)
    /\ items = 0
    /\ Len(readWaiting) < MaxWaiters
    /\ readWaiting' = Append(readWaiting, c)
    /\ status' = [status EXCEPT ![c] = "waiting"]
    /\ UNCHANGED <<items, writeWaiting, resumable, lost>>

GetRefused(c) ==
    /\ MayCall(c)
    /\ items = 0
    /\ Len(readWaiting) >= MaxWaiters
    /\ status' = [status EXCEPT ![c] = "EBUSY"]
    /\ UNCHANGED <<items, readWaiting, writeWaiting, resumable, lost>>

\* The scheduler resumes a woken get(), which relies on there being an item.
GetResume(c, i) ==
    /\ IsNext(resumable, i, {}) /\ resumable[i] = c
    /\ IF items > 0
       THEN /\ GetItem(After(resumable, i))
            /\ status' = [status EXCEPT ![c] = "idle"]
       ELSE /\ resumable' = After(resumable, i)
            /\ status' = [status EXCEPT ![c] = "failed"]
            /\ UNCHANGED <<items, readWaiting, writeWaiting, lost>>

----------------------------------------------------------------------------
\* dropping a waiting call whose awaiter does not deregister itself
DropCallNoDeregister(c) ==
    /\ status[c] = "waiting"
    /\ resumable' = CancelAll(resumable, {c})
    /\ status' = [status EXCEPT ![c] = "idle"]
    /\ UNCHANGED <<items, readWaiting, writeWaiting, lost>>

\* n, or n + 1 if the wake-up of a coroutine c of the set H is being lost
Lost(n, c, H) ==
    IF c \in Queued(resumable) \cap H /\ n < Capacity THEN n + 1 ELSE n

\* The promise of a waiting call is dropped: its coroutine is cancelled in the
\* run queue, and ~ChannelAwaiter_ nulls its entry of the waiter queue, whose
\* place it keeps.  A call that had been woken takes its wake-up with it.
DropCall(c) ==
    /\ status[c] = "waiting"
    /\ resumable' = CancelAll(resumable, {c})
    /\ readWaiting' = CancelAll(readWaiting, {c})
    /\ writeWaiting' = CancelAll(writeWaiting, {c})
    /\ status' = [status EXCEPT ![c] = "idle"]
    /\ lostGets' = Lost(lostGets, c, Readers)
    /\ lostPuts' = Lost(lostPuts, c, Writers)
    /\ UNCHANGED items

\* The scheduler finds nothing but null entries, and pops them.
Drain ==
    /\ resumable # <<>>
    /\ NoNext(resumable, {})
    /\ resumable' = <<>>
    /\ UNCHANGED <<items, readWaiting, writeWaiting, status, lost>>

Next ==
    \/ \E c \in Writers : PutNow(c) \/ PutWait(c) \/ PutRefused(c)
    \/ \E c \in Readers : GetNow(c) \/ GetWait(c) \/ GetRefused(c)
    \/ \E c \in Writers, i \in 1 .. Len(resumable) : PutResume(c, i)
    \/ \E c \in Readers, i \in 1 .. Len(resumable) : GetResume(c, i)
    \/ \E c \in Clients : DropCall(c)
    \/ Drain

Spec == Init /\ [][Next]_vars

----------------------------------------------------------------------------
TypeOK ==
    /\ items \in 0 .. Capacity
    /\ readWaiting \in Seq(Readers \cup {Null}) /\ Len(readWaiting) <= MaxWaiters
    /\ writeWaiting \in Seq(Writers \cup {Null}) /\ Len(writeWaiting) <= MaxWaiters
    /\ resumable \in Seq(Clients \cup {Null})
    /\ status \in [Clients -> {"idle", "waiting", "EBUSY", "failed"}]
    /\ lostGets \in 0 .. Capacity /\ lostPuts \in 0 .. Capacity

\* Every handle the channel or the scheduler holds is that of a call that is
\* still waiting, and it is held exactly once: no call is resumed twice, none
\* after it was dropped, none is forgotten (channel.h:147-155).
HandlesAreWaiting ==
    LET all == readWaiting \o writeWaiting \o resumable
    IN  /\ NoDuplicates(all)
        /\ Queued(all) = {c \in Clients : status[c] = "waiting"}

\* With an item in the channel, a reader is left waiting only if for every item a
\* woken reader is on its way, or one was dropped on its way.
ReaderNotStranded ==
    items > 0 /\ Queued(readWaiting) # {} =>
        Cardinality(Queued(resumable) \cap Readers) + lostGets >= items

\* With space in the channel, a writer is left waiting only if for every free
\* place a woken writer is on its way, or one was dropped on its way.
WriterNotStranded ==
    hasSpace /\ Queued(writeWaiting) # {} =>
        Cardinality(Queued(resumable) \cap Writers) + lostPuts >= Capacity - items

\* "A reader waits while the channel is empty", "a writer waits while the channel
\* is full" (channel.h:28-33): nobody waits for what is there.  Every item and
\* every free place that came about while somebody waited has woken somebody
\* (channel.h:122-141), however the calls overtake each other; a call dropped
\* after it was woken strands one waiter at most, and nothing else does.
NobodyStranded == ReaderNotStranded /\ WriterNotStranded

\* A woken call finds what it was woken for: BOOST_VERIFY(queue_.hasSpace())
\* (channel.h:67) and BOOST_VERIFY(co_await awaiter) (channel.h:87) hold.
WokenCallSucceeds == \A c \in Clients : status[c] # "failed"
=============================================================================
