------------------------------- MODULE FsWatch -------------------------------
(***************************************************************************)
(* FsWatch (src/uvco/fs.cc): the generator watch() yields the events that  *)
(* libuv reports for a path.  Its awaiter buffers them, and the handle's   *)
(* data leads to the awaiter for as long as the generator exists.          *)
(* stopWatch() takes the generator away from its consumer, marks it,       *)
(* awaits it once and destroys it.                                         *)
(*                                                                         *)
(* A program closes an FsWatch ("it's still required to call close()",     *)
(* fs.h:127), and unless it is in Relaxed it does not while a generator    *)
(* exists ("close early").  libuv reports events and errors at any moment; *)
(* an error for which the buffer has no space throws through libuv's       *)
(* frames, and nothing is said of what comes after it.                     *)
(***************************************************************************)
EXTENDS Component

CONSTANTS
    Watches,        \* the calls of watch()
    MaxEvents,      \* bound: on the events libuv reports
    EventQueue      \* defaultCapacity of the buffer

ASSUME WatchAssumption ==
    Null \notin Watches /\ MaxEvents \in Nat /\ EventQueue \in Nat \ {0}

WatchInit ==
    /\ TurnInit
    /\ s = [is |-> "watch",
            open |-> TRUE,      \* uv_handle_ is set
            uv |-> "open",      \* the libuv handle
            data |-> Null,      \* the handle's data: a generator's awaiter
            watch |-> [u \in Watches |-> "new"],
            reading |-> FALSE,  \* the consumer, or stopWatch(), awaits the generator
            unread |-> FALSE,   \* an event was yielded that nobody has read
            stopped |-> FALSE,  \* stopped_ of the awaiter
            buf |-> <<>>,       \* events_ of the awaiter
            reported |-> 0,
            seen |-> <<>>,      \* the events yielded
            fault |-> "none"]   \* memory used that is gone, or a callback that threw

IsWatch == s.is = "watch" /\ s.fault = "none"
Watching(u) == s.watch[u] \in {"waiting", "woken", "yielded", "asked"}

\* ~ZeroAtExit that is forgotten
ZeroForgotten(st, u, how) ==
    [st EXCEPT !.watch[u] = how, !.buf = <<>>, !.reading = FALSE, !.unread = FALSE]

\* The generator ends: ZeroAtExit resets the handle's data, if there is a handle
\* or not; and with it a stopWatch() that awaits it.
WatchOver(st, u, how) ==
    [st EXCEPT !.watch[u] = how, !.buf = <<>>, !.reading = FALSE, !.unread = FALSE,
               !.data = Null,
               !.fault = IF st.uv = "freed" THEN "handle freed" ELSE @]

\* an event that stays in the buffer
EventKept(buf) == buf

\* events_.get()
EventTaken(buf) == Tail(buf)

\* FsWatchAwaiter_::await_resume and the loop of watch_(): an event is yielded;
\* a generator that was stopped ends, with what is in its buffer.
WatchAwaitResume(st, u) ==
    IF st.stopped THEN WatchOver(st, u, "done")
    ELSE [st EXCEPT !.watch[u] = "yielded", !.buf = EventTaken(@), !.seen = Append(@, Head(st.buf)),
                    !.reading = FALSE, !.unread = ~st.reading]

\* FsWatchAwaiter_::await_ready
WatchAwaitReady(st) == st.stopped \/ st.buf # <<>>

AwaitEvent(st, u) ==
    IF WatchAwaitReady(st) THEN WatchAwaitResume(st, u) ELSE [st EXCEPT !.watch[u] = "waiting"]

----------------------------------------------------------------------------
\* watch(): refused if a generator is running
Watch(u) ==
    /\ IsWatch /\ Running
    /\ s.open /\ s.watch[u] = "new"
    /\ Becomes(resumable,
               IF s.data # Null THEN [s EXCEPT !.watch[u] = "EBUSY"]
               ELSE AwaitEvent([s EXCEPT !.data = u, !.stopped = FALSE, !.buf = <<>>], u))

\* The generator is awaited: an event that was yielded is taken; otherwise, a
\* generator at a co_yield is enqueued.
Awaited(st, u) ==
    IF st.unread THEN [st EXCEPT !.unread = FALSE]
    ELSE [st EXCEPT !.reading = TRUE, !.watch[u] = IF @ = "yielded" THEN "asked" ELSE @]

\* What a step that wakes generator u does to the run queue
WokenQueue(st, u) ==
    IF s.watch[u] # st.watch[u] /\ st.watch[u] \in {"woken", "asked"}
    THEN Readied(u) ELSE resumable

AskEvent(u) ==
    /\ IsWatch /\ Running
    /\ Watching(u) /\ ~s.reading
    /\ Becomes(WokenQueue(Awaited(s, u), u), Awaited(s, u))

WatchResumes(u) ==
    /\ IsWatch /\ Resumed(u)
    /\ Becomes(Popped, IF s.watch[u] = "woken" THEN WatchAwaitResume(s, u) ELSE AwaitEvent(s, u))

DropWatch(u) ==
    /\ IsWatch /\ Running
    /\ Watching(u)
    /\ Becomes(Dropped(u), WatchOver(s, u, "gone"))

\* schedule(): a waiting generator is enqueued
Scheduled(st, u) == IF st.watch[u] = "waiting" THEN [st EXCEPT !.watch[u] = "woken"] ELSE st

\* stopWatch(), when no one else awaits the generator: an event that nobody has
\* read ends it, and the generator is destroyed at its co_yield.
StopWatch(u) ==
    /\ IsWatch /\ Running
    /\ s.data = u /\ ~s.reading
    /\ LET st == Awaited(Scheduled([s EXCEPT !.stopped = TRUE], u), u)
       IN  Becomes(WokenQueue(st, u), IF s.unread THEN WatchOver(st, u, "gone") ELSE st)

\* close()
WatchClose ==
    /\ IsWatch /\ Running
    /\ s.open
    /\ "close early" \in Relaxed \/ \A u \in Watches : ~Watching(u)
    /\ Becomes(resumable, [s EXCEPT !.open = FALSE, !.uv = "closing", !.data = Null])

----------------------------------------------------------------------------
\* addEvent() and addError(): when the buffer is full an event is dropped, but
\* an error is put all the same, and put() throws through libuv.
AddEvent(st, isError) ==
    IF Len(st.buf) < EventQueue THEN [st EXCEPT !.buf = Append(@, st.reported)]
    ELSE IF isError THEN [st EXCEPT !.fault = "callback threw"] ELSE st

\* Without a generator, what is reported is ignored.
onFsWatcherEvent(isError) ==
    /\ IsWatch /\ InUv
    /\ s.uv = "open"
    /\ s.reported < MaxEvents
    /\ LET u == s.data
           reported == [s EXCEPT !.reported = @ + 1]
       IN  IF u = Null THEN Becomes(resumable, reported)
           ELSE LET st == Scheduled(AddEvent(reported, isError), u)
                IN  Becomes(WokenQueue(st, u), st)

onWatchClosed ==
    /\ IsWatch /\ InUv
    /\ s.uv = "closing"
    /\ Becomes(resumable, [s EXCEPT !.uv = "freed"])

WatchNext ==
    \/ \E u \in Watches : Watch(u) \/ AskEvent(u) \/ WatchResumes(u) \/ DropWatch(u) \/ StopWatch(u)
    \/ WatchClose
    \/ \E isError \in BOOLEAN : onFsWatcherEvent(isError)
    \/ onWatchClosed

\* A watch on a loop of its own
WatchSpec == WatchInit /\ [][WatchNext \/ TakeTurns]_vars

----------------------------------------------------------------------------
\* Only suspended generators are in the run queue, each once.
WatchQueueSound ==
    IsWatch => QueueIsSound({u \in Watches : s.watch[u] \in {"woken", "asked"}})

\* A generator that waits is reached by the next event or by stopWatch(): the
\* data of the open handle leads to it, nothing is in its buffer, and it was not
\* told to stop.  One that was woken was not woken for nothing:
\* BOOST_ASSERT(stopped_ || !events_.empty()) (fs.cc:352).  And the data, which
\* watch() and ~FsWatch() test, leads to a generator exactly while there is one.
WatchServed ==
    IsWatch =>
    /\ \A u \in Watches : s.watch[u] = "waiting" => ~s.stopped /\ s.buf = <<>>
    /\ \A u \in Watches : s.watch[u] = "woken" => WatchAwaitReady(s)
    /\ \A u \in Watches : Watching(u) <=> s.data = u

\* Events are yielded in the order in which they were reported, each once, also when
\* some were dropped because the buffer was full, and across stopWatch() and a new
\* watch() (fs.cc:376-383, 442-444).
EventsInOrder ==
    IsWatch =>
    LET all == s.seen \o s.buf
    IN  \A i, j \in 1 .. Len(all) : i < j => all[i] < all[j]
=============================================================================
