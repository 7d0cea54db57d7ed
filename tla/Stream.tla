------------------------------- MODULE Stream -------------------------------
(***************************************************************************)
(* StreamBase (src/uvco/stream.cc): read(), write(), shutdown() and        *)
(* close() of a TCP, Unix domain, pipe or terminal stream.                 *)
(*                                                                         *)
(* The stream and a reader know each other through three pointers: the     *)
(* handle's data leads the read callback to the awaiter, the awaiter holds *)
(* the coroutine, and reader_ lets close() resume that coroutine itself,   *)
(* without the run queue.  A write or shutdown request is owned by libuv   *)
(* until its callback; its data leads to the awaiter and is reset when the *)
(* call is dropped.  An awaiter's handle_ is set while the call is         *)
(* "suspended"; its callback clears it and sets status_ ("woken").         *)
(*                                                                         *)
(* A program makes one read at a time, none on a closed stream, and keeps  *)
(* the promise of a call that close() has finished while its coroutine is  *)
(* still in the run queue (unless "drop early" is in Relaxed).             *)
(***************************************************************************)
EXTENDS Component

CONSTANTS
    Reads, Writes, Shutdowns    \* the calls a program makes, each once

ASSUME StreamAssumption ==
    /\ Reads \cap Writes = {} /\ Reads \cap Shutdowns = {} /\ Writes \cap Shutdowns = {}
    /\ Null \notin Reads \cup Writes \cup Shutdowns

Calls == Reads \cup Writes \cup Shutdowns
Requests == Writes \cup Shutdowns

StreamInit ==
    /\ TurnInit
    /\ s = [is |-> "stream",
            open |-> TRUE,          \* stream_ is set
            uv |-> "open",          \* the libuv handle
            reading |-> FALSE,      \* between uv_read_start and uv_read_stop
            data |-> Null,          \* the handle's data: a read's awaiter
            reader |-> Null,        \* reader_
            writer |-> Null,        \* writer_
            call |-> [c \in Calls |-> "new"],
            req |-> [c \in Requests |-> "none"],    \* the request: "uv" while libuv has it
            link |-> [c \in Requests |-> FALSE]]    \* its data leads to the awaiter

IsStream == s.is = "stream"
MayCall(c) == IsStream /\ Running /\ s.open /\ s.call[c] = "new"

----------------------------------------------------------------------------
(* The ends of the calls, by return, exception or destruction              *)

\* ~InStreamAwaiter_ that leaves reader_
ReadLeavesReader(st, r, call) ==
    [st EXCEPT !.call[r] = call, !.reading = @ /\ ~st.open,
               !.data = IF st.open THEN Null ELSE @]

\* ~InStreamAwaiter_: reading stops and the handle forgets the awaiter.
ReadOver(st, r, call) ==
    [st EXCEPT !.call[r] = call, !.reading = @ /\ ~st.open,
               !.data = IF st.open THEN Null ELSE @, !.reader = Null]

\* OnExit resets the request's data if handle_ is set; ~OutStreamAwaiter_
WriteOver(st, w, call) ==
    [st EXCEPT !.call[w] = call, !.writer = Null,
               !.link[w] = @ /\ st.call[w] # "suspended"]

ShutdownOver(st, h, call) ==
    [st EXCEPT !.call[h] = call, !.link[h] = @ /\ st.call[h] # "suspended"]

\* The call c ends; c may be Null.
Over(st, c, call) ==
    CASE c \in Reads -> ReadOver(st, c, call)
      [] c \in Writes -> WriteOver(st, c, call)
      [] c \in Shutdowns -> ShutdownOver(st, c, call)
      [] OTHER -> st

----------------------------------------------------------------------------
(* Calls                                                                   *)

\* InStreamAwaiter_: await_ready's uv_read_start and uv_read_stop change nothing;
\* await_suspend registers and starts to read.
AwaitRead(st, r) ==
    [st EXCEPT !.call[r] = "suspended", !.data = r, !.reader = r, !.reading = TRUE]

\* OutStreamAwaiter_::await_suspend; a later write replaces writer_.
AwaitWrite(st, w) == [st EXCEPT !.call[w] = "suspended", !.writer = w]

\* read(): if uv_read_start fails the call throws.
Read(r, fails) ==
    /\ MayCall(r)
    /\ \A other \in Reads : s.call[other] \notin {"suspended", "woken"}
    /\ Becomes(resumable,
               IF fails THEN ReadOver(s, r, "done")
               ELSE AwaitRead(s, r))

\* write(): the request is libuv's.  If uv_write fails it is nobody's.
Write(w, fails) ==
    /\ MayCall(w)
    /\ Becomes(resumable,
               IF fails THEN WriteOver([s EXCEPT !.req[w] = "leaked"], w, "done")
               ELSE AwaitWrite([s EXCEPT !.req[w] = "uv", !.link[w] = TRUE], w))

\* shutdown(): what uv_shutdown returns is not looked at; if it is an error the
\* callback never comes.
Shutdown(h, fails) ==
    /\ MayCall(h)
    /\ Becomes(resumable, [s EXCEPT !.call[h] = "suspended", !.link[h] = TRUE,
                                    !.req[h] = IF fails THEN "leaked" ELSE "uv"])

\* The scheduler resumes a call whose callback has run; await_resume.
CallResumes(c) ==
    /\ IsStream /\ Resumed(c)
    /\ s.call[c] = "woken"
    /\ Becomes(Popped, Over(s, c, "done"))

\* The scheduler throws away a coroutine that has ended (handle.done()).
SkipDone(c) ==
    /\ IsStream /\ Resumed(c)
    /\ s.call[c] = "done"
    /\ Becomes(Popped, s)

\* The promise of a call is dropped.  A coroutine that has finished is not
\* cancelled in the run queue (promise_core.h:116).
DropCall(c) ==
    /\ IsStream /\ Running
    /\ s.call[c] \in {"suspended", "woken", "done"}
    /\ s.call[c] = "done" => "drop early" \in Relaxed \/ c \notin Queued(resumable)
    /\ IF s.call[c] = "done"
       THEN Becomes(resumable, [s EXCEPT !.call[c] = "gone"])
       ELSE Becomes(Dropped(c), Over(s, c, "gone"))

\* What close() resumes: the registered reader, then the registered writer
CloseResumes(st) == Over(Over(st, st.reader, "done"), st.writer, "done")

\* close(), ~StreamBase(): the handle is given up, and the reader and the writer
\* run to their ends within the call, even those that are in the run queue.
StreamClose ==
    /\ IsStream /\ Running
    /\ s.open
    /\ Becomes(resumable,
               CloseResumes([s EXCEPT !.open = FALSE, !.uv = "closing",
                                      !.reading = FALSE, !.data = Null]))

----------------------------------------------------------------------------
(* Callbacks                                                               *)

\* Data, end of file or an error: reading stops, the reader is woken.
onInStreamRead ==
    /\ IsStream /\ InUv
    /\ s.reading
    /\ Becomes(IF s.data = Null THEN resumable ELSE Readied(s.data),
               [s EXCEPT !.reading = FALSE, !.data = Null,
                         !.call = IF s.data = Null THEN @ ELSE [@ EXCEPT ![s.data] = "woken"]])

\* onOutStreamWrite, onShutdown, also with UV_ECANCELED once the handle closes
onRequestDone(c) ==
    /\ IsStream /\ InUv
    /\ s.req[c] = "uv"
    /\ IF s.link[c]
       THEN Becomes(Readied(c),
                    [s EXCEPT !.req[c] = "freed", !.link[c] = FALSE, !.call[c] = "woken"])
       ELSE Becomes(resumable, [s EXCEPT !.req[c] = "freed"])

\* libuv has cancelled the requests of a closing handle: onCloseCallback frees it.
onStreamClosed ==
    /\ IsStream /\ InUv
    /\ s.uv = "closing" /\ \A c \in Requests : s.req[c] # "uv"
    /\ Becomes(resumable, [s EXCEPT !.uv = "freed"])

StreamNext ==
    \/ \E r \in Reads, fails \in BOOLEAN : Read(r, fails)
    \/ \E w \in Writes, fails \in BOOLEAN : Write(w, fails)
    \/ \E h \in Shutdowns, fails \in BOOLEAN : Shutdown(h, fails)
    \/ \E c \in Calls : CallResumes(c) \/ SkipDone(c) \/ DropCall(c)
    \/ StreamClose
    \/ onInStreamRead \/ onStreamClosed
    \/ \E c \in Requests : onRequestDone(c)

\* A stream on a loop of its own
StreamSpec == StreamInit /\ [][StreamNext \/ TakeTurns]_vars

----------------------------------------------------------------------------
\* Every coroutine in the run queue is there once and its frame exists, also
\* when close() has run it to its end while it was queued (stream.cc:170-184,
\* scheduler.cc:67-70).
StreamQueueSound ==
    IsStream => QueueIsSound({c \in Calls : s.call[c] \in {"woken", "done"}})

\* A suspended call will be woken.  A reader is the one the handle's data leads
\* to, is being read for and is known to close(); a writer's or shutdown's
\* request is libuv's and leads back to it.  In particular nobody waits for good
\* on a closed stream.  (A shutdown that libuv refused is the exception.)
SuspendedIsServed ==
    IsStream =>
    \A c \in Calls : s.call[c] = "suspended" =>
        IF c \in Reads
        THEN s.open /\ s.reading /\ s.data = c /\ s.reader = c
        ELSE s.link[c] /\ (s.req[c] = "uv" \/ (c \in Shutdowns /\ s.req[c] = "leaked"))

\* A callback finds an awaiter that exists: getData() != nullptr in allocate and
\* onInStreamRead (stream.cc:241, 268), handle_ set in onOutStreamWrite (324), no
\* data left on a closing handle (close.cc:11), none of them dropped or finished.
StreamCallbackFindsAwaiter ==
    IsStream =>
    /\ s.reading => s.data # Null
    /\ s.data # Null => s.open /\ s.call[s.data] = "suspended"
    /\ \A c \in Requests : s.link[c] => s.call[c] = "suspended"

\* reader_ and writer_ are coroutines that close() may resume: suspended or
\* woken, never finished or destroyed.
CloseResumesLiving ==
    IsStream =>
    /\ s.reader # Null => s.call[s.reader] \in {"suspended", "woken"}
    /\ s.writer # Null => s.call[s.writer] \in {"suspended", "woken"}

\* The pointers between stream, requests, awaiters and coroutines agree, wherever
\* close(), callbacks and drops fall: nobody waits for good, and nobody is
\* resumed or written to who is gone.
StreamPointersAgree == SuspendedIsServed /\ StreamCallbackFindsAwaiter /\ CloseResumesLiving
=============================================================================
