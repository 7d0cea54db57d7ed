------------------------------- MODULE Request -------------------------------
(***************************************************************************)
(* The one-shot requests that coroutines hand to libuv and wait for: file  *)
(* and directory operations (src/uvco/fs.cc), name resolution              *)
(* (src/uvco/name_resolution.cc), functions run on the thread pool         *)
(* (src/uvco/async_work.cc), and connecting over TCP (src/uvco/tcp.cc) and *)
(* Unix sockets (src/uvco/uds.cc), with closeHandle (src/uvco/close.h).    *)
(*                                                                         *)
(* Three parties share a request: the coroutine, which owns the awaiter    *)
(* that owns the request and may be dropped at any time; a worker thread,  *)
(* which performs it; and the loop, which calls back.  The request's data  *)
(* pointer leads from the request back to the awaiter.                     *)
(*                                                                         *)
(* The coroutine and the callbacks run on the loop's thread, one at a      *)
(* time; the worker's steps interleave with everything.                    *)
(***************************************************************************)
EXTENDS Naturals

CONSTANT Ops    \* calls a program makes, each once

VARIABLES
    kind,       \* what was called
    call,       \* where the coroutine is
    req,        \* the request object: who is to free it
    data,       \* whether its data pointer leads to the awaiter
    handle,     \* whether the awaiter's handle_ is set
    uv,         \* where libuv is with the request
    uses,       \* whether a worker is using memory of the coroutine
    sock        \* the socket of a connection attempt

vars == <<kind, call, req, data, handle, uv, uses, sock>>

PoolKinds == {"path", "buffer", "gai", "work"}
ConnectKinds == {"tcp", "uds"}
Kinds == PoolKinds \cup ConnectKinds \cup {"close"}

Init ==
    /\ kind = [o \in Ops |-> "none"]
    /\ call = [o \in Ops |-> "idle"]
    /\ req = [o \in Ops |-> "none"]
    /\ data = [o \in Ops |-> FALSE]
    /\ handle = [o \in Ops |-> FALSE]
    /\ uv = [o \in Ops |-> "idle"]
    /\ uses = [o \in Ops |-> FALSE]
    /\ sock = [o \in Ops |-> "none"]

Set(f, o, v) == [f EXCEPT ![o] = v]

\* The loop's thread is not in the middle of a destructor.
LoopFree == \A o \in Ops : call[o] # "dropping"

\* A request that is freed again is a double free; so is a socket closed again.
Free(o) == Set(req, o, IF req[o] = "freed" THEN "freed twice" ELSE "freed")

closeHandle(o) == Set(sock, o, IF sock[o] = "open" THEN "closing" ELSE "closed twice")

----------------------------------------------------------------------------
(* Starting an operation and suspending                                    *)

\* The awaiter is created with its request, the request submitted and the
\* coroutine suspended.  What uv_... returns is not looked at: if it is an
\* error the callback never comes (accepted is FALSE).
Submitted(o, k, accepted) ==
    /\ LoopFree
    /\ call[o] = "idle"
    /\ kind' = Set(kind, o, k)
    /\ call' = Set(call, o, "suspended")
    /\ req' = Set(req, o, "awaiter")
    /\ data' = Set(data, o, TRUE)
    /\ handle' = Set(handle, o, TRUE)
    /\ uv' = Set(uv, o, IF accepted THEN "queued" ELSE "idle")
    /\ UNCHANGED <<uses, sock>>

\* Directory::mkdir, rmdir, open, readAll, whose path libuv copies ("path"), and
\* read, where the worker fills a vector of the coroutine ("buffer").
DirectoryOp(o, k, accepted) == k \in {"path", "buffer"} /\ Submitted(o, k, accepted)

\* File::open and unlink; read and write, with the caller's buffer.
FileOp(o, k, accepted) == k \in {"path", "buffer"} /\ Submitted(o, k, accepted)

\* Resolver::gai
Gai(o, accepted) == Submitted(o, "gai", accepted)

\* innerSubmitWork
SubmitWork(o) == Submitted(o, "work", TRUE)

\* File::close and Directory::close: nobody waits for the request.
CloseFile(o) ==
    /\ LoopFree
    /\ call[o] = "idle"
    /\ kind' = Set(kind, o, "close")
    /\ call' = Set(call, o, "returned")
    /\ req' = Set(req, o, "callback")
    /\ uv' = Set(uv, o, "queued")
    /\ UNCHANGED <<data, handle, uses, sock>>

\* TcpClient::connect, UnixStreamClient::connect: onConnect is to free the
\* request.
Connect(o, k) ==
    /\ LoopFree
    /\ call[o] = "idle"
    /\ kind' = Set(kind, o, k)
    /\ call' = Set(call, o, "suspended")
    /\ req' = Set(req, o, "callback")
    /\ data' = Set(data, o, TRUE)
    /\ handle' = Set(handle, o, TRUE)
    /\ uv' = Set(uv, o, "connecting")
    /\ sock' = Set(sock, o, "open")
    /\ UNCHANGED uses

\* uv_tcp_connect or uv_pipe_connect2 fails: the request was released to a
\* callback that never comes.  The socket is closed (tcp: by ~ConnectAwaiter_),
\* unless uv_tcp_close_reset fails, too, which uvCloseReset only reports.
ConnectFails(o, k, closes) ==
    /\ LoopFree
    /\ call[o] = "idle"
    /\ k = "uds" => closes
    /\ kind' = Set(kind, o, k)
    /\ call' = Set(call, o, "threw")
    /\ req' = Set(req, o, "callback")
    /\ data' = Set(data, o, TRUE)
    /\ sock' = Set(sock, o, IF closes THEN "closing" ELSE "kept")
    /\ UNCHANGED <<handle, uv, uses>>

----------------------------------------------------------------------------
(* The worker threads                                                      *)

\* A worker takes the request out of the queue.
WorkerStart(o) ==
    /\ uv[o] = "queued"
    /\ uv' = Set(uv, o, "started")
    /\ UNCHANGED <<kind, call, req, data, handle, uses, sock>>

\* The worker performs it.  onDoWork reads the data pointer and, unless it is
\* null, runs awaiter->function_; a read or write uses the buffer.
DoWork(o) ==
    /\ uv[o] = "started"
    /\ uv' = Set(uv, o, "working")
    /\ uses' = Set(uses, o, kind[o] = "buffer" \/ (kind[o] = "work" /\ data[o]))
    /\ UNCHANGED <<kind, call, req, data, handle, sock>>

WorkerEnd(o) ==
    /\ uv[o] = "working"
    /\ uv' = Set(uv, o, "finished")
    /\ uses' = Set(uses, o, FALSE)
    /\ UNCHANGED <<kind, call, req, data, handle, sock>>

----------------------------------------------------------------------------
(* The loop's callbacks                                                    *)

\* The coroutine is put into the run queue.
Wake(o) ==
    /\ call' = Set(call, o, "ready")
    /\ UNCHANGED req

CalledBack(o, k, from) ==
    /\ LoopFree
    /\ kind[o] \in k
    /\ uv[o] \in from
    /\ uv' = Set(uv, o, "done")
    /\ UNCHANGED <<kind, uses, sock>>

\* onFileOpDone that deletes the request of every operation
onFileOpDoneDeletes(o) ==
    /\ CalledBack(o, {"path", "buffer"}, {"finished", "cancelled"})
    /\ req' = Free(o)
    /\ IF ~data[o] \/ uv[o] = "cancelled"
       THEN UNCHANGED <<call, data, handle>>
       ELSE /\ call' = Set(call, o, "ready")
            /\ handle' = Set(handle, o, FALSE)
            /\ UNCHANGED data

onFileOpDone(o) ==
    /\ CalledBack(o, {"path", "buffer"}, {"finished", "cancelled"})
    /\ IF ~data[o] \/ uv[o] = "cancelled"
       THEN /\ req' = Free(o)
            /\ UNCHANGED <<call, data, handle>>
       ELSE /\ Wake(o)
            /\ handle' = Set(handle, o, FALSE)
            /\ UNCHANGED data

\* onFileOpDone, or onDirectoryDtorDone, of a close: no awaiter.
onCloseDone(o) ==
    /\ CalledBack(o, {"close"}, {"finished"})
    /\ req' = Free(o)
    /\ UNCHANGED <<call, data, handle>>

\* onAddrinfo that looks at the status before the data pointer
onAddrinfoStatusFirst(o) ==
    /\ CalledBack(o, {"gai"}, {"finished", "cancelled"})
    /\ IF uv[o] = "cancelled"
       THEN UNCHANGED <<call, req, data, handle>>
       ELSE IF ~data[o]
            THEN req' = Free(o) /\ UNCHANGED <<call, data, handle>>
            ELSE Wake(o) /\ UNCHANGED <<data, handle>>

onAddrinfo(o) ==
    /\ CalledBack(o, {"gai"}, {"finished", "cancelled"})
    /\ IF ~data[o]
       THEN req' = Free(o) /\ UNCHANGED <<call, data, handle>>
       ELSE IF uv[o] = "cancelled"
            THEN UNCHANGED <<call, req, data, handle>>
            ELSE Wake(o) /\ UNCHANGED <<data, handle>>

onWorkDone(o) ==
    /\ CalledBack(o, {"work"}, {"finished", "cancelled"})
    /\ IF ~data[o]
       THEN req' = Free(o) /\ UNCHANGED <<call, data, handle>>
       ELSE Wake(o) /\ handle' = Set(handle, o, FALSE) /\ UNCHANGED data

\* onConnect, of a connection made or failed, or of one whose socket was
\* closed: the request is freed in any case.
onConnect(o) ==
    /\ CalledBack(o, ConnectKinds, {"connecting", "cancelled"})
    /\ req' = Free(o)
    /\ call' = IF data[o] /\ handle[o] THEN Set(call, o, "ready") ELSE call
    /\ handle' = IF data[o] THEN Set(handle, o, FALSE) ELSE handle
    /\ data' = IF kind[o] = "tcp" THEN Set(data, o, FALSE) ELSE data

\* onCloseCallback: the handle is freed, once its connect callback has run.
onCloseCallback(o) ==
    /\ LoopFree
    /\ sock[o] = "closing"
    /\ uv[o] \in {"idle", "done"}
    /\ sock' = Set(sock, o, "closed")
    /\ UNCHANGED <<kind, call, req, data, handle, uv, uses>>

----------------------------------------------------------------------------
(* The coroutine goes on, or is dropped                                    *)

\* await_resume of a file operation, lookup or function: the data pointer is
\* reset, and the awaiter, when the coroutine returns or throws, frees the
\* request.
Resume(o, end) ==
    /\ LoopFree
    /\ kind[o] \in PoolKinds
    /\ call[o] = "ready"
    /\ call' = Set(call, o, end)
    /\ data' = Set(data, o, FALSE)
    /\ req' = Free(o)
    /\ UNCHANGED <<kind, handle, uv, uses, sock>>

\* await_resume of a connection attempt that closes the socket of a failed one
\* and leaves it to ~ConnectAwaiter_ too
ResumeConnectClosesTwice(o, end) ==
    /\ LoopFree
    /\ kind[o] \in ConnectKinds
    /\ call[o] = "ready"
    /\ call' = Set(call, o, end)
    /\ sock' = IF end = "returned" THEN Set(sock, o, "stream") ELSE Set(sock, o, "closed twice")
    /\ UNCHANGED <<kind, req, data, handle, uv, uses>>

\* await_resume of a connection attempt: the socket moves into the stream that
\* is returned, or is closed before the error is thrown.
ResumeConnect(o, end) ==
    /\ LoopFree
    /\ kind[o] \in ConnectKinds
    /\ call[o] = "ready"
    /\ call' = Set(call, o, end)
    /\ sock' = IF end = "returned" THEN Set(sock, o, "stream") ELSE closeHandle(o)
    /\ UNCHANGED <<kind, req, data, handle, uv, uses>>

\* ~FileOpAwaiter_ and its like without resetRequestData
DropResetNot(o) ==
    /\ LoopFree
    /\ kind[o] \in PoolKinds
    /\ call[o] \in {"suspended", "ready"}
    /\ call' = Set(call, o, "dropping")
    /\ UNCHANGED <<kind, req, data, handle, uv, uses, sock>>

\* ~FileOpAwaiter_, ~AddrinfoAwaiter_, ~AsyncWorkAwaiter_, first half: the data
\* pointer is reset ...
DropReset(o) ==
    /\ LoopFree
    /\ kind[o] \in PoolKinds
    /\ call[o] \in {"suspended", "ready"}
    /\ data' = Set(data, o, FALSE)
    /\ call' = Set(call, o, "dropping")
    /\ UNCHANGED <<kind, req, handle, uv, uses, sock>>

\* the second half with req_.get() in place of req_.release()
DropCancelOwned(o) ==
    /\ call[o] = "dropping"
    /\ req' = Free(o)
    /\ uv' = IF uv[o] = "queued" THEN Set(uv, o, "cancelled") ELSE uv
    /\ call' = Set(call, o, "dropped")
    /\ UNCHANGED <<kind, data, handle, uses, sock>>

\* ... second half: the request is left to its callback, and cancelled if no
\* worker has it yet.
DropCancel(o) ==
    /\ call[o] = "dropping"
    /\ req' = Set(req, o, "callback")
    /\ uv' = IF uv[o] = "queued" THEN Set(uv, o, "cancelled") ELSE uv
    /\ call' = Set(call, o, "dropped")
    /\ UNCHANGED <<kind, data, handle, uses, sock>>

\* connect() is dropped: OnExit resets the data pointer if onConnect is still
\* to come, ~ConnectAwaiter_ closes the socket, which cancels the attempt.
DropConnect(o) ==
    /\ LoopFree
    /\ kind[o] \in ConnectKinds
    /\ call[o] \in {"suspended", "ready"}
    /\ data' = IF handle[o] THEN Set(data, o, FALSE) ELSE data
    /\ sock' = closeHandle(o)
    /\ uv' = IF uv[o] = "connecting" THEN Set(uv, o, "cancelled") ELSE uv
    /\ call' = Set(call, o, "dropped")
    /\ UNCHANGED <<kind, req, handle, uses>>

----------------------------------------------------------------------------
Start(o) ==
    \/ \E accepted \in BOOLEAN, k \in {"path", "buffer"} :
         DirectoryOp(o, k, accepted) \/ FileOp(o, k, accepted)
    \/ \E accepted \in BOOLEAN : Gai(o, accepted)
    \/ SubmitWork(o)
    \/ CloseFile(o)
    \/ \E k \in ConnectKinds : Connect(o, k)
    \/ \E k \in ConnectKinds, closes \in BOOLEAN : ConnectFails(o, k, closes)

Worker(o) == WorkerStart(o) \/ DoWork(o) \/ WorkerEnd(o)

LoopCallback(o) ==
    \/ onFileOpDone(o)
    \/ onCloseDone(o)
    \/ onAddrinfo(o)
    \/ onWorkDone(o)
    \/ onConnect(o)
    \/ onCloseCallback(o)

Resumption(o) ==
    \E end \in {"returned", "threw"} : Resume(o, end) \/ ResumeConnect(o, end)

Drop(o) == DropReset(o) \/ DropConnect(o)

Terminated ==
    /\ \A o \in Ops : call[o] \notin {"idle", "ready", "dropping"}
    /\ \A o \in Ops : uv[o] \in {"idle", "done"} /\ sock[o] # "closing"
    /\ UNCHANGED vars

Next ==
    \/ \E o \in Ops : Start(o) \/ Worker(o) \/ LoopCallback(o) \/ Resumption(o)
    \/ \E o \in Ops : Drop(o) \/ DropCancel(o)
    \/ Terminated

Spec == Init /\ [][Next]_vars

\* Workers finish what they took, the loop delivers and resumes what is ready,
\* a destructor that was begun ends, and an attempt to connect succeeds or
\* fails at last.
FairSpec ==
    /\ Spec
    /\ \A o \in Ops : WF_vars(Worker(o)) /\ WF_vars(LoopCallback(o))
    /\ \A o \in Ops : WF_vars(Resumption(o)) /\ WF_vars(DropCancel(o))

----------------------------------------------------------------------------
\* In particular no request is freed twice.
TypeOK ==
    /\ kind \in [Ops -> Kinds \cup {"none"}]
    /\ call \in [Ops -> {"idle", "suspended", "ready", "dropping", "dropped", "returned", "threw"}]
    /\ req \in [Ops -> {"none", "awaiter", "callback", "freed"}]
    /\ data \in [Ops -> BOOLEAN]
    /\ handle \in [Ops -> BOOLEAN]
    /\ uv \in [Ops -> {"idle", "queued", "started", "working", "connecting",
                       "finished", "cancelled", "done"}]
    /\ uses \in [Ops -> BOOLEAN]
    /\ sock \in [Ops -> {"none", "open", "stream", "closing", "closed", "kept", "closed twice"}]

\* libuv has the request: a worker or a callback will still touch it.
Outstanding(o) == uv[o] \notin {"idle", "done"}

\* A callback that finds a data pointer finds the awaiter alive and its
\* coroutine suspended, whenever the promise is dropped (fs.cc:37, tcp.cc:164).
AwaiterAlive ==
    \A o \in Ops : Outstanding(o) /\ data[o] => call[o] = "suspended"

\* A request is not freed while libuv has it: awaiter and callback agree on
\* who frees it (fs.cc:57, name_resolution.cc:183).
RequestAlive ==
    \A o \in Ops : Outstanding(o) => req[o] \notin {"none", "freed"}

\* The socket of a connection attempt is never closed twice, nor after it has
\* become a stream's (tcp.cc:64 and :157, uds.cc:80 and :116).
SocketClosedOnce ==
    \A o \in Ops : sock[o] # "closed twice"

\* It is closed, or part of a stream, once an attempt that libuv accepted is over
\* (one that libuv refuses may keep its socket: see ConnectFails).
SocketNotLeaked ==
    \A o \in Ops :
        uv[o] \in {"connecting", "cancelled", "done"} /\ kind[o] \in ConnectKinds
            /\ call[o] \in {"dropped", "returned", "threw"}
            ~> sock[o] \in {"stream", "closed"}

\* A call that libuv has accepted does not stay suspended.
SuspendedEnds ==
    \A o \in Ops : call[o] = "suspended" /\ Outstanding(o) ~> call[o] # "suspended"

\* A request whose coroutine is dropped while libuv has it is freed in the end.
DroppedIsFreed ==
    \A o \in Ops : call[o] = "dropped" /\ Outstanding(o) ~> req[o] = "freed"

\* Whatever libuv has accepted comes to an end: its call is resumed or was
\* dropped, its request freed, its socket closed or handed on (fs.cc:36-46,
\* name_resolution.cc:247-265, tcp.cc:155-170).
RequestsSettle == SuspendedEnds /\ DroppedIsFreed /\ SocketNotLeaked

\* A worker uses memory of the coroutine (function_ of the awaiter, or the
\* buffer) only while the coroutine exists (async_work.cc:45).
WorkerMemoryAlive ==
    \A o \in Ops : uses[o] => call[o] \in {"suspended", "dropping"}
=============================================================================
