---------------------------- MODULE RequestProofs ----------------------------
(***************************************************************************)
(* Theorems about Request for any set of operations: what the awaiter, the *)
(* worker and the callback may assume of each other at every step.         *)
(***************************************************************************)
EXTENDS Request, TLAPS

\* libuv has not called back, nor was the request cancelled.
Underway == {"idle", "queued", "started", "working", "finished"}

\* Nothing was called yet.
NotStarted(o) ==
    /\ kind[o] = "none" /\ call[o] = "idle" /\ req[o] = "none" /\ ~data[o] /\ ~handle[o]
    /\ uv[o] = "idle" /\ sock[o] = "none"

\* A request of the thread pool: the awaiter has it as long as the coroutine can be
\* resumed, then the callback, which finds no data pointer.
PoolProtocol(o) ==
    /\ kind[o] \in PoolKinds /\ sock[o] = "none"
    /\ \/ call[o] = "suspended" /\ req[o] = "awaiter" /\ data[o] /\ uv[o] \in Underway
       \/ call[o] = "ready" /\ req[o] = "awaiter" /\ data[o] /\ uv[o] = "done"
       \/ call[o] = "dropping" /\ req[o] = "awaiter" /\ ~data[o] /\ uv[o] \in Underway \cup {"done"}
       \/ /\ call[o] = "dropped" /\ req[o] = "callback" /\ ~data[o]
          /\ uv[o] \in (Underway \ {"queued"}) \cup {"cancelled", "done"}
       \/ call[o] = "dropped" /\ req[o] = "freed" /\ ~data[o] /\ uv[o] = "done"
       \/ call[o] \in {"returned", "threw"} /\ req[o] = "freed" /\ ~data[o] /\ uv[o] = "done"

\* A file that is closed: the callback has the request from the beginning.
CloseProtocol(o) ==
    /\ kind[o] = "close" /\ call[o] = "returned" /\ ~data[o] /\ sock[o] = "none"
    /\ \/ req[o] = "callback" /\ uv[o] \in Underway \ {"idle"}
       \/ req[o] = "freed" /\ uv[o] = "done"

\* An attempt to connect: the callback has the request, and the awaiter the socket
\* until it is closed or becomes the stream's.
ConnectProtocol(o) ==
    /\ kind[o] \in ConnectKinds
    /\ \/ /\ call[o] = "suspended" /\ req[o] = "callback" /\ data[o] /\ handle[o]
          /\ uv[o] = "connecting" /\ sock[o] = "open"
       \/ call[o] = "ready" /\ req[o] = "freed" /\ ~handle[o] /\ uv[o] = "done" /\ sock[o] = "open"
       \/ /\ call[o] = "dropped" /\ req[o] = "callback" /\ ~data[o]
          /\ uv[o] = "cancelled" /\ sock[o] = "closing"
       \/ call[o] = "returned" /\ req[o] = "freed" /\ uv[o] = "done" /\ sock[o] = "stream"
       \/ /\ call[o] \in {"dropped", "threw"} /\ req[o] = "freed" /\ uv[o] = "done"
          /\ sock[o] \in {"closing", "closed"}
       \/ /\ call[o] = "threw" /\ req[o] = "callback" /\ uv[o] = "idle"
          /\ sock[o] \in {"closing", "closed", "kept"}

OpInv(o) == NotStarted(o) \/ PoolProtocol(o) \/ CloseProtocol(o) \/ ConnectProtocol(o)

Protocol == \A o \in Ops : OpInv(o)

----------------------------------------------------------------------------
\* A step at one operation leaves the others alone.
Elsewhere(o) ==
    \A p \in Ops \ {o} :
        /\ kind'[p] = kind[p] /\ call'[p] = call[p] /\ req'[p] = req[p] /\ data'[p] = data[p]
        /\ handle'[p] = handle[p] /\ uv'[p] = uv[p] /\ sock'[p] = sock[p]

\* A step at o has to be looked at for o only.
LEMMA OthersKept ==
    ASSUME Protocol, NEW o \in Ops, Elsewhere(o), OpInv(o)'
    PROVE  Protocol'
<1>1. ASSUME NEW p \in Ops \ {o} PROVE OpInv(p)'
  BY <1>1 DEF Protocol, Elsewhere, OpInv, NotStarted, PoolProtocol, CloseProtocol, ConnectProtocol
<1> QED BY <1>1 DEF Protocol

USE DEF Set, Free, closeHandle, Kinds, PoolKinds, ConnectKinds, Underway

----------------------------------------------------------------------------
(* One lemma for each step                                                 *)

\* The awaiter hands its request to libuv, which may not take it.
LEMMA SubmittedKeeps ==
    ASSUME TypeOK, Protocol, NEW o \in Ops, NEW k \in PoolKinds, NEW accepted \in BOOLEAN,
           Submitted(o, k, accepted)
    PROVE  TypeOK' /\ Protocol'
<1>1. OpInv(o)
  BY DEF Protocol
<1>2. TypeOK' /\ Elsewhere(o)
  BY <1>1 DEF TypeOK, Elsewhere, Submitted, OpInv, NotStarted, PoolProtocol, CloseProtocol, ConnectProtocol
<1>3. OpInv(o)'
  BY <1>1 DEF TypeOK, Submitted, OpInv, NotStarted, PoolProtocol, CloseProtocol, ConnectProtocol
<1> QED BY <1>2, <1>3, OthersKept

\* A file or directory is closed and its request left to the callback.
LEMMA CloseFileKeeps ==
    ASSUME TypeOK, Protocol, NEW o \in Ops, CloseFile(o)
    PROVE  TypeOK' /\ Protocol'
<1>1. OpInv(o)
  BY DEF Protocol
<1>2. TypeOK' /\ Elsewhere(o)
  BY <1>1 DEF TypeOK, Elsewhere, CloseFile, OpInv, NotStarted, PoolProtocol, CloseProtocol, ConnectProtocol
<1>3. OpInv(o)'
  BY <1>1 DEF TypeOK, CloseFile, OpInv, NotStarted, PoolProtocol, CloseProtocol, ConnectProtocol
<1> QED BY <1>2, <1>3, OthersKept

\* An attempt to connect begins ...
LEMMA ConnectKeeps ==
    ASSUME TypeOK, Protocol, NEW o \in Ops, NEW k \in ConnectKinds, Connect(o, k)
    PROVE  TypeOK' /\ Protocol'
<1>1. OpInv(o)
  BY DEF Protocol
<1>2. TypeOK' /\ Elsewhere(o)
  BY <1>1 DEF TypeOK, Elsewhere, Connect, OpInv, NotStarted, PoolProtocol, CloseProtocol, ConnectProtocol
<1>3. OpInv(o)'
  BY <1>1 DEF TypeOK, Connect, OpInv, NotStarted, PoolProtocol, CloseProtocol, ConnectProtocol
<1> QED BY <1>2, <1>3, OthersKept

\* ... or is refused.
LEMMA ConnectFailsKeeps ==
    ASSUME TypeOK, Protocol, NEW o \in Ops, NEW k \in ConnectKinds, NEW closes \in BOOLEAN,
           ConnectFails(o, k, closes)
    PROVE  TypeOK' /\ Protocol'
<1>1. OpInv(o)
  BY DEF Protocol
<1>2. TypeOK' /\ Elsewhere(o)
  BY <1>1 DEF TypeOK, Elsewhere, ConnectFails, OpInv, NotStarted, PoolProtocol, CloseProtocol, ConnectProtocol
<1>3. OpInv(o)'
  BY <1>1 DEF TypeOK, ConnectFails, OpInv, NotStarted, PoolProtocol, CloseProtocol, ConnectProtocol
<1> QED BY <1>2, <1>3, OthersKept

\* A worker takes a request or is done with it ...
LEMMA WorkerKeeps ==
    ASSUME TypeOK, Protocol, NEW o \in Ops, WorkerStart(o) \/ WorkerEnd(o)
    PROVE  TypeOK' /\ Protocol'
<1>1. OpInv(o)
  BY DEF Protocol
<1>2. TypeOK' /\ Elsewhere(o)
  BY <1>1 DEF TypeOK, Elsewhere, WorkerStart, WorkerEnd, OpInv, NotStarted, PoolProtocol, CloseProtocol, ConnectProtocol
<1>3. OpInv(o)'
  BY <1>1 DEF TypeOK, WorkerStart, WorkerEnd, OpInv, NotStarted, PoolProtocol, CloseProtocol, ConnectProtocol
<1> QED BY <1>2, <1>3, OthersKept

\* ... and performs it.
LEMMA DoWorkKeeps ==
    ASSUME TypeOK, Protocol, NEW o \in Ops, DoWork(o)
    PROVE  TypeOK' /\ Protocol'
<1>1. OpInv(o)
  BY DEF Protocol
<1>2. TypeOK' /\ Elsewhere(o)
  BY <1>1 DEF TypeOK, Elsewhere, DoWork, OpInv, NotStarted, PoolProtocol, CloseProtocol, ConnectProtocol
<1>3. OpInv(o)'
  BY <1>1 DEF TypeOK, DoWork, OpInv, NotStarted, PoolProtocol, CloseProtocol, ConnectProtocol
<1> QED BY <1>2, <1>3, OthersKept

\* The callback of a pool request wakes a coroutine that still waits, or frees a
\* request that was left to it.
LEMMA PoolCallbackKeeps ==
    ASSUME TypeOK, Protocol, NEW o \in Ops, onFileOpDone(o) \/ onAddrinfo(o) \/ onWorkDone(o)
    PROVE  TypeOK' /\ Protocol'
<1>1. /\ PoolProtocol(o) /\ uv[o] \in {"finished", "cancelled"} /\ uv' = Set(uv, o, "done")
      /\ UNCHANGED <<kind, uses, sock>>
  BY DEF Protocol, onFileOpDone, onAddrinfo, onWorkDone, CalledBack,
         OpInv, NotStarted, PoolProtocol, CloseProtocol, ConnectProtocol
<1>2. CASE data[o]
  <2>1. call[o] = "suspended" /\ req[o] = "awaiter" /\ uv[o] = "finished"
    BY <1>1, <1>2 DEF PoolProtocol
  <2>2. /\ call' = Set(call, o, "ready") /\ UNCHANGED <<req, data>>
        /\ handle' = Set(handle, o, FALSE) \/ UNCHANGED handle
    BY <1>2, <2>1 DEF onFileOpDone, onAddrinfo, onWorkDone, Wake
  <2>3. TypeOK' /\ Elsewhere(o)
    BY <1>1, <2>2 DEF TypeOK, Elsewhere
  <2>4. OpInv(o)'
    BY <1>1, <1>2, <2>1, <2>2 DEF TypeOK, OpInv, PoolProtocol
  <2> QED BY <2>3, <2>4, OthersKept
<1>3. CASE ~data[o]
  <2>1. call[o] = "dropped" /\ req[o] = "callback"
    BY <1>1, <1>3 DEF PoolProtocol, onFileOpDone, onAddrinfo, onWorkDone, CalledBack, LoopFree
  <2>2. req' = Set(req, o, "freed") /\ UNCHANGED <<call, data, handle>>
    BY <1>3, <2>1 DEF onFileOpDone, onAddrinfo, onWorkDone
  <2>3. TypeOK' /\ Elsewhere(o)
    BY <1>1, <2>2 DEF TypeOK, Elsewhere
  <2>4. OpInv(o)'
    BY <1>1, <1>3, <2>1, <2>2 DEF TypeOK, OpInv, PoolProtocol
  <2> QED BY <2>3, <2>4, OthersKept
<1> QED BY <1>2, <1>3

\* The callback of a close frees its request.
LEMMA CloseDoneKeeps ==
    ASSUME TypeOK, Protocol, NEW o \in Ops, onCloseDone(o)
    PROVE  TypeOK' /\ Protocol'
<1>1. OpInv(o)
  BY DEF Protocol
<1>2. TypeOK' /\ Elsewhere(o)
  BY <1>1 DEF TypeOK, Elsewhere, onCloseDone, CalledBack, OpInv, NotStarted, PoolProtocol, CloseProtocol, ConnectProtocol
<1>3. OpInv(o)'
  BY <1>1 DEF TypeOK, onCloseDone, CalledBack, OpInv, NotStarted, PoolProtocol, CloseProtocol, ConnectProtocol
<1> QED BY <1>2, <1>3, OthersKept

\* onConnect frees its request and wakes the coroutine if there is one.
LEMMA ConnectedKeeps ==
    ASSUME TypeOK, Protocol, NEW o \in Ops, onConnect(o)
    PROVE  TypeOK' /\ Protocol'
<1>1. OpInv(o)
  BY DEF Protocol
<1>2. TypeOK' /\ Elsewhere(o)
  BY <1>1 DEF TypeOK, Elsewhere, onConnect, CalledBack, OpInv, NotStarted, PoolProtocol, CloseProtocol, ConnectProtocol
<1>3. OpInv(o)'
  BY <1>1 DEF TypeOK, onConnect, CalledBack, OpInv, NotStarted, PoolProtocol, CloseProtocol, ConnectProtocol
<1> QED BY <1>2, <1>3, OthersKept

\* The socket is gone when its close callback has run.
LEMMA SocketClosedKeeps ==
    ASSUME TypeOK, Protocol, NEW o \in Ops, onCloseCallback(o)
    PROVE  TypeOK' /\ Protocol'
<1>1. OpInv(o)
  BY DEF Protocol
<1>2. TypeOK' /\ Elsewhere(o)
  BY <1>1 DEF TypeOK, Elsewhere, onCloseCallback, OpInv, NotStarted, PoolProtocol, CloseProtocol, ConnectProtocol
<1>3. OpInv(o)'
  BY <1>1 DEF TypeOK, onCloseCallback, OpInv, NotStarted, PoolProtocol, CloseProtocol, ConnectProtocol
<1> QED BY <1>2, <1>3, OthersKept

\* The coroutine goes on and frees the request ...
LEMMA ResumeKeeps ==
    ASSUME TypeOK, Protocol, NEW o \in Ops, NEW end \in {"returned", "threw"}, Resume(o, end)
    PROVE  TypeOK' /\ Protocol'
<1>1. OpInv(o)
  BY DEF Protocol
<1>2. TypeOK' /\ Elsewhere(o)
  BY <1>1 DEF TypeOK, Elsewhere, Resume, OpInv, NotStarted, PoolProtocol, CloseProtocol, ConnectProtocol
<1>3. OpInv(o)'
  BY <1>1 DEF TypeOK, Resume, OpInv, NotStarted, PoolProtocol, CloseProtocol, ConnectProtocol
<1> QED BY <1>2, <1>3, OthersKept

\* ... or takes the socket.
LEMMA ResumeConnectKeeps ==
    ASSUME TypeOK, Protocol, NEW o \in Ops, NEW end \in {"returned", "threw"},
           ResumeConnect(o, end)
    PROVE  TypeOK' /\ Protocol'
<1>1. OpInv(o)
  BY DEF Protocol
<1>2. TypeOK' /\ Elsewhere(o)
  BY <1>1 DEF TypeOK, Elsewhere, ResumeConnect, OpInv, NotStarted, PoolProtocol, CloseProtocol, ConnectProtocol
<1>3. OpInv(o)'
  BY <1>1 DEF TypeOK, ResumeConnect, OpInv, NotStarted, PoolProtocol, CloseProtocol, ConnectProtocol
<1> QED BY <1>2, <1>3, OthersKept

\* The destructor resets the data pointer ...
LEMMA DropResetKeeps ==
    ASSUME TypeOK, Protocol, NEW o \in Ops, DropReset(o)
    PROVE  TypeOK' /\ Protocol'
<1>1. OpInv(o)
  BY DEF Protocol
<1>2. TypeOK' /\ Elsewhere(o)
  BY <1>1 DEF TypeOK, Elsewhere, DropReset, OpInv, NotStarted, PoolProtocol, CloseProtocol, ConnectProtocol
<1>3. OpInv(o)'
  BY <1>1 DEF TypeOK, DropReset, OpInv, NotStarted, PoolProtocol, CloseProtocol, ConnectProtocol
<1> QED BY <1>2, <1>3, OthersKept

\* ... and gives the request away.
LEMMA DropCancelKeeps ==
    ASSUME TypeOK, Protocol, NEW o \in Ops, DropCancel(o)
    PROVE  TypeOK' /\ Protocol'
<1>1. OpInv(o)
  BY DEF Protocol
<1>2. TypeOK' /\ Elsewhere(o)
  BY <1>1 DEF TypeOK, Elsewhere, DropCancel, OpInv, NotStarted, PoolProtocol, CloseProtocol, ConnectProtocol
<1>3. OpInv(o)'
  BY <1>1 DEF TypeOK, DropCancel, OpInv, NotStarted, PoolProtocol, CloseProtocol, ConnectProtocol
<1> QED BY <1>2, <1>3, OthersKept

\* A dropped attempt closes its socket.
LEMMA DropConnectKeeps ==
    ASSUME TypeOK, Protocol, NEW o \in Ops, DropConnect(o)
    PROVE  TypeOK' /\ Protocol'
<1>1. OpInv(o)
  BY DEF Protocol
<1>2. TypeOK' /\ Elsewhere(o)
  BY <1>1 DEF TypeOK, Elsewhere, DropConnect, OpInv, NotStarted, PoolProtocol, CloseProtocol, ConnectProtocol
<1>3. OpInv(o)'
  BY <1>1 DEF TypeOK, DropConnect, OpInv, NotStarted, PoolProtocol, CloseProtocol, ConnectProtocol
<1> QED BY <1>2, <1>3, OthersKept

----------------------------------------------------------------------------
LEMMA ProtocolInit == Init => TypeOK /\ Protocol
BY DEF Init, TypeOK, Protocol, OpInv, NotStarted

LEMMA ProtocolInductive == TypeOK /\ Protocol /\ [Next]_vars => TypeOK' /\ Protocol'
<1> SUFFICES ASSUME TypeOK, Protocol, [Next]_vars PROVE TypeOK' /\ Protocol'
  OBVIOUS
<1>1. CASE Terminated \/ UNCHANGED vars
  <2>1. UNCHANGED vars
    BY <1>1 DEF Terminated
  <2>2. TypeOK'
    BY <2>1 DEF vars, TypeOK
  <2>3. ASSUME NEW o \in Ops PROVE OpInv(o)'
    BY <2>1 DEF vars, Protocol, OpInv, NotStarted, PoolProtocol, CloseProtocol, ConnectProtocol
  <2> QED BY <2>2, <2>3 DEF Protocol
<1>2. ASSUME NEW o \in Ops, Start(o) PROVE TypeOK' /\ Protocol'
  BY <1>2, SubmittedKeeps, CloseFileKeeps, ConnectKeeps, ConnectFailsKeeps
     DEF Start, DirectoryOp, FileOp, Gai, SubmitWork
<1>3. ASSUME NEW o \in Ops, Worker(o) PROVE TypeOK' /\ Protocol'
  BY <1>3, WorkerKeeps, DoWorkKeeps DEF Worker
<1>4. ASSUME NEW o \in Ops, LoopCallback(o) PROVE TypeOK' /\ Protocol'
  BY <1>4, PoolCallbackKeeps, CloseDoneKeeps, ConnectedKeeps, SocketClosedKeeps DEF LoopCallback
<1>5. ASSUME NEW o \in Ops, Resumption(o) PROVE TypeOK' /\ Protocol'
  BY <1>5, ResumeKeeps, ResumeConnectKeeps DEF Resumption
<1>6. ASSUME NEW o \in Ops, Drop(o) \/ DropCancel(o) PROVE TypeOK' /\ Protocol'
  BY <1>6, DropResetKeeps, DropCancelKeeps, DropConnectKeeps DEF Drop
<1> QED BY <1>1, <1>2, <1>3, <1>4, <1>5, <1>6 DEF Next

(* Every request is in one of the states the code distinguishes; in         *)
(* particular none is freed twice, whatever a worker does while its         *)
(* coroutine is dropped.                                                    *)
THEOREM RequestTypes == Spec => []TypeOK
BY ProtocolInit, ProtocolInductive, PTL DEF Spec

(* A callback that finds a data pointer finds the coroutine suspended: the  *)
(* awaiter it leads to is alive, for any number of calls dropped at any     *)
(* moment.                                                                  *)
THEOREM CallbacksFindAwaiters == Spec => []AwaiterAlive
<1>1. ASSUME NEW o \in Ops, OpInv(o), Outstanding(o), data[o] PROVE call[o] = "suspended"
  BY <1>1 DEF Outstanding, OpInv, NotStarted, PoolProtocol, CloseProtocol, ConnectProtocol
<1>2. Protocol => AwaiterAlive
  BY <1>1 DEF AwaiterAlive, Protocol
<1> QED BY <1>2, ProtocolInit, ProtocolInductive, PTL DEF Spec

(* While libuv has a request nobody has freed it: awaiter and callback      *)
(* agree on who is to.                                                      *)
THEOREM RequestsOutliveLibuv == Spec => []RequestAlive
<1>1. Protocol => RequestAlive
  BY DEF RequestAlive, Outstanding, Protocol, OpInv, NotStarted, PoolProtocol, CloseProtocol,
         ConnectProtocol
<1> QED BY <1>1, ProtocolInit, ProtocolInductive, PTL DEF Spec

(* The socket of a connection attempt is closed at most once, and not after *)
(* it has become a stream's.                                                *)
THEOREM SocketsClosedOnce == Spec => []SocketClosedOnce
<1>1. Protocol => SocketClosedOnce
  BY DEF SocketClosedOnce, Protocol, OpInv, NotStarted, PoolProtocol, CloseProtocol, ConnectProtocol
<1> QED BY <1>1, ProtocolInit, ProtocolInductive, PTL DEF Spec
=============================================================================
