----------------------------- MODULE Components -----------------------------
(***************************************************************************)
(* The components that are built on the runtime: a behaviour is one of any *)
(* of them.                                                                *)
(***************************************************************************)
EXTENDS Select, TaskSet, Stream, Udp, StreamServer, FsWatch, Timer, Curl

Init ==
    \/ SelectInit \/ TaskSetInit
    \/ StreamInit \/ UdpInit \/ ServerInit
    \/ WatchInit \/ TimerInit \/ CurlInit

\* The loop turns when the coroutines it has resumed have returned to it.
LoopTurns == (IsTaskSet => AddReturned) /\ TakeTurns

Next ==
    \/ SelectNext \/ TaskSetNext
    \/ StreamNext \/ UdpNext \/ ServerNext
    \/ WatchNext \/ TimerNext \/ CurlNext
    \/ LoopTurns

Spec == Init /\ [][Next]_vars

----------------------------------------------------------------------------
\* In every component, each coroutine in the run queue is there once and waits to
\* be resumed: no callback, close(), stop or destructor enqueues a coroutine that
\* was woken already, has ended or was destroyed, or leaves one behind in the
\* queue (scheduler.cc:34-79 resumes whatever it finds there).
OnlySuspendedAreQueued ==
    /\ TaskSetHandlesWait
    /\ StreamQueueSound /\ UdpQueueSound /\ ServerQueueSound
    /\ WatchQueueSound /\ TimerQueueSound /\ CurlQueueSound
=============================================================================
