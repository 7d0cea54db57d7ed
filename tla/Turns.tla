-------------------------------- MODULE Turns --------------------------------
(***************************************************************************)
(* How coroutines and libuv's callbacks take turns on the one thread of a  *)
(* loop (src/uvco/loop/loop.cc, src/uvco/loop/scheduler.cc).  Loop::run    *)
(* alternates between uv_run, in which any number of callbacks enqueue     *)
(* coroutines without running them, and Scheduler::runAll, which resumes   *)
(* coroutines until the run queue is empty.  Between two coroutines of the *)
(* component at hand any other coroutine of the program may run and call   *)
(* the component, so that a step of the program is allowed throughout      *)
(* runAll.  A step is a coroutine's segment up to its next suspension, or  *)
(* a callback.                                                             *)
(***************************************************************************)
EXTENDS Scheduler

VARIABLES
    resumable,  \* Scheduler::resumable_
    phase       \* "run": in runAll;  "uv": in uv_run

turnVars == <<resumable, phase>>

TurnInit == resumable = <<>> /\ phase = "run"

\* Code of the program or of a coroutine may run; a callback may run.
Running == phase = "run"
InUv == phase = "uv"

\* The scheduler resumes coroutine c, and what remains of the run queue.
Resumed(c) == Running /\ Oldest(resumable) = <<c>>
Popped == WithoutOldest(resumable)

\* runAll finds nothing to resume, and uv_run is called.
UvRun ==
    /\ Running
    /\ NoNext(resumable, {})
    /\ resumable' = <<>>
    /\ phase' = "uv"

\* uv_run returns and runAll is called.
RunAll ==
    /\ InUv
    /\ phase' = "run"
    /\ UNCHANGED resumable

Turn == UvRun \/ RunAll

\* What is in the run queue is what may be resumed: only coroutines of the set
\* alive, each of them once.
QueueIsSound(alive) == NoDuplicates(resumable) /\ Queued(resumable) \subseteq alive
=============================================================================
