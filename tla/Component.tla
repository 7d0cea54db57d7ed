------------------------------ MODULE Component ------------------------------
(***************************************************************************)
(* The common frame of the modules that model one I/O class of the library *)
(* each: the component's objects, its coroutines and its libuv callbacks   *)
(* are a record s, whose field "is" names the component, and every step is *)
(* a coroutine's segment or a callback that changes s and the run queue.   *)
(***************************************************************************)
EXTENDS Turns

\* What a program is allowed to do beyond what the components support; the
\* modules say which relaxations they know.
CONSTANT Relaxed

VARIABLE s

vars == <<turnVars, s>>

\* The component becomes state, and the run queue becomes queue.
Becomes(queue, state) ==
    /\ resumable' = queue
    /\ s' = state
    /\ UNCHANGED phase

\* Loop::enqueue(): the run queue once c is ready
Readied(c) == Enqueue(resumable, c)

\* a coroutine that is destroyed while it is in the run queue
DroppedNot(c) == resumable

\* Loop::cancel(), when the promise of c is dropped (PromiseCore::destroyCoroutine)
Dropped(c) == CancelAll(resumable, {c})

TakeTurns == Turn /\ UNCHANGED s
=============================================================================
