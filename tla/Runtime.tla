------------------------------- MODULE Runtime -------------------------------
(***************************************************************************)
(* The core of uvco: coroutines and the promises they return               *)
(* (src/uvco/promise/promise.h, promise_core.h and their .cc files), the   *)
(* scheduler's run queue (src/uvco/loop/scheduler.cc) and the turns of the *)
(* event loop (src/uvco/loop/loop.cc), driven by runMain (src/uvco/run.h). *)
(*                                                                         *)
(* The programs are arbitrary: whichever coroutine runs may call a new     *)
(* coroutine (which starts eagerly, on its caller's native stack),         *)
(* co_await a promise, yield(), start an I/O operation and wait for it,    *)
(* drop a promise, return or throw.  A coroutine's frame and its           *)
(* PromiseCore are one object here, as they are in the code.               *)
(*                                                                         *)
(* Two constants state what the programs may do.  BorrowedAwait: pass a    *)
(* promise by reference to a coroutine that then awaits it.  DropOnStack:  *)
(* drop a promise whose coroutine, or one that it owns, is in the middle   *)
(* of a call on the native stack.                                          *)
(***************************************************************************)
EXTENDS Scheduler

CONSTANTS
    Coro,                  \* the coroutine frames, each is started once
    Main,                  \* the coroutine that runMain starts
    Void,                  \* the coroutines that return Promise<void>
    useSymmetricHandoff,   \* the compile-time switch of scheduler.cc
    BorrowedAwait,
    DropOnStack

ASSUME CoroAssumption == Main \in Coro /\ Void \subseteq Coro /\ Null \notin Coro
ASSUME SwitchAssumption ==
    {useSymmetricHandoff, BorrowedAwait, DropOnStack} \subseteq BOOLEAN
ASSUME NameAssumption == {"yield", "io", "runMain"} \cap (Coro \cup {Null}) = {}

VARIABLES
    frame,      \* per coroutine: where its frame is in its life
    owner,      \* who holds its Promise: a frame, or runMain
    params,     \* promises held in a parameter of the owner, not in a local
    refs,       \* promises a coroutine was given a reference to
    state,      \* PromiseCore::state_
    waiting,    \* PromiseCore::waitingHandle_
    slot,       \* PromiseCore::slot (ready_ and exception_ for void)
    awaits,     \* what a suspended coroutine's co_await is for
    pending,    \* coroutines with an I/O operation that libuv has not completed
    resumable,  \* Scheduler::resumable_
    stack,      \* native stack: coroutines being executed, last one runs
    phase,      \* where Loop::run() and runMain() are
    stopped,    \* Loop::stopped_
    stopFlag,   \* libuv's stop_flag, set by uv_stop()
    called      \* whether this uv_run() has run a callback

coreVars == <<state, waiting, slot>>
frameVars == <<frame, owner, params, refs>>
loopVars == <<stopped, stopFlag>>
vars == <<frame, owner, params, refs, state, waiting, slot, awaits, pending,
          resumable, stack, phase, stopped, stopFlag, called>>

Live(c) == frame[c] \in {"onstack", "suspended", "final"}

\* handle.done(): the coroutine is at its final suspension point.
Done == {c \in Coro : frame[c] = "final"}

Running(c) == stack # <<>> /\ c = stack[Len(stack)]

\* Control returns to whoever resumed the coroutine on top of the stack.
Pop == SubSeq(stack, 1, Len(stack) - 1)

\* runMain: the loop is constructed and main is called, eagerly.
Init ==
    /\ frame = [c \in Coro |-> IF c = Main THEN "onstack" ELSE "unborn"]
    /\ owner = [c \in Coro |-> IF c = Main THEN "runMain" ELSE Null]
    /\ params = {}
    /\ refs = [c \in Coro |-> {}]
    /\ state = [c \in Coro |-> "init"]
    /\ waiting = [c \in Coro |-> Null]
    /\ slot = [c \in Coro |-> "none"]
    /\ awaits = [c \in Coro |-> Null]
    /\ pending = {}
    /\ resumable = <<>>
    /\ stack = <<Main>>
    /\ phase = "main"
    /\ stopped = FALSE
    /\ stopFlag = FALSE
    /\ called = FALSE

----------------------------------------------------------------------------
(* Loop::enqueue and the destruction of frames                             *)

\* Loop::enqueue: push, and make uv_run() return soon unless that was asked
\* for already in this turn.
LoopEnqueue(handle) ==
    /\ resumable' = Enqueue(resumable, handle)
    /\ stopFlag' = (stopFlag \/ ~stopped)
    /\ stopped' = TRUE

\* D is what goes when the promises roots are destroyed: destroying a frame
\* destroys the promises held in it, and so on down.
IsForest(D, roots) ==
    /\ roots \subseteq D
    /\ \A x \in Coro : Live(x) /\ owner[x] \in D => x \in D
    /\ \A x \in D : x \in roots \/ (Live(x) /\ owner[x] \in D)

\* destroyCoroutine that does not cancel the coroutine's wake-up
CancelledNone(D) == {}

\* Of these, PromiseCore::destroyCoroutine also cancels the wake-up.
Cancelled(D) == {d \in D : state[d] # "finished"}

Destroyed(D) == [c \in Coro |-> IF c \in D THEN "destroyed" ELSE frame[c]]

\* A coroutine that is executing cannot be destroyed safely.
MayDestroy(D) == DropOnStack \/ \A d \in D : frame[d] # "onstack"

----------------------------------------------------------------------------
(* Resumption                                                              *)

\* await_resume that moves the result out but leaves the slot engaged
TakenNoReset(p) == [slot EXCEPT ![p] = "moved"]

\* await_resume of a Promise: the result moves out of the slot, except that
\* a Promise<void> keeps its exception.
Taken(p) ==
    [slot EXCEPT ![p] = IF p \in Void /\ @ = "exc" THEN "exc" ELSE "none"]

\* Coroutine c is taken from the run queue at position i and goes on from its
\* co_await, below whatever is on the native stack already (below).
ResumeAt(i, c, below) ==
    /\ IsNext(resumable, i, Done)
    /\ c = resumable[i]
    /\ resumable' = After(resumable, i)
    /\ stack' = Append(below, c)
    /\ slot' = IF awaits[c] \in Coro THEN Taken(awaits[c]) ELSE slot

----------------------------------------------------------------------------
(* What the running coroutine may do                                       *)

\* The promises in the locals and parameters of a frame.
Held(r) == {p \in Coro : Live(p) /\ owner[p] = r}

\* Calling a coroutine function: its frame is created, promises may be moved
\* into its parameters or passed by reference (as next(), waitAny() and
\* waitAll() do), and it runs at once (initial_suspend is suspend_never)
\* until its first suspension.
Call(r, c, moved, lent) ==
    /\ Running(r)
    /\ frame[c] = "unborn"
    /\ moved \subseteq Held(r)
    /\ lent \subseteq (Held(r) \ moved) \cup refs[r]
    /\ frame' = [frame EXCEPT ![c] = "onstack"]
    /\ owner' = [p \in Coro |-> IF p = c THEN r
                                ELSE IF p \in moved THEN c ELSE owner[p]]
    /\ params' = params \cup moved
    /\ refs' = [refs EXCEPT ![c] = lent]
    /\ stack' = Append(stack, c)
    /\ UNCHANGED <<coreVars, awaits, pending, resumable, phase, loopVars, called>>

\* A coroutine awaits a promise it holds, or has a reference to.
MayAwait(r, p) ==
    /\ Live(p)
    /\ owner[p] = r \/ p \in refs[r]

\* co_await of a promise that is ready: no suspension, the result is taken.
AwaitReady(r, p) ==
    /\ Running(r)
    /\ MayAwait(r, p)
    /\ slot[p] # "none"
    /\ slot' = Taken(p)
    /\ UNCHANGED <<frameVars, state, waiting, awaits, pending, resumable,
                   stack, phase, loopVars, called>>

\* co_await of an unfinished promise: setHandle, then await_suspend returns
\* the next ready coroutine, which runs in r's place on the native stack.
\* (On a promise that is awaited or stale setHandle throws into r instead:
\* nothing changes.)
AwaitHandOff(r, p, i, c) ==
    /\ useSymmetricHandoff
    /\ Running(r)
    /\ MayAwait(r, p)
    /\ slot[p] = "none" /\ state[p] = "init"
    /\ waiting' = [waiting EXCEPT ![p] = r]
    /\ state' = [state EXCEPT ![p] = "waitedOn"]
    /\ ResumeAt(i, c, Pop)
    /\ awaits' = [awaits EXCEPT ![r] = p, ![c] = Null]
    /\ frame' = [frame EXCEPT ![r] = "suspended", ![c] = "onstack"]
    /\ UNCHANGED <<owner, params, refs, pending, phase, loopVars, called>>

\* The same with nobody ready, or without hand-off: control goes back to the
\* resumer.
AwaitReturn(r, p) ==
    /\ Running(r)
    /\ MayAwait(r, p)
    /\ slot[p] = "none" /\ state[p] = "init"
    /\ waiting' = [waiting EXCEPT ![p] = r]
    /\ state' = [state EXCEPT ![p] = "waitedOn"]
    /\ useSymmetricHandoff => NoNext(resumable, Done)
    /\ resumable' = IF useSymmetricHandoff THEN <<>> ELSE resumable
    /\ awaits' = [awaits EXCEPT ![r] = p]
    /\ frame' = [frame EXCEPT ![r] = "suspended"]
    /\ stack' = Pop
    /\ UNCHANGED <<owner, params, refs, slot, pending, phase, loopVars, called>>

\* co_await YieldAwaiter_: enqueue oneself and return to the resumer.
Yield(r) ==
    /\ Running(r)
    /\ LoopEnqueue(r)
    /\ awaits' = [awaits EXCEPT ![r] = "yield"]
    /\ frame' = [frame EXCEPT ![r] = "suspended"]
    /\ stack' = Pop
    /\ UNCHANGED <<owner, params, refs, coreVars, pending, phase, called>>

\* co_await of an I/O operation: libuv will call back, return to the resumer.
AwaitIo(r) ==
    /\ Running(r)
    /\ pending' = pending \cup {r}
    /\ awaits' = [awaits EXCEPT ![r] = "io"]
    /\ frame' = [frame EXCEPT ![r] = "suspended"]
    /\ stack' = Pop
    /\ UNCHANGED <<owner, params, refs, coreVars, resumable, phase, loopVars, called>>

\* resume() that marks the promise finished but forgets its waiter
WokenLost(r) == resumable

\* PromiseCore::resume(): the run queue with the waiter, if any, enqueued.
Woken(r) ==
    IF waiting[r] = Null THEN resumable ELSE Enqueue(resumable, waiting[r])

\* PromiseCore::resume(): waitingHandle_ is reset.
Cleared(r) == [waiting EXCEPT ![r] = Null]

\* return_value, return_void or except: the result is stored.
Stored(r, result) == [slot EXCEPT ![r] = result]

\* co_return or an exception that leaves the coroutine: the result is stored
\* and the waiter enqueued; the locals, and the promises among them, are
\* destroyed; the frame stays, with its parameters, at its final suspension,
\* from where control returns to the resumer.
Return(r, result, D) ==
    /\ Running(r)
    /\ IsForest(D, Held(r) \ params)
    /\ MayDestroy(D)
    /\ slot' = Stored(r, result)
    /\ waiting' = Cleared(r)
    /\ state' = [state EXCEPT ![r] = "finished"]
    /\ resumable' = CancelAll(Woken(r), Cancelled(D))
    /\ stopFlag' = (stopFlag \/ (waiting[r] # Null /\ ~stopped))
    /\ stopped' = (stopped \/ waiting[r] # Null)
    /\ pending' = pending \ D
    /\ frame' = [Destroyed(D) EXCEPT ![r] = "final"]
    /\ stack' = Pop
    /\ UNCHANGED <<owner, params, refs, awaits, phase, called>>

\* ~Promise() or an assignment over it, in the running coroutine: the
\* coroutine is cancelled and its frame destroyed with all it holds.
Drop(r, p, D) ==
    /\ Running(r)
    /\ Live(p) /\ owner[p] = r
    /\ IsForest(D, {p})
    /\ MayDestroy(D)
    /\ resumable' = CancelAll(resumable, Cancelled(D))
    /\ pending' = pending \ D
    /\ frame' = Destroyed(D)
    /\ UNCHANGED <<owner, params, refs, coreVars, awaits, stack, phase, loopVars, called>>

\* What may be passed by reference.
Lendable == IF BorrowedAwait THEN SUBSET Coro ELSE {{}}

CoroStep ==
    \E r \in Coro :
        /\ Running(r)
        /\ \/ \E c \in Coro, moved \in SUBSET Coro, lent \in Lendable : Call(r, c, moved, lent)
           \/ \E p \in Coro : AwaitReady(r, p)
           \/ \E p, c \in Coro, i \in 1 .. Len(resumable) : AwaitHandOff(r, p, i, c)
           \/ \E p \in Coro : AwaitReturn(r, p)
           \/ Yield(r)
           \/ AwaitIo(r)
           \/ \E result \in {"value", "exc"}, D \in SUBSET Coro : Return(r, result, D)
           \/ \E p \in Coro, D \in SUBSET Coro : Drop(r, p, D)

----------------------------------------------------------------------------
(* The loop                                                                *)

coroVars == <<frameVars, coreVars, awaits, pending>>

\* Loop::run without the reset of stopped_
TurnNoReset ==
    /\ stack = <<>>
    /\ phase \in {"main", "check"}
    /\ resumable # <<>> \/ pending # {}
    /\ phase' = "uv"
    /\ UNCHANGED <<coroVars, resumable, stack, stopped, stopFlag, called>>

\* The condition of Loop::run() holds: stopped_ is reset, uv_run() entered.
Turn ==
    /\ stack = <<>>
    /\ phase \in {"main", "check"}
    /\ resumable # <<>> \/ pending # {}
    /\ stopped' = FALSE
    /\ phase' = "uv"
    /\ UNCHANGED <<coroVars, resumable, stack, stopFlag, called>>

\* Loop::run that only asks libuv whether there is anything left
RunEndsUvOnly ==
    /\ stack = <<>>
    /\ phase \in {"main", "check"}
    /\ pending = {}
    /\ phase' = "exit"
    /\ UNCHANGED <<coroVars, resumable, stack, loopVars, called>>

\* The condition fails: Loop::run() returns to runMain.
RunEnds ==
    /\ stack = <<>>
    /\ phase \in {"main", "check"}
    /\ resumable = <<>> /\ pending = {}
    /\ phase' = "exit"
    /\ UNCHANGED <<coroVars, resumable, stack, loopVars, called>>

\* uv_run(UV_RUN_ONCE) with the stop flag set, or nothing alive: returns at
\* once, and clears the flag.
UvSkip ==
    /\ phase = "uv"
    /\ stopFlag \/ pending = {}
    /\ phase' = "runAll"
    /\ stopFlag' = FALSE
    /\ UNCHANGED <<coroVars, resumable, stack, stopped, called>>

\* Otherwise it polls, blocking until there is a callback to run.
UvPoll ==
    /\ phase = "uv"
    /\ ~stopFlag /\ pending # {}
    /\ phase' = "poll"
    /\ UNCHANGED <<coroVars, resumable, stack, loopVars, called>>

\* An operation completes: its callback enqueues the coroutine.
Callback(c) ==
    /\ phase = "poll"
    /\ c \in pending
    /\ pending' = pending \ {c}
    /\ LoopEnqueue(c)
    /\ called' = TRUE
    /\ UNCHANGED <<frameVars, coreVars, awaits, stack, phase>>

\* uv_run() returns once a callback has run.
UvReturn ==
    /\ phase = "poll"
    /\ called
    /\ phase' = "runAll"
    /\ stopFlag' = FALSE
    /\ called' = FALSE
    /\ UNCHANGED <<coroVars, resumable, stack, stopped>>

\* Scheduler::runAll resumes the next coroutine from the loop's own stack.
RunNext(i, c) ==
    /\ phase = "runAll"
    /\ stack = <<>>
    /\ ResumeAt(i, c, <<>>)
    /\ awaits' = [awaits EXCEPT ![c] = Null]
    /\ frame' = [frame EXCEPT ![c] = "onstack"]
    /\ UNCHANGED <<owner, params, refs, state, waiting, pending, phase, loopVars, called>>

\* runAll is done when the deque is empty; what is left may be null entries.
RunAllEnds ==
    /\ phase = "runAll"
    /\ stack = <<>>
    /\ NoNext(resumable, Done)
    /\ resumable' = <<>>
    /\ phase' = "check"
    /\ UNCHANGED <<coroVars, stack, loopVars, called>>

\* runMain: unwrap() reads main's result, then ~Promise destroys main and
\* ~Loop closes the scheduler.
RunMainReturns(D) ==
    /\ phase = "exit"
    /\ IsForest(D, {Main})
    /\ resumable' = CancelAll(resumable, Cancelled(D))
    /\ pending' = pending \ D
    /\ frame' = Destroyed(D)
    /\ phase' = "closed"
    /\ UNCHANGED <<owner, params, refs, coreVars, awaits, stack, loopVars, called>>

Terminated == phase = "closed" /\ UNCHANGED vars

LoopStep ==
    \/ Turn
    \/ RunEnds
    \/ UvSkip
    \/ UvPoll
    \/ UvReturn
    \/ \E c \in Coro, i \in 1 .. Len(resumable) : RunNext(i, c)
    \/ RunAllEnds
    \/ \E D \in SUBSET Coro : RunMainReturns(D)

Next ==
    \/ CoroStep
    \/ LoopStep
    \/ \E c \in Coro : Callback(c)
    \/ Terminated

Spec == Init /\ [][Next]_vars

\* A coroutine that runs goes on until it suspends or ends, and the loop goes
\* on by itself; libuv owes a callback only to an operation that completes.
FairSpec == Spec /\ WF_vars(CoroStep) /\ WF_vars(LoopStep)

----------------------------------------------------------------------------
TypeOK ==
    /\ frame \in [Coro -> {"unborn", "onstack", "suspended", "final", "destroyed"}]
    /\ owner \in [Coro -> Coro \cup {"runMain", Null}]
    /\ params \subseteq Coro
    /\ refs \in [Coro -> SUBSET Coro]
    /\ state \in [Coro -> {"init", "waitedOn", "finished"}]
    /\ waiting \in [Coro -> Coro \cup {Null}]
    /\ slot \in [Coro -> {"none", "value", "exc"}]
    /\ awaits \in [Coro -> Coro \cup {"yield", "io", Null}]
    /\ pending \subseteq Coro
    /\ resumable \in Seq(Coro \cup {Null})
    /\ stack \in Seq(Coro)
    /\ phase \in {"main", "check", "uv", "poll", "runAll", "exit", "closed"}
    /\ {stopped, stopFlag, called} \subseteq BOOLEAN

\* No frame is destroyed while it is being executed (the precondition of
\* coroutine_handle::destroy() in destroyCoroutine, promise_core.h:119).
NoDestroyOnStack ==
    \A i \in 1 .. Len(stack) : frame[stack[i]] = "onstack"

\* Whatever getNextInner takes from the run queue may be resumed: it is a
\* suspended coroutine, never a destroyed, finished or executing one
\* (scheduler.cc:24 and :28).
ReadyIsSuspended ==
    \A c \in Queued(resumable) : frame[c] = "suspended"

\* A resumed co_await finds its result: await_resume never throws "called on
\* unfulfilled promise (bug?)" or "previously finished" (promise.h:149, :168),
\* and an I/O awaiter is resumed by its own callback only.
ReadyHasResult ==
    \A c \in Queued(resumable) :
        \/ awaits[c] = "yield"
        \/ awaits[c] = "io" /\ c \notin pending
        \/ /\ awaits[c] \in Coro
           /\ Live(awaits[c])
           /\ state[awaits[c]] = "finished"
           /\ slot[awaits[c]] # "none"

\* No wake-up is lost and none is duplicated: a suspended coroutine is in
\* exactly one place, once: in the run queue, registered with the promise it
\* awaits, or with libuv.
OneWakeup ==
    /\ NoDuplicates(resumable)
    /\ \A c \in Coro : frame[c] = "suspended" =>
         \/ /\ c \in Queued(resumable)
            /\ c \notin pending
            /\ \A p \in Coro : Live(p) => waiting[p] # c
         \/ /\ c \notin Queued(resumable)
            /\ c \in pending
            /\ \A p \in Coro : Live(p) => waiting[p] # c
         \/ /\ c \notin Queued(resumable) \cup pending
            /\ \A p \in Coro : Live(p) => (waiting[p] = c <=> awaits[c] = p)
            /\ awaits[c] \in Coro /\ Live(awaits[c])

\* waitingHandle_ never dangles: it is a live suspended coroutine that awaits
\* exactly this promise.
WaiterAwaits ==
    \A p \in Coro : Live(p) /\ waiting[p] # Null =>
        /\ state[p] = "waitedOn"
        /\ frame[waiting[p]] = "suspended"
        /\ awaits[waiting[p]] = p

\* A live frame is held by a live frame, so that dropping main's promise
\* destroys every coroutine.
OwnerLives ==
    \A c \in Coro : Live(c) /\ c # Main => owner[c] \in Coro /\ Live(owner[c])

\* What the scheduler resumes may be resumed and finds what it waited for,
\* wherever calls, ends, drops and callbacks fall (promise_core.h:96-121).
ResumeIsSafe == ReadyIsSuspended /\ ReadyHasResult

\* Run queue, waiting handles, libuv and ownership agree on who is to be woken by
\* whom, so that no wake-up is lost, duplicated or dangling (promise.h:136-169).
WakeupsAreExact == OneWakeup /\ WaiterAwaits /\ OwnerLives

\* uv_run() never blocks in its poll while a coroutine is ready: stopped_ may
\* spare calls of uv_stop() (loop.cc:98) because the flag is still set.
PollOnlyWhenIdle ==
    phase = "poll" /\ ~stopFlag => resumable = <<>>

\* Loop::run() returns to runMain only when main has a result: unwrap() does
\* not throw "unwrap called on unfulfilled promise" (run.h:47), and
\* Scheduler::close() finds the deque empty (scheduler.cc:32).
ExitWithResult ==
    /\ phase = "exit" => slot[Main] # "none" /\ resumable = <<>>
    /\ phase = "closed" => \A c \in Coro : frame[c] \in {"unborn", "destroyed"}

\* A ready coroutine gets its turn, whatever the others do: the run queue is
\* first-in first-out and hand-off takes from its front.
ReadyRuns ==
    \A c \in Coro : c \in Queued(resumable) ~> c \notin Queued(resumable)
=============================================================================
