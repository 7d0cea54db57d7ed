------------------------------ MODULE Generator ------------------------------
(***************************************************************************)
(* A generator coroutine and the MultiPromise through which its values are *)
(* read (src/uvco/promise/multipromise.h on top of promise_core.h).        *)
(* Reader and generator hand the turn to each other through the run queue: *)
(* a read of an empty slot enqueues the generator, a co_yield enqueues the *)
(* reader.  The generator's body is arbitrary: it runs as soon as it is    *)
(* called, yields, awaits other things, returns or throws.  A reader is a  *)
(* coroutine that awaits the MultiPromise, directly or inside next(), and  *)
(* whose promise may be dropped; the MultiPromise itself is cancelled,     *)
(* destroyed or assigned over by its owner.                                *)
(*                                                                         *)
(* A program reads from one coroutine at a time and does not take the      *)
(* generator away from a reader (assertions at multipromise.h:52 and 230); *)
(* with DropRegistered it may drop a next() that still waits.              *)
(***************************************************************************)
EXTENDS Turns

CONSTANTS
    Readers,        \* the coroutines that read
    Gen,            \* the generator coroutine
    T, Exc,         \* the values it yields; the exception it throws
    MaxYields,      \* bound: on the number of values
    MaxAwaits,      \* bound: on how often the body awaits something else
    DropRegistered  \* whether a next() is dropped while it is registered

ASSUME GeneratorAssumption ==
    /\ MaxYields \in Nat /\ MaxAwaits \in Nat
    /\ Null \notin Readers /\ Gen \notin Readers /\ Gen # Null
    /\ {Null, Exc, "ok", "EAGAIN"} \cap T = {} /\ Exc # Null
    /\ DropRegistered \in BOOLEAN

VARIABLES
    slot,       \* core_.slot: Null, a value or the exception
    state,      \* core_.state_
    waiter,     \* core_.waitingHandle_
    suspended,  \* core_.suspended_
    terminated, \* core_.terminated_
    gen,        \* where the generator coroutine is
    awaits,     \* how often it has awaited something else
    yields,     \* how many values it has yielded
    reader,     \* where each reader is
    ret         \* the outcome of the last yield or read

coreVars == <<slot, state, waiter, suspended, terminated>>
vars == <<turnVars, coreVars, gen, awaits, yields, reader, ret>>

Init ==
    /\ TurnInit
    /\ slot = Null /\ state = "init" /\ waiter = Null
    /\ suspended = FALSE /\ terminated = FALSE
    /\ gen = "called"
    /\ awaits = 0 /\ yields = 0
    /\ reader = [r \in Readers |-> "idle"]
    /\ ret = "ok"

Alive == gen \notin {"gone", "replaced"}
AwaitingReaders == {r \in Readers : reader[r] = "awaiting"}

----------------------------------------------------------------------------
(* The generator's side.  initial_suspend() does not suspend: the body runs *)
(* in the call.                                                            *)

GeneratorRuns == Running /\ (gen = "called" \/ (Alive /\ Resumed(Gen)))
RunQueue == IF gen = "called" THEN resumable ELSE Popped

\* PromiseCore::resume() that keeps the waiter
ResumeKeepsWaiter(queue) ==
    /\ resumable' = IF waiter = Null THEN queue ELSE Enqueue(queue, waiter)
    /\ state' = "finished"
    /\ UNCHANGED waiter

\* PromiseCore::resume(): the waiting reader is enqueued, and forgotten.
resume(queue) ==
    /\ resumable' = IF waiter = Null THEN queue ELSE Enqueue(queue, waiter)
    /\ waiter' = Null
    /\ state' = "finished"

\* co_yield that does not note that the generator is suspended
SuspendForgotten == suspended' = FALSE

\* suspendGenerator()
suspendGenerator == suspended' = TRUE

\* co_yield: the value goes into the slot, the reader is woken, and as the slot
\* is full the generator suspends.
yield_value(value) ==
    /\ GeneratorRuns
    /\ yields < MaxYields
    /\ yields' = yields + 1
    /\ slot' = value
    /\ resume(RunQueue)
    /\ suspendGenerator
    /\ gen' = "yielded"
    /\ ret' = "ok"
    /\ UNCHANGED <<phase, terminated, awaits, reader>>

\* The body awaits something else.
GeneratorAwaits ==
    /\ GeneratorRuns
    /\ awaits < MaxAwaits
    /\ awaits' = awaits + 1
    /\ gen' = "awaiting"
    /\ resumable' = RunQueue
    /\ UNCHANGED <<phase, coreVars, yields, reader, ret>>

\* ... which happens: a callback enqueues the generator.
AwaitedHappens ==
    /\ InUv
    /\ gen = "awaiting"
    /\ gen' = "woken"
    /\ resumable' = Enqueue(resumable, Gen)
    /\ UNCHANGED <<phase, coreVars, awaits, yields, reader, ret>>

\* The end of the body: return_void(), or unhandled_exception() with the
\* exception in the slot.
Terminates(result) ==
    /\ GeneratorRuns
    /\ slot' = result
    /\ terminated' = TRUE
    /\ resume(RunQueue)
    /\ gen' = "done"
    /\ UNCHANGED <<phase, suspended, awaits, yields, reader, ret>>

return_void == Terminates(slot)
unhandled_exception == Terminates(Exc)

----------------------------------------------------------------------------
(* The reader's side                                                       *)

\* Code of the program may await the MultiPromise: one reader at a time.
MayRead(r) == Running /\ gen \notin {"called", "replaced"} /\ reader[r] = "idle" /\ AwaitingReaders = {}

\* readiness told from the state of the core
ReadyWhenFinished == ~Alive \/ terminated \/ state = "finished"

\* MultiPromise::ready() and await_ready(), also of a MultiPromise whose
\* generator was cancelled (core_ is null)
ready == ~Alive \/ terminated \/ slot # Null

\* await_resume() that leaves the value in the slot
TakeKeepsValue ==
    /\ slot' = slot
    /\ ret' = IF slot \in {Null, Exc} THEN "EAGAIN" ELSE slot

\* await_resume() that returns an exception like a value
ReturnsException ==
    /\ slot' = IF Alive THEN Null ELSE slot
    /\ ret' = CASE ~Alive -> ret
               [] Alive /\ slot = Null -> "EAGAIN"
               [] OTHER -> slot

\* await_resume(): a value is moved out of the slot; an exception stays there
\* and is thrown again on every read; otherwise nullopt.  What a cancelled
\* MultiPromise answers is not counted.
await_resume ==
    /\ slot' = IF Alive /\ slot # Exc THEN Null ELSE slot
    /\ ret' = CASE ~Alive -> ret
               [] Alive /\ slot \in {Null, Exc} -> "EAGAIN"
               [] OTHER -> slot

ReadNow(r) ==
    /\ MayRead(r)
    /\ ready
    /\ await_resume
    /\ UNCHANGED <<turnVars, state, waiter, suspended, terminated, gen, awaits, yields, reader>>

\* resumeGenerator(): only a generator suspended at co_yield is enqueued.
resumeGenerator ==
    /\ resumable' = IF suspended THEN Enqueue(resumable, Gen) ELSE resumable
    /\ gen' = IF suspended THEN "woken" ELSE gen
    /\ suspended' = FALSE

\* await_suspend(): setHandle(), whose assertions AwaitAllowed states, and
\* resumeGenerator()
ReadSuspends(r) ==
    /\ MayRead(r)
    /\ ~ready
    /\ waiter' = r
    /\ state' = "waitedOn"
    /\ resumeGenerator
    /\ reader' = [reader EXCEPT ![r] = "awaiting"]
    /\ UNCHANGED <<phase, slot, terminated, awaits, yields, ret>>

ReadResumes(r) ==
    /\ reader[r] = "awaiting"
    /\ Resumed(r)
    /\ await_resume
    /\ resumable' = Popped
    /\ reader' = [reader EXCEPT ![r] = "idle"]
    /\ UNCHANGED <<phase, state, waiter, suspended, terminated, gen, awaits, yields>>

\* The promise of a next() is dropped: its coroutine is cancelled in the run
\* queue, but nothing is told to the generator's core.
DropNext(r) ==
    /\ Running
    /\ reader[r] = "awaiting"
    /\ DropRegistered \/ waiter # r
    /\ reader' = [reader EXCEPT ![r] = "gone"]
    /\ resumable' = CancelAll(resumable, {r})
    /\ UNCHANGED <<phase, coreVars, gen, awaits, yields, ret>>

----------------------------------------------------------------------------
\* a generator destroyed while it is in the run queue
CancelledNot == resumable

\* Loop::cancel(coroutine), before the frame is destroyed
Cancelled == CancelAll(resumable, {Gen})

\* MultiPromise::cancel(), ~MultiPromise(): cancelGenerator()
cancelGenerator ==
    /\ Running
    /\ Alive /\ gen # "called"
    /\ AwaitingReaders = {}
    /\ terminated' = TRUE
    /\ gen' = "gone"
    /\ resumable' = Cancelled
    /\ UNCHANGED <<phase, slot, state, waiter, suspended, awaits, yields, reader, ret>>

\* MultiPromise::operator=(): destroyCoroutine(), which cancels the coroutine in
\* the run queue only if the core is not finished.
AssignOver ==
    /\ Running
    /\ Alive /\ gen # "called"
    /\ AwaitingReaders = {}
    /\ gen' = "replaced"
    /\ resumable' = IF state = "finished" THEN resumable ELSE Cancelled
    /\ UNCHANGED <<phase, coreVars, awaits, yields, reader, ret>>

TakeTurns == Turn /\ UNCHANGED <<coreVars, gen, awaits, yields, reader, ret>>

Next ==
    \/ \E value \in T : yield_value(value)
    \/ GeneratorAwaits \/ AwaitedHappens
    \/ return_void \/ unhandled_exception
    \/ \E r \in Readers : ReadNow(r) \/ ReadSuspends(r) \/ ReadResumes(r) \/ DropNext(r)
    \/ cancelGenerator \/ AssignOver
    \/ TakeTurns

Spec == Init /\ [][Next]_vars

\* The scheduler resumes what is in its queue, uv_run is entered and left, and
\* what the body awaits happens in one of the calls of uv_run.
FairSpec ==
    /\ Spec
    /\ WF_vars(TakeTurns)
    /\ WF_vars((\E value \in T : yield_value(value)) \/ GeneratorAwaits \/ return_void \/ unhandled_exception)
    /\ SF_vars(AwaitedHappens)
    /\ \A r \in Readers : WF_vars(ReadResumes(r))

----------------------------------------------------------------------------
TypeOK ==
    /\ resumable \in Seq(Readers \cup {Gen, Null}) /\ phase \in {"run", "uv"}
    /\ slot \in T \cup {Null, Exc}
    /\ state \in {"init", "waitedOn", "finished"}
    /\ waiter \in Readers \cup {Null}
    /\ suspended \in BOOLEAN /\ terminated \in BOOLEAN
    /\ gen \in {"called", "yielded", "awaiting", "woken", "done", "gone", "replaced"}
    /\ awaits \in 0 .. MaxAwaits /\ yields \in 0 .. MaxYields
    /\ reader \in [Readers -> {"idle", "awaiting", "gone"}]
    /\ ret \in {"ok", "EAGAIN"} \cup T

\* Every coroutine in the run queue exists, waits to be resumed and is queued
\* once: neither a reader nor the generator is resumed twice, or after its frame
\* is gone (multipromise.h:65-98, scheduler.cc:65-79).
QueuedAreSuspended ==
    QueueIsSound(AwaitingReaders \cup (IF gen = "woken" THEN {Gen} ELSE {}))

\* Whenever the program may read, the assertions of await_suspend and setHandle
\* ("MultiPromise must be co_awaited before next yield", multipromise.h:52-55,
\* and "promise is already being waited on", 230) hold.
AwaitAllowed == \A r \in Readers : MayRead(r) /\ ~ready => waiter = Null /\ state # "waitedOn"

\* A reader waits only while the generator is on its way: registered and the
\* generator not suspended at a co_yield or ended, or itself in the run queue.
\* Otherwise it would wait for good.
ReaderNotStranded ==
    \A r \in AwaitingReaders :
        \/ r \in Queued(resumable)
        \/ waiter = r /\ ~suspended /\ gen \in {"awaiting", "woken"}

\* A read may begin when the program is allowed to read, and once begun it is
\* answered (multipromise.h:60-82, 218-236).
ReadsAreServed == AwaitAllowed /\ ReaderNotStranded

\* "Otherwise, returns an empty optional if the generating coroutine has
\* co_returned" (multipromise.h:239): a read ends without a value only if the
\* generator has ended.
EndOnlyAtEnd ==
    [][\A r \in Readers : (ReadNow(r) \/ ReadResumes(r)) /\ ret' = "EAGAIN"
          => terminated]_vars

\* Seen through slot and ret, yielding and reading are those of a first-in
\* first-out queue with one place: every value is read once and in order, also
\* when the reader that was woken for it is dropped.  In particular no value is
\* overwritten: BOOST_ASSERT(!core_.slot) in yield_value (multipromise.h:330).  A
\* cancelled generator's last value counts as unread.
Values == INSTANCE Fifo WITH
    T <- T,
    Capacity <- 1,
    items <- IF slot \in {Null, Exc} THEN <<>> ELSE <<slot>>,
    ret <- ret
ImplementsFifo == Values!Spec

\* A read does not wait for ever: the generator yields, ends or is awaited by
\* nobody any more.
ReadEnds == \A r \in Readers : reader[r] = "awaiting" ~> reader[r] # "awaiting"
=============================================================================
