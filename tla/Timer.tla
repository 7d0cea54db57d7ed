-------------------------------- MODULE Timer --------------------------------
(***************************************************************************)
(* sleep() and Ticker (src/uvco/timer.cc).  A sleep's TimerAwaiter is part *)
(* of its coroutine's frame.  A Ticker's belongs to the Ticker, outlives   *)
(* the generators that ticker() returns, and remembers in handle_ the one  *)
(* that waits.  Both are reached by libuv through the timer's data, until  *)
(* they close the timer.                                                   *)
(*                                                                         *)
(* Unless it is in Relaxed, a program avoids the following: sleep(0)       *)
(* ("sleep 0"), and to drop a generator that waits for a tick while        *)
(* keeping the Ticker open ("drop ticking").                               *)
(***************************************************************************)
EXTENDS Component

CONSTANTS
    Sleeps,     \* the calls of sleep()
    Tickings,   \* the calls of ticker(), one after the other
    Count       \* count_max_ (0: without end)

ASSUME TimerAssumption ==
    /\ Sleeps \cap Tickings = {} /\ Null \notin Sleeps \cup Tickings
    /\ "tick" \notin Sleeps    \* the name of the Ticker's timer
    /\ Count \in Nat

TimerInit ==
    /\ TurnInit
    /\ s = [is |-> "timer",
            call |-> [c \in Sleeps \cup Tickings |-> "new"],
            timer |-> [t \in Sleeps \cup {"tick"} |->   \* the libuv timers
                          IF t = "tick" THEN "armed" ELSE "none"],
            handle |-> Null,        \* handle_ of the Ticker's awaiter
            awaiterStopped |-> FALSE, \* its stopped_
            stopped |-> FALSE,      \* stopped_ of the Ticker
            exists |-> TRUE,        \* the Ticker
            counter |-> 0,          \* of the generator that runs
            fault |-> "none"]

IsTimer == s.is = "timer"
Ticking(u) == s.call[u] \in {"waiting", "woken", "yielded", "asked"}

\* TimerAwaiter::stop() and close(): a timer is closed once.
TimerClosed(st, t) ==
    IF st.timer[t] \in {"armed", "stopped"} THEN [st EXCEPT !.timer[t] = "closing"] ELSE st

----------------------------------------------------------------------------
(* sleep()                                                                 *)

\* With 0 milliseconds the timer is due at once, and BOOST_VERIFY(!co_await
\* awaiter) finds that it was not stopped.
Sleep(c, zero) ==
    /\ IsTimer /\ Running
    /\ s.call[c] = "new"
    /\ zero => "sleep 0" \in Relaxed
    /\ Becomes(resumable,
               IF zero THEN [s EXCEPT !.call[c] = "done", !.fault = "verify"]
               ELSE [s EXCEPT !.call[c] = "waiting", !.timer[c] = "armed"])

\* The timer is stopped, the sleeper enqueued.
onSingleTimerDone(c) ==
    /\ IsTimer /\ InUv
    /\ s.timer[c] = "armed" /\ s.call[c] = "waiting"
    /\ Becomes(Readied(c), [s EXCEPT !.call[c] = "woken", !.timer[c] = "stopped"])

\* BOOST_VERIFY again, and ~TimerAwaiter
SleepResumes(c) ==
    /\ IsTimer /\ Resumed(c)
    /\ Becomes(Popped, TimerClosed([s EXCEPT !.call[c] = "done",
                                             !.fault = IF s.timer[c] = "stopped" THEN @ ELSE "verify"], c))

DropSleep(c) ==
    /\ IsTimer /\ Running
    /\ s.call[c] \in {"waiting", "woken"}
    /\ Becomes(Dropped(c), TimerClosed([s EXCEPT !.call[c] = "gone"], c))

----------------------------------------------------------------------------
(* Ticker                                                                  *)

\* close() that stops, but does not wake the generator
CloseWakesNot(st) == TimerClosed([st EXCEPT !.stopped = TRUE, !.awaiterStopped = TRUE], "tick")

\* TickerImpl::close(): the generator, if it waits, is woken (the callers
\* enqueue it), and the timer stopped and closed.
TickerClosed(st) ==
    TimerClosed([st EXCEPT !.stopped = TRUE, !.awaiterStopped = TRUE, !.handle = Null,
                           !.call = IF st.handle = Null THEN @ ELSE [@ EXCEPT ![st.handle] = "woken"]],
                "tick")

\* count_max_ ticks have been yielded
CountReached(st) == Count > 0 /\ st.counter >= Count

\* The head of ticker()'s loop: wait for the next tick, or end; at the end of
\* the count the Ticker is closed.  (await_ready() finds no repeating timer due
\* during runAll: uv_run has fired those that were.)
TickLoop(st, u) ==
    IF st.stopped THEN [st EXCEPT !.call[u] = "done"]
    ELSE IF CountReached(st) THEN TickerClosed([st EXCEPT !.call[u] = "done"])
    ELSE [st EXCEPT !.call[u] = "waiting", !.handle = u]

\* ticker(); FlagGuard asserts that no other one runs.
StartTicking(u) ==
    /\ IsTimer /\ Running
    /\ s.exists /\ s.call[u] = "new"
    /\ \A other \in Tickings : ~Ticking(other)
    /\ Becomes(resumable, TickLoop([s EXCEPT !.counter = 0], u))

\* A tick is yielded; if the awaiter was stopped, back to the head of the loop.
TickResumes(u) ==
    /\ IsTimer /\ Resumed(u)
    /\ s.call[u] = "woken"
    /\ Becomes(Popped, IF s.awaiterStopped THEN TickLoop(s, u) ELSE [s EXCEPT !.call[u] = "yielded"])

AskTick(u) ==
    /\ IsTimer /\ Running
    /\ s.call[u] = "yielded"
    /\ Becomes(Readied(u), [s EXCEPT !.call[u] = "asked"])

AskedResumes(u) ==
    /\ IsTimer /\ Resumed(u)
    /\ s.call[u] = "asked"
    /\ Becomes(Popped, TickLoop([s EXCEPT !.counter = @ + 1], u))

\* A generator is dropped; handle_ of the Ticker's awaiter stays.
DropTicking(u) ==
    /\ IsTimer /\ Running
    /\ Ticking(u)
    /\ "drop ticking" \in Relaxed \/ s.handle # u
    /\ Becomes(Dropped(u), [s EXCEPT !.call[u] = "gone"])

\* close() by the program
TickerClose ==
    /\ IsTimer /\ Running
    /\ s.exists /\ ~s.stopped
    /\ Becomes(IF s.handle = Null THEN resumable ELSE Readied(s.handle), TickerClosed(s))

\* The generator and the Ticker are dropped together.
DropTicker ==
    /\ IsTimer /\ Running
    /\ s.exists
    /\ LET running == {u \in Tickings : Ticking(u)}
       IN  Becomes(CancelAll(resumable, running),
                   TimerClosed([s EXCEPT !.exists = FALSE, !.handle = Null,
                                         !.call = [c \in DOMAIN @ |-> IF c \in running THEN "gone" ELSE @[c]]],
                               "tick"))

\* A tick that nobody waits for is lost.
onMultiTimerFired ==
    /\ IsTimer /\ InUv
    /\ s.timer["tick"] = "armed"
    /\ s.handle # Null
    /\ Becomes(Readied(s.handle), [s EXCEPT !.handle = Null, !.call[s.handle] = "woken"])

onTimerClosed(t) ==
    /\ IsTimer /\ InUv
    /\ s.timer[t] = "closing"
    /\ Becomes(resumable, [s EXCEPT !.timer[t] = "freed"])

TimerNext ==
    \/ \E c \in Sleeps, zero \in BOOLEAN : Sleep(c, zero)
    \/ \E c \in Sleeps : onSingleTimerDone(c) \/ SleepResumes(c) \/ DropSleep(c)
    \/ \E u \in Tickings : StartTicking(u) \/ TickResumes(u) \/ AskTick(u) \/ AskedResumes(u) \/ DropTicking(u)
    \/ TickerClose \/ DropTicker
    \/ onMultiTimerFired
    \/ \E t \in Sleeps \cup {"tick"} : onTimerClosed(t)

\* Sleeps and a Ticker, on a loop of their own
TimerSpec == TimerInit /\ [][TimerNext \/ TakeTurns]_vars

----------------------------------------------------------------------------
\* Only suspended coroutines are in the run queue, each once: neither a tick nor
\* close() enqueues a generator that was woken already, has ended or was dropped.
TimerQueueSound ==
    IsTimer => QueueIsSound({c \in Sleeps \cup Tickings : s.call[c] \in {"woken", "asked"}})

\* A coroutine that waits has a timer that will fire, and the Ticker's awaiter
\* knows the generator that waits, and no other one; otherwise a wake-up goes to
\* nobody, or to a frame that is gone.
TimerServesWaiting ==
    IsTimer =>
    /\ \A c \in Sleeps : s.call[c] = "waiting" => s.timer[c] = "armed"
    /\ \A u \in Tickings : s.call[u] = "waiting" <=> s.handle = u
    /\ s.handle # Null => s.timer["tick"] = "armed"

\* "Need to close timer so that libuv isn't blocked by the active handle on the
\* loop" (timer.cc:148): no timer is left running when its sleep, or the Ticker or
\* its generator by itself, has ended.
NoTimerLeft ==
    IsTimer =>
    /\ \A c \in Sleeps : s.timer[c] \in {"armed", "stopped"} => s.call[c] \in {"waiting", "woken"}
    /\ s.timer["tick"] = "armed" => s.exists /\ \A u \in Tickings : s.call[u] # "done"

\* BOOST_VERIFY(!co_await awaiter) in sleep() (timer.cc:96).
SleepVerifies == IsTimer => s.fault = "none"

\* Timers, awaiters and coroutines agree, wherever ticks, close() and drops fall.
TimersServe == TimerServesWaiting /\ NoTimerLeft /\ SleepVerifies
=============================================================================
