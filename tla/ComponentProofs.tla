--------------------------- MODULE ComponentProofs ---------------------------
(***************************************************************************)
(* Theorems about SelectSet, TaskSet, timers and FsWatch, each on a loop   *)
(* of its own, for any sets of promises, tasks and calls, in the programs  *)
(* that keep to what the components' modules ask of them.                  *)
(***************************************************************************)
EXTENDS Select, TaskSet, Timer, FsWatch, SchedulerProofs, FiniteSetTheorems

\* The loop turns: uv_run is entered with nothing queued, and left.
LEMMA TurnsHold ==
    ASSUME NEW H, resumable \in HandleQueue(H), TakeTurns
    PROVE  /\ s' = s /\ resumable' \in HandleQueue(H) /\ Queued(resumable') = Queued(resumable)
           /\ NoDuplicates(resumable) => NoDuplicates(resumable')
<1>1. CASE UvRun
  <2>1. Queued(resumable) = {} /\ resumable' = <<>>
    BY <1>1, NoNextQueued DEF UvRun
  <2>2. <<>> \in HandleQueue(H) /\ Queued(<<>>) = {} /\ NoDuplicates(<<>>)
    BY EmptyHolds
  <2> QED BY <2>1, <2>2 DEF TakeTurns
<1>2. CASE RunAll
  BY <1>2 DEF TakeTurns, RunAll
<1> QED BY <1>1, <1>2 DEF TakeTurns, Turn

----------------------------------------------------------------------------
(* Select                                                                  *)

SelectType ==
    /\ s \in [is: {"select"}, state: [Promises -> {"init", "waitedOn", "finished"}],
              slot: SUBSET Promises, waited: SUBSET Promises, owned: SUBSET Promises,
              selector: {"idle", "suspended", "gone"}, chosen: SUBSET Promises,
              result: SUBSET Promises]
    /\ resumable \in HandleQueue({Selector})

\* The cores know the selector exactly while they are waited on, results are those
\* of finished promises, and no trace of a select is left when it is over.
SelectInv ==
    /\ SelectType
    /\ \A p \in Promises : p \in s.waited <=> s.state[p] = "waitedOn"
    /\ \A p \in s.slot : s.state[p] = "finished"
    /\ s.waited \subseteq s.chosen
    /\ s.selector # "suspended" => s.chosen = {} /\ Queued(resumable) = {}

LEMMA SelectInitHolds == SelectInit => SelectInv
<1> SUFFICES ASSUME SelectInit PROVE SelectInv
  OBVIOUS
<1>1. resumable \in HandleQueue({Selector}) /\ Queued(resumable) = {}
  BY EmptyHolds DEF SelectInit, TurnInit
<1>2. SelectType
  BY <1>1 DEF SelectInit, SelectType
<1> QED BY <1>1, <1>2 DEF SelectInit, SelectInv

LEMMA FinishHolds ==
    ASSUME SelectInv, NEW p \in Promises, Finish(p)
    PROVE  SelectInv'
<1> USE SelectAssumption
<1>1. /\ s'.state = [s.state EXCEPT ![p] = "finished"] /\ s'.slot = s.slot \cup {p}
      /\ s'.waited = s.waited \ {p} /\ s'.selector = s.selector /\ s'.chosen = s.chosen
  BY DEF Finish, Becomes, SelectInv, SelectType
<1>2. resumable' \in HandleQueue({Selector})
  <2>1. CASE p \in s.waited
    <3>1. resumable' = Enqueue(resumable, Selector)
      BY <2>1 DEF Finish, Becomes, Readied
    <3> QED BY <3>1, EnqueueHolds DEF SelectInv, SelectType
  <2>2. CASE p \notin s.waited
    BY <2>2 DEF Finish, Becomes, SelectInv, SelectType
  <2> QED BY <2>1, <2>2
<1>3. s.selector # "suspended" => resumable' = resumable
  BY DEF Finish, Becomes, SelectInv
<1>4. SelectType'
  BY <1>2 DEF Finish, Becomes, SelectInv, SelectType
<1> QED BY <1>1, <1>3, <1>4 DEF SelectInv, SelectType

\* A result is fetched, or a promise dropped that nobody waits for.
LEMMA FetchedHolds ==
    ASSUME SelectInv, NEW p \in Promises, Unwrap(p) \/ DropPromise(p)
    PROVE  SelectInv'
<1>1. /\ s'.state = s.state /\ s'.slot \subseteq s.slot /\ s'.waited = s.waited
      /\ s'.selector = s.selector /\ s'.chosen = s.chosen /\ resumable' = resumable
  <2>1. CASE Unwrap(p)
    BY <2>1 DEF Unwrap, Becomes, SelectInv, SelectType
  <2>2. CASE DropPromise(p)
    BY <2>2 DEF DropPromise, Becomes, SelectInv, SelectType
  <2> QED BY <2>1, <2>2
<1>2. SelectType'
  <2>1. CASE Unwrap(p)
    BY <2>1 DEF Unwrap, Becomes, SelectInv, SelectType
  <2>2. CASE DropPromise(p)
    BY <2>2 DEF DropPromise, Becomes, SelectInv, SelectType
  <2> QED BY <2>1, <2>2
<1> QED BY <1>1, <1>2 DEF SelectInv, SelectType

LEMMA SelectHolds ==
    ASSUME SelectInv, NEW set \in SUBSET Promises, Select(set)
    PROVE  SelectInv'
<1> DEFINE fresh == {p \in set : ~stale(p)}
<1>1. SelectType'
  BY DEF Select, Becomes, SelectInv, SelectType
<1>2. CASE set \cap s.slot # {}
  <2>1. /\ s'.state = s.state /\ s'.slot = s.slot /\ s'.waited = s.waited
        /\ s'.selector = s.selector /\ s'.chosen = s.chosen /\ resumable' = resumable
    BY <1>2 DEF Select, Becomes, SelectInv, SelectType
  <2> QED BY <1>1, <2>1 DEF SelectInv
<1>3. CASE set \cap s.slot = {}
  <2>1. /\ s'.state = [p \in Promises |-> IF p \in fresh THEN "waitedOn" ELSE s.state[p]]
        /\ s'.slot = s.slot /\ s'.waited = s.waited \cup fresh
        /\ s'.selector = "suspended" /\ s'.chosen = set /\ resumable' = resumable
    BY <1>3 DEF Select, Becomes, SelectInv, SelectType
  <2>2. s.waited = {}
    BY DEF Select, SelectInv
  <2>3. \A p \in fresh : p \notin s.slot
    BY <1>3
  <2> HIDE DEF fresh
  <2>4. fresh \subseteq set
    BY DEF fresh
  <2> QED BY <1>1, <2>1, <2>2, <2>3, <2>4 DEF SelectInv, SelectType
<1> QED BY <1>2, <1>3

\* resetHandle() of all promises the selector waits for
LEMMA ResetHolds ==
    ASSUME SelectInv, NEW set \in SUBSET Promises, s.waited \subseteq set,
           s'.waited = s.waited \ set, s'.slot = s.slot,
           s'.state = [p \in Promises |->
                         IF p \in set /\ s.state[p] = "waitedOn" THEN "init" ELSE s.state[p]]
    PROVE  /\ s'.waited = {} /\ \A p \in Promises : s'.state[p] # "waitedOn"
           /\ \A p \in s'.slot : s'.state[p] = "finished"
BY DEF SelectInv, SelectType

LEMMA SelectResumesHolds ==
    ASSUME SelectInv, SelectResumes
    PROVE  SelectInv'
<1> DEFINE set == s.chosen \ s.slot
<1>1. set \in SUBSET Promises /\ s.waited \subseteq set
  BY DEF SelectInv, SelectType
<1>2. /\ s'.waited = s.waited \ set /\ s'.slot = s.slot
      /\ s'.state = [p \in Promises |->
                       IF p \in set /\ s.state[p] = "waitedOn" THEN "init" ELSE s.state[p]]
      /\ s'.selector = "idle" /\ s'.chosen = {}
  BY DEF SelectResumes, Becomes, resetHandle, SelectInv, SelectType
<1>3. resumable' \in HandleQueue({Selector}) /\ Queued(resumable') = {}
  <2>1. Popped \in HandleQueue({Selector}) /\ resumable' = CancelAll(Popped, {Selector})
    BY ResumedHolds DEF SelectResumes, Resumed, Popped, Becomes, SurplusCancelled, SelectInv, SelectType
  <2>2. Queued(Popped) \subseteq {Selector}
    BY <2>1 DEF Queued, HandleQueue
  <2> QED BY <2>1, <2>2, CancelHolds
<1>4. SelectType'
  BY <1>3 DEF SelectResumes, Becomes, resetHandle, SelectInv, SelectType
<1> HIDE DEF set
<1>5. /\ s'.waited = {} /\ \A p \in Promises : s'.state[p] # "waitedOn"
      /\ \A p \in s'.slot : s'.state[p] = "finished"
  BY <1>1, <1>2, ResetHolds
<1> QED BY <1>2, <1>3, <1>4, <1>5 DEF SelectInv

LEMMA DropSelectorHolds ==
    ASSUME SelectInv, NEW race \in BOOLEAN, DropSelector(race)
    PROVE  SelectInv'
<1>1. s.chosen \in SUBSET Promises /\ s.waited \subseteq s.chosen
  BY DEF SelectInv, SelectType
<1>2. /\ s'.waited = s.waited \ s.chosen /\ s'.slot = s.slot
      /\ s'.state = [p \in Promises |->
                       IF p \in s.chosen /\ s.state[p] = "waitedOn" THEN "init" ELSE s.state[p]]
      /\ s'.selector = "gone" /\ s'.chosen = {}
  BY DEF DropSelector, Becomes, resetHandle, SelectInv, SelectType
<1>3. resumable' \in HandleQueue({Selector}) /\ Queued(resumable') = {}
  <2>1. Queued(resumable) \subseteq {Selector}
    BY DEF Queued, HandleQueue, SelectInv, SelectType
  <2> QED BY <2>1, CancelHolds DEF DropSelector, Becomes, Dropped, SelectInv, SelectType
<1>4. SelectType'
  BY <1>3 DEF DropSelector, Becomes, resetHandle, SelectInv, SelectType
<1>5. /\ s'.waited = {} /\ \A p \in Promises : s'.state[p] # "waitedOn"
      /\ \A p \in s'.slot : s'.state[p] = "finished"
  BY <1>1, <1>2, ResetHolds
<1> QED BY <1>2, <1>3, <1>4, <1>5 DEF SelectInv

LEMMA SelectInductive == SelectInv /\ [SelectNext \/ TakeTurns]_vars => SelectInv'
<1> SUFFICES ASSUME SelectInv, [SelectNext \/ TakeTurns]_vars PROVE SelectInv'
  OBVIOUS
<1>1. CASE TakeTurns
  BY <1>1, TurnsHold DEF SelectInv, SelectType
<1>2. CASE UNCHANGED vars
  BY <1>2 DEF vars, turnVars, SelectInv, SelectType
<1> QED BY <1>1, <1>2, FinishHolds, FetchedHolds, SelectHolds, SelectResumesHolds, DropSelectorHolds
        DEF SelectNext

(* A select that is over is not resumed again, whatever has finished in the *)
(* meantime, and the cores of all promises agree on whether they are waited *)
(* for: for any number of promises, and even if all of them are stale.      *)
THEOREM SelectSound == SelectSpec => []SelectHandlesSound
<1>1. SelectInv => SelectHandlesSound
  BY DEF SelectInv, SelectType, SelectHandlesSound, NoStaleWakeup, WaitedOnHasWaiter
<1> QED BY <1>1, SelectInitHolds, SelectInductive, PTL DEF SelectSpec

----------------------------------------------------------------------------
(* Timer                                                                   *)

Timed == Sleeps \cup Tickings

TimerStates ==
    [is: {"timer"},
     call: [Timed -> {"new", "waiting", "woken", "yielded", "asked", "done", "gone"}],
     timer: [Sleeps \cup {"tick"} -> {"none", "armed", "stopped", "closing", "freed"}],
     handle: Tickings \cup {Null}, awaiterStopped: BOOLEAN, stopped: BOOLEAN,
     exists: BOOLEAN, counter: Nat, fault: {"none", "verify"}]

TimerType == s \in TimerStates /\ resumable \in HandleQueue(Timed)

\* A sleep's timer is armed while it waits and stopped while it is on its way.
SleepInv ==
    /\ s.fault = "none"
    /\ \A c \in Sleeps :
         /\ s.call[c] \in {"new", "waiting", "woken", "done", "gone"}
         /\ s.call[c] = "waiting" => s.timer[c] = "armed"
         /\ s.call[c] = "woken" => s.timer[c] = "stopped"
         /\ s.timer[c] \in {"armed", "stopped"} => s.call[c] \in {"waiting", "woken"}

\* One generator at a time runs; the Ticker knows the one that waits.  The timer
\* runs exactly while the Ticker exists and was not stopped.
TickInv ==
    /\ \A u, v \in Tickings : Ticking(u) /\ Ticking(v) => u = v
    /\ \A u \in Tickings : Ticking(u) => s.exists
    /\ \A u \in Tickings : s.call[u] = "waiting" <=> s.handle = u
    /\ s.awaiterStopped <=> s.stopped
    /\ s.timer["tick"] = "armed" <=> s.exists /\ ~s.stopped
    /\ s.timer["tick"] \in {"armed", "closing", "freed"}
    /\ \A u \in Tickings : s.call[u] = "done" => s.timer["tick"] # "armed"
    /\ s.handle # Null => s.timer["tick"] = "armed"

TimerQueueInv ==
    /\ NoDuplicates(resumable)
    /\ \A c \in Queued(resumable) : s.call[c] \in {"woken", "asked"}

TimerInv == TimerType /\ SleepInv /\ TickInv /\ TimerQueueInv

\* The program avoids what Timer's comment says it avoids.
TimerUse == "sleep 0" \notin Relaxed /\ "drop ticking" \notin Relaxed

LEMMA TimerInitHolds == TimerInit => TimerInv
<1> SUFFICES ASSUME TimerInit PROVE TimerInv
  OBVIOUS
<1> USE TimerAssumption
<1>1. resumable \in HandleQueue(Timed) /\ Queued(resumable) = {} /\ NoDuplicates(resumable)
  BY EmptyHolds DEF TimerInit, TurnInit
<1>2. TimerType
  BY <1>1 DEF TimerInit, TimerType, TimerStates, Timed
<1>3. /\ s.handle = Null /\ s.stopped = FALSE /\ s.awaiterStopped = FALSE /\ s.exists = TRUE
      /\ s.fault = "none" /\ s.timer["tick"] = "armed"
      /\ \A c \in Timed : s.call[c] = "new"
      /\ \A c \in Sleeps : s.timer[c] = "none"
  BY DEF TimerInit, Timed
<1> QED BY <1>1, <1>2, <1>3 DEF TimerInv, SleepInv, TickInv, TimerQueueInv, Ticking, Timed

\* A step of a sleep leaves the Ticker and its generators alone.
LEMMA SleepStepHolds ==
    ASSUME TimerInv, TimerType', NEW c \in Sleeps, NEW how, NEW t,
           s'.call = [s.call EXCEPT ![c] = how], s'.timer = [s.timer EXCEPT ![c] = t],
           s'.handle = s.handle, s'.awaiterStopped = s.awaiterStopped, s'.stopped = s.stopped,
           s'.exists = s.exists, s'.fault = "none",
           \/ how = "waiting" /\ t = "armed"
           \/ how = "woken" /\ t = "stopped"
           \/ how \in {"done", "gone"} /\ t \notin {"armed", "stopped"},
           TimerQueueInv'
    PROVE  TimerInv'
<1> USE TimerAssumption
<1>1. /\ \A u \in Tickings : s'.call[u] = s.call[u]
      /\ \A d \in Sleeps \ {c} : s'.call[d] = s.call[d] /\ s'.timer[d] = s.timer[d]
      /\ s'.call[c] = how /\ s'.timer[c] = t
      /\ s'.timer["tick"] = s.timer["tick"]
  BY DEF TimerInv, TimerType, TimerStates, Timed
<1>2. SleepInv'
  BY <1>1 DEF TimerInv, SleepInv
<1>3. TickInv'
  BY <1>1 DEF TimerInv, TickInv, Ticking
<1> QED BY <1>2, <1>3 DEF TimerInv

LEMMA SleepHolds ==
    ASSUME TimerInv, TimerUse, NEW c \in Sleeps, NEW zero \in BOOLEAN, Sleep(c, zero)
    PROVE  TimerInv'
<1> USE TimerAssumption
<1>1. ~zero /\ resumable' = resumable /\ s' = [s EXCEPT !.call[c] = "waiting", !.timer[c] = "armed"]
  BY DEF Sleep, Becomes, TimerUse
<1>2. TimerType'
  BY <1>1 DEF TimerInv, TimerType, TimerStates, Timed
<1>3. s'.call = [s.call EXCEPT ![c] = "waiting"] /\ s'.timer = [s.timer EXCEPT ![c] = "armed"]
      /\ s'.handle = s.handle /\ s'.awaiterStopped = s.awaiterStopped /\ s'.stopped = s.stopped
      /\ s'.exists = s.exists /\ s'.fault = "none"
  BY <1>1 DEF TimerInv, TimerType, TimerStates, SleepInv
<1>4. TimerQueueInv'
  <2>1. c \notin Queued(resumable)
    BY DEF Sleep, TimerInv, TimerQueueInv
  <2> QED BY <1>1, <1>3, <2>1, QueuedType DEF TimerInv, TimerType, TimerStates, TimerQueueInv, Timed
<1> QED BY <1>2, <1>3, <1>4, SleepStepHolds

LEMMA SleepDoneHolds ==
    ASSUME TimerInv, NEW c \in Sleeps, onSingleTimerDone(c)
    PROVE  TimerInv'
<1> USE TimerAssumption
<1>1. /\ s.call[c] = "waiting" /\ resumable' = Enqueue(resumable, c)
      /\ s' = [s EXCEPT !.call[c] = "woken", !.timer[c] = "stopped"]
  BY DEF onSingleTimerDone, Becomes, Readied
<1>2. /\ resumable' \in HandleQueue(Timed) /\ NoDuplicates(resumable')
      /\ Queued(resumable') = Queued(resumable) \cup {c}
  <2>1. c \notin Queued(resumable) /\ c \in Timed /\ Null \notin Timed
    BY <1>1 DEF TimerInv, TimerQueueInv, Timed
  <2> QED BY <1>1, <2>1, EnqueueHolds DEF TimerInv, TimerType, TimerQueueInv
<1>3. TimerType'
  BY <1>1, <1>2 DEF TimerInv, TimerType, TimerStates, Timed
<1>4. s'.call = [s.call EXCEPT ![c] = "woken"] /\ s'.timer = [s.timer EXCEPT ![c] = "stopped"]
      /\ s'.handle = s.handle /\ s'.awaiterStopped = s.awaiterStopped /\ s'.stopped = s.stopped
      /\ s'.exists = s.exists /\ s'.fault = "none"
  BY <1>1 DEF TimerInv, TimerType, TimerStates, SleepInv
<1>5. TimerQueueInv'
  BY <1>2, <1>4, QueuedType DEF TimerInv, TimerType, TimerStates, TimerQueueInv, Timed
<1> QED BY <1>3, <1>4, <1>5, SleepStepHolds

\* A sleep ends, or is dropped: its timer is closed, and it is in the run queue no
\* more.
LEMMA SleepOverHolds ==
    ASSUME TimerInv, NEW c \in Sleeps, SleepResumes(c) \/ DropSleep(c)
    PROVE  TimerInv'
<1> USE TimerAssumption
<1>1. /\ resumable' \in HandleQueue(Timed) /\ NoDuplicates(resumable')
      /\ Queued(resumable') \subseteq Queued(resumable) \ {c}
      /\ s.call[c] \in {"waiting", "woken"}
      /\ SleepResumes(c) => s.call[c] = "woken"
  <2>1. CASE SleepResumes(c)
    <3>1. /\ Popped \in HandleQueue(Timed) /\ c \in Queued(resumable)
          /\ Queued(resumable) = Queued(Popped) \cup {c}
          /\ NoDuplicates(Popped) /\ c \notin Queued(Popped)
      BY <2>1, ResumedHolds DEF SleepResumes, Resumed, Popped, TimerInv, TimerType, TimerQueueInv
    <3>2. s.call[c] = "woken"
      BY <3>1 DEF TimerInv, TimerQueueInv, SleepInv
    <3> QED BY <2>1, <3>1, <3>2 DEF SleepResumes, Becomes
  <2>2. CASE DropSleep(c)
    <3>1. s.call[c] \in {"waiting", "woken"} /\ resumable' = CancelAll(resumable, {c})
      BY <2>2 DEF DropSleep, Becomes, Dropped
    <3>2. CASE ~SleepResumes(c)
      BY <3>1, <3>2, CancelHolds DEF TimerInv, TimerType, TimerQueueInv
    <3> QED BY <2>1, <3>2
  <2> QED BY <2>1, <2>2
<1>2. \E how \in {"done", "gone"} : s' = [s EXCEPT !.call[c] = how, !.timer[c] = "closing"]
  <2>1. s.timer[c] \in {"armed", "stopped"} /\ (SleepResumes(c) => s.timer[c] = "stopped")
    BY <1>1 DEF TimerInv, SleepInv
  <2>2. CASE SleepResumes(c)
    <3>1. s' = [s EXCEPT !.call[c] = "done", !.fault = s.fault, !.timer[c] = "closing"]
      BY <2>1, <2>2 DEF SleepResumes, Becomes, TimerClosed, TimerInv, TimerType, TimerStates
    <3>2. s' = [s EXCEPT !.call[c] = "done", !.timer[c] = "closing"]
      BY <3>1 DEF TimerInv, TimerType, TimerStates
    <3> QED BY <3>2
  <2>3. CASE DropSleep(c)
    <3>1. s' = [s EXCEPT !.call[c] = "gone", !.timer[c] = "closing"]
      BY <2>1, <2>3 DEF DropSleep, Becomes, TimerClosed, TimerInv, TimerType, TimerStates
    <3> QED BY <3>1
  <2> QED BY <2>2, <2>3
<1>3. PICK how \in {"done", "gone"} : s' = [s EXCEPT !.call[c] = how, !.timer[c] = "closing"]
  BY <1>2
<1>4. TimerType'
  BY <1>1, <1>3 DEF TimerInv, TimerType, TimerStates, Timed
<1>5. s'.call = [s.call EXCEPT ![c] = how] /\ s'.timer = [s.timer EXCEPT ![c] = "closing"]
      /\ s'.handle = s.handle /\ s'.awaiterStopped = s.awaiterStopped /\ s'.stopped = s.stopped
      /\ s'.exists = s.exists /\ s'.fault = "none"
  BY <1>3 DEF TimerInv, TimerType, TimerStates, SleepInv
<1>6. TimerQueueInv'
  BY <1>1, <1>5, QueuedType DEF TimerInv, TimerType, TimerStates, TimerQueueInv, Timed
<1> QED BY <1>4, <1>5, <1>6, SleepStepHolds

\* The generator u goes to the head of its loop; nobody is registered.  It ends
\* because the Ticker was stopped, or closes it at the end of the count, or waits.
TickLoops(st, u) ==
    \/ /\ st.stopped
       /\ s' = [st EXCEPT !.call[u] = "done"]
    \/ /\ ~st.stopped
       /\ s' = [st EXCEPT !.call[u] = "done", !.stopped = TRUE, !.awaiterStopped = TRUE,
                          !.timer["tick"] = "closing"]
    \/ /\ ~st.stopped
       /\ s' = [st EXCEPT !.call[u] = "waiting", !.handle = u]

LEMMA TickLoopCases ==
    ASSUME NEW st \in TimerStates, NEW u \in Tickings, st.handle = Null,
           ~st.stopped => st.timer["tick"] = "armed", s' = TickLoop(st, u)
    PROVE  TickLoops(st, u)
<1> USE TimerAssumption
<1>1. CASE st.stopped
  BY <1>1 DEF TickLoop, TickLoops
<1>2. CASE ~st.stopped /\ CountReached(st)
  <2> DEFINE over == [st EXCEPT !.call[u] = "done"]
             closed == [st EXCEPT !.call[u] = "done", !.stopped = TRUE, !.awaiterStopped = TRUE]
  <2>1. over.handle = Null
    BY DEF TimerStates
  <2>2. [over EXCEPT !.stopped = TRUE, !.awaiterStopped = TRUE, !.handle = Null, !.call = over.call] = closed
    BY DEF TimerStates
  <2>3. TickerClosed(over) = TimerClosed(closed, "tick")
    BY <2>1, <2>2 DEF TickerClosed
  <2>4. closed.timer["tick"] = "armed"
    BY <1>2 DEF TimerStates
  <2>5. TimerClosed(closed, "tick") = [closed EXCEPT !.timer["tick"] = "closing"]
    BY <2>4 DEF TimerClosed
  <2> QED BY <1>2, <2>3, <2>5 DEF TickLoop, TickLoops
<1>3. CASE ~st.stopped /\ ~CountReached(st)
  BY <1>3 DEF TickLoop, TickLoops
<1> QED BY <1>1, <1>2, <1>3

\* A step after which u is not in the run queue unless it was woken or asks
LEMMA TickedHolds ==
    ASSUME TimerInv, NEW st \in TimerStates, NEW u \in Tickings, TickLoops(st, u),
           st.call = s.call, st.timer = s.timer, st.handle = s.handle, st.exists = s.exists,
           st.stopped = s.stopped, st.awaiterStopped = s.awaiterStopped, st.fault = s.fault,
           s.handle = Null, s.exists, \A v \in Tickings : Ticking(v) => v = u,
           resumable' \in HandleQueue(Timed), NoDuplicates(resumable'),
           Queued(resumable') \subseteq Queued(resumable) \ {u}
    PROVE  TimerInv'
<1> USE TimerAssumption
<1>1. /\ st \in TimerStates /\ s'.fault = s.fault /\ s'.exists = s.exists /\ s' \in TimerStates
      /\ \/ /\ s.stopped /\ s'.call = [s.call EXCEPT ![u] = "done"] /\ s'.handle = Null
            /\ s'.stopped = s.stopped /\ s'.awaiterStopped = s.awaiterStopped /\ s'.timer = s.timer
         \/ /\ ~s.stopped /\ s'.call = [s.call EXCEPT ![u] = "done"] /\ s'.handle = Null
            /\ s'.stopped = TRUE /\ s'.awaiterStopped = TRUE
            /\ s'.timer = [s.timer EXCEPT !["tick"] = "closing"]
         \/ /\ ~s.stopped /\ s'.call = [s.call EXCEPT ![u] = "waiting"] /\ s'.handle = u
            /\ s'.stopped = s.stopped /\ s'.awaiterStopped = s.awaiterStopped /\ s'.timer = s.timer
  <2>1. CASE st.stopped /\ s' = [st EXCEPT !.call[u] = "done"]
    BY <2>1 DEF TimerStates, Timed
  <2>2. CASE /\ ~st.stopped
             /\ s' = [st EXCEPT !.call[u] = "done", !.stopped = TRUE, !.awaiterStopped = TRUE,
                                !.timer["tick"] = "closing"]
    BY <2>2 DEF TimerStates, Timed
  <2>3. CASE ~st.stopped /\ s' = [st EXCEPT !.call[u] = "waiting", !.handle = u]
    BY <2>3 DEF TimerStates, Timed
  <2> QED BY <2>1, <2>2, <2>3 DEF TickLoops
<1>2. /\ \A c \in Timed \ {u} : s'.call[c] = s.call[c]
      /\ \A c \in Sleeps : s'.timer[c] = s.timer[c]
      /\ \/ /\ s.stopped /\ s'.call[u] = "done" /\ s'.handle = Null /\ s'.stopped = s.stopped
            /\ s'.awaiterStopped = s.awaiterStopped /\ s'.timer["tick"] = s.timer["tick"]
         \/ /\ ~s.stopped /\ s'.call[u] = "done" /\ s'.handle = Null /\ s'.stopped = TRUE
            /\ s'.awaiterStopped = TRUE /\ s'.timer["tick"] = "closing"
         \/ /\ ~s.stopped /\ s'.call[u] = "waiting" /\ s'.handle = u /\ s'.stopped = s.stopped
            /\ s'.awaiterStopped = s.awaiterStopped /\ s'.timer["tick"] = s.timer["tick"]
  BY <1>1 DEF TimerStates, Timed
<1>3. SleepInv'
  BY <1>1, <1>2 DEF TimerInv, SleepInv, Timed
<1>4. u # Null /\ \A v \in Tickings \ {u} : s.call[v] \notin {"waiting", "woken", "yielded", "asked"}
  BY DEF Ticking
<1>5. TickInv'
  BY <1>1, <1>2, <1>4 DEF TimerInv, TickInv, Ticking, Timed
<1>6. TimerQueueInv'
  BY <1>2, QueuedType DEF TimerInv, TimerQueueInv
<1> QED BY <1>1, <1>3, <1>5, <1>6 DEF TimerInv, TimerType

LEMMA StartTickingHolds ==
    ASSUME TimerInv, NEW u \in Tickings, StartTicking(u)
    PROVE  TimerInv'
<1> USE TimerAssumption
<1> DEFINE st == [s EXCEPT !.counter = 0]
<1>1. /\ s.exists /\ s.call[u] = "new" /\ \A v \in Tickings : ~Ticking(v)
      /\ resumable' = resumable /\ s' = TickLoop(st, u)
  BY DEF StartTicking, Becomes
<1>2. s.handle = Null
  BY <1>1 DEF TimerInv, TickInv, TimerType, TimerStates, Ticking
<1>3. /\ st \in TimerStates /\ st.call = s.call /\ st.timer = s.timer /\ st.handle = s.handle
      /\ st.exists = s.exists /\ st.stopped = s.stopped /\ st.awaiterStopped = s.awaiterStopped
      /\ st.fault = s.fault
  BY DEF TimerInv, TimerType, TimerStates
<1>4. ~s.stopped => s.timer["tick"] = "armed"
  BY <1>1 DEF TimerInv, TickInv
<1> HIDE DEF st
<1>5. TickLoops(st, u)
  BY <1>1, <1>2, <1>3, <1>4, TickLoopCases
<1>6. u \notin Queued(resumable)
  BY <1>1 DEF TimerInv, TimerQueueInv
<1> QED BY <1>1, <1>2, <1>3, <1>5, <1>6, TickedHolds DEF TimerInv, TimerType, TimerQueueInv

\* The scheduler has popped the generator u, which is the one that runs.
LEMMA TickPopped ==
    ASSUME TimerInv, NEW u \in Tickings, Resumed(u)
    PROVE  /\ s.call[u] \in {"woken", "asked"} /\ s.handle = Null /\ s.exists
           /\ \A v \in Tickings : Ticking(v) => v = u
           /\ Popped \in HandleQueue(Timed) /\ NoDuplicates(Popped)
           /\ Queued(Popped) \subseteq Queued(resumable) \ {u}
<1>1. /\ u \in Queued(resumable) /\ Popped \in HandleQueue(Timed) /\ NoDuplicates(Popped)
      /\ Queued(resumable) = Queued(Popped) \cup {u} /\ u \notin Queued(Popped)
  BY ResumedHolds DEF Resumed, Popped, TimerInv, TimerType, TimerQueueInv
<1>2. s.call[u] \in {"woken", "asked"}
  BY <1>1 DEF TimerInv, TimerQueueInv
<1>3. /\ s.exists /\ \A v \in Tickings : Ticking(v) => v = u
  BY <1>2 DEF TimerInv, TickInv, Ticking
<1>4. s.handle = Null
  BY <1>2, <1>3 DEF TimerInv, TickInv, Ticking, TimerType, TimerStates
<1> QED BY <1>1, <1>2, <1>3, <1>4

LEMMA TickResumesHolds ==
    ASSUME TimerInv, NEW u \in Tickings, TickResumes(u) \/ AskedResumes(u)
    PROVE  TimerInv'
<1> USE TimerAssumption
<1>1. /\ s.handle = Null /\ s.exists /\ \A v \in Tickings : Ticking(v) => v = u
      /\ Popped \in HandleQueue(Timed) /\ NoDuplicates(Popped)
      /\ Queued(Popped) \subseteq Queued(resumable) \ {u}
  BY TickPopped DEF TickResumes, AskedResumes
<1>2. resumable' = Popped
  BY DEF TickResumes, AskedResumes, Becomes
<1>3. ~s.stopped => s.timer["tick"] = "armed"
  BY <1>1 DEF TimerInv, TickInv
<1>4. CASE TickResumes(u) /\ s.awaiterStopped
  <2>1. s \in TimerStates /\ s' = TickLoop(s, u)
    BY <1>4 DEF TickResumes, Becomes, TimerInv, TimerType
  <2>2. TickLoops(s, u)
    BY <1>1, <1>3, <2>1, TickLoopCases
  <2> QED BY <1>1, <1>2, <2>1, <2>2, TickedHolds
<1>5. CASE AskedResumes(u)
  <2> DEFINE st == [s EXCEPT !.counter = s.counter + 1]
  <2>1. s' = TickLoop(st, u)
    BY <1>5 DEF AskedResumes, Becomes
  <2>2. /\ st \in TimerStates /\ st.call = s.call /\ st.timer = s.timer /\ st.handle = s.handle
        /\ st.exists = s.exists /\ st.stopped = s.stopped /\ st.awaiterStopped = s.awaiterStopped
        /\ st.fault = s.fault
    BY DEF TimerInv, TimerType, TimerStates
  <2> HIDE DEF st
  <2>3. TickLoops(st, u)
    BY <1>1, <1>3, <2>1, <2>2, TickLoopCases
  <2> QED BY <1>1, <1>2, <2>2, <2>3, TickedHolds
<1>6. CASE TickResumes(u) /\ ~s.awaiterStopped
  <2>1. s' = [s EXCEPT !.call[u] = "yielded"] /\ s.call[u] = "woken"
    BY <1>6 DEF TickResumes, Becomes
  <2>2. TimerType'
    BY <1>1, <1>2, <2>1 DEF TimerInv, TimerType, TimerStates, Timed
  <2>3. s'.call = [s.call EXCEPT ![u] = "yielded"] /\ s'.timer = s.timer /\ s'.handle = s.handle
        /\ s'.exists = s.exists /\ s'.stopped = s.stopped /\ s'.awaiterStopped = s.awaiterStopped
        /\ s'.fault = s.fault
    BY <2>1 DEF TimerInv, TimerType, TimerStates
  <2>4. SleepInv' /\ TickInv'
    BY <2>1, <2>3 DEF TimerInv, SleepInv, TickInv, Ticking, TimerType, TimerStates, Timed
  <2>5. TimerQueueInv'
    BY <1>1, <1>2, <2>3, QueuedType DEF TimerInv, TimerQueueInv, TimerType, TimerStates
  <2> QED BY <2>2, <2>4, <2>5 DEF TimerInv
<1> QED BY <1>4, <1>5, <1>6

\* Somebody waits for the tick timer of an open Ticker only; it is the only
\* generator, and not in the run queue.
LEMMA TickRegistered ==
    ASSUME TimerInv, s.handle # Null
    PROVE  /\ s.handle \in Tickings /\ s.call[s.handle] = "waiting" /\ s.handle \notin Queued(resumable)
           /\ s.exists /\ ~s.stopped /\ \A v \in Tickings : Ticking(v) => v = s.handle
<1>1. s.handle \in Tickings /\ s.call[s.handle] = "waiting"
  BY DEF TimerInv, TimerType, TimerStates, TickInv
<1>2. s.handle \notin Queued(resumable)
  BY <1>1 DEF TimerInv, TimerQueueInv
<1>3. s.exists /\ ~s.stopped
  BY DEF TimerInv, TickInv
<1> QED BY <1>1, <1>2, <1>3 DEF TimerInv, TickInv, Ticking

LEMMA AskTickHolds ==
    ASSUME TimerInv, NEW u \in Tickings, AskTick(u)
    PROVE  TimerInv'
<1> USE TimerAssumption
<1>1. /\ s.call[u] = "yielded" /\ resumable' = Enqueue(resumable, u)
      /\ s' = [s EXCEPT !.call[u] = "asked"]
  BY DEF AskTick, Becomes, Readied
<1>2. /\ resumable' \in HandleQueue(Timed) /\ NoDuplicates(resumable')
      /\ Queued(resumable') = Queued(resumable) \cup {u}
  <2>1. u \notin Queued(resumable) /\ u \in Timed /\ Null \notin Timed
    BY <1>1 DEF TimerInv, TimerQueueInv, Timed
  <2> QED BY <1>1, <2>1, EnqueueHolds DEF TimerInv, TimerType, TimerQueueInv
<1>3. TimerType'
  BY <1>1, <1>2 DEF TimerInv, TimerType, TimerStates, Timed
<1>4. s'.call = [s.call EXCEPT ![u] = "asked"] /\ s'.timer = s.timer /\ s'.handle = s.handle
      /\ s'.exists = s.exists /\ s'.stopped = s.stopped /\ s'.awaiterStopped = s.awaiterStopped
      /\ s'.fault = s.fault
  BY <1>1 DEF TimerInv, TimerType, TimerStates
<1>5. SleepInv' /\ TickInv'
  BY <1>1, <1>4 DEF TimerInv, SleepInv, TickInv, Ticking, TimerType, TimerStates, Timed
<1>6. TimerQueueInv'
  BY <1>2, <1>4, QueuedType DEF TimerInv, TimerQueueInv, TimerType, TimerStates, Timed
<1> QED BY <1>3, <1>5, <1>6 DEF TimerInv

LEMMA DropTickingHolds ==
    ASSUME TimerInv, TimerUse, NEW u \in Tickings, DropTicking(u)
    PROVE  TimerInv'
<1> USE TimerAssumption
<1>1. /\ s.handle # u /\ resumable' = CancelAll(resumable, {u}) /\ s' = [s EXCEPT !.call[u] = "gone"]
  BY DEF DropTicking, Becomes, Dropped, TimerUse
<1>2. /\ resumable' \in HandleQueue(Timed) /\ NoDuplicates(resumable')
      /\ Queued(resumable') = Queued(resumable) \ {u}
  BY <1>1, CancelHolds DEF TimerInv, TimerType, TimerQueueInv
<1>3. TimerType'
  BY <1>1, <1>2 DEF TimerInv, TimerType, TimerStates, Timed
<1>4. s'.call = [s.call EXCEPT ![u] = "gone"] /\ s'.timer = s.timer /\ s'.handle = s.handle
      /\ s'.exists = s.exists /\ s'.stopped = s.stopped /\ s'.awaiterStopped = s.awaiterStopped
      /\ s'.fault = s.fault
  BY <1>1 DEF TimerInv, TimerType, TimerStates
<1>5. SleepInv' /\ TickInv'
  BY <1>1, <1>4 DEF TimerInv, SleepInv, TickInv, Ticking, TimerType, TimerStates, Timed
<1>6. TimerQueueInv'
  BY <1>2, <1>4, QueuedType DEF TimerInv, TimerQueueInv, TimerType, TimerStates, Timed
<1> QED BY <1>3, <1>5, <1>6 DEF TimerInv

\* A tick, or close(), wakes the generator that waits.
LEMMA TickWakes ==
    ASSUME TimerInv, TimerType', s.handle # Null, resumable' = Enqueue(resumable, s.handle),
           s'.call = [s.call EXCEPT ![s.handle] = "woken"]
    PROVE  TimerQueueInv'
<1> USE TimerAssumption
<1>1. s.handle \in Timed /\ s.handle \notin Queued(resumable) /\ Null \notin Timed
  BY TickRegistered DEF Timed
<1>2. NoDuplicates(resumable') /\ Queued(resumable') = Queued(resumable) \cup {s.handle}
  BY <1>1, EnqueueHolds DEF TimerInv, TimerType, TimerQueueInv
<1> QED BY <1>1, <1>2, QueuedType DEF TimerInv, TimerQueueInv, TimerType, TimerStates

LEMMA TickFiredHolds ==
    ASSUME TimerInv, onMultiTimerFired
    PROVE  TimerInv'
<1> USE TimerAssumption
<1> DEFINE u == s.handle
<1>1. /\ u # Null /\ resumable' = Enqueue(resumable, u)
      /\ s' = [s EXCEPT !.handle = Null, !.call[u] = "woken"]
  BY DEF onMultiTimerFired, Becomes, Readied
<1>2. u \in Tickings /\ s.exists /\ \A v \in Tickings : Ticking(v) => v = u
  BY <1>1, TickRegistered
<1>3. TimerType'
  <2>1. resumable' \in HandleQueue(Timed)
    BY <1>1, <1>2, EnqueueHolds DEF TimerInv, TimerType, Timed
  <2> QED BY <1>1, <1>2, <2>1 DEF TimerInv, TimerType, TimerStates, Timed
<1>4. s'.call = [s.call EXCEPT ![u] = "woken"] /\ s'.timer = s.timer /\ s'.handle = Null
      /\ s'.exists = s.exists /\ s'.stopped = s.stopped /\ s'.awaiterStopped = s.awaiterStopped
      /\ s'.fault = s.fault
  BY <1>1, <1>2 DEF TimerInv, TimerType, TimerStates
<1>5. TimerQueueInv'
  BY <1>1, <1>3, <1>4, TickWakes
<1>6. u \notin Sleeps /\ s.call[u] = "waiting"
  BY <1>1, <1>2, TickRegistered
<1> HIDE DEF u
<1>7. SleepInv'
  BY <1>4, <1>2, <1>6 DEF TimerInv, SleepInv, TimerType, TimerStates, Timed
<1>8. /\ s'.call[u] = "woken" /\ \A v \in Tickings \ {u} : s'.call[v] = s.call[v] /\ ~Ticking(v)
  BY <1>2, <1>4 DEF TimerInv, TimerType, TimerStates, Timed
<1>9. TickInv'
  BY <1>2, <1>4, <1>8 DEF TimerInv, TickInv, Ticking
<1> QED BY <1>3, <1>5, <1>7, <1>9 DEF TimerInv

LEMMA TickerCloseHolds ==
    ASSUME TimerInv, TickerClose
    PROVE  TimerInv'
<1> USE TimerAssumption
<1> DEFINE u == s.handle
           call == IF u = Null THEN s.call ELSE [s.call EXCEPT ![u] = "woken"]
           stopped == [s EXCEPT !.stopped = TRUE, !.awaiterStopped = TRUE, !.handle = Null, !.call = call]
<1>1. /\ s.exists /\ ~s.stopped /\ s.timer["tick"] = "armed"
      /\ resumable' = IF u = Null THEN resumable ELSE Enqueue(resumable, u)
  BY DEF TickerClose, Becomes, Readied, TimerInv, TickInv
<1>2. s' = TimerClosed(stopped, "tick")
  BY DEF TickerClose, Becomes, TickerClosed
<1>3. u # Null => u \in Tickings /\ \A v \in Tickings : Ticking(v) => v = u
  BY TickRegistered
<1>4. call \in [Timed -> {"new", "waiting", "woken", "yielded", "asked", "done", "gone"}]
  BY <1>3 DEF TimerInv, TimerType, TimerStates, Timed
<1> HIDE DEF call
<1>5. stopped.timer["tick"] = "armed"
  BY <1>1 DEF TimerInv, TimerType, TimerStates
<1>6. s' = [stopped EXCEPT !.timer["tick"] = "closing"]
  BY <1>2, <1>5 DEF TimerClosed
<1>7. s' \in TimerStates
  BY <1>4, <1>6 DEF TimerInv, TimerType, TimerStates
<1>8. /\ s'.call = call /\ s'.timer = [s.timer EXCEPT !["tick"] = "closing"] /\ s'.handle = Null
      /\ s'.exists = s.exists /\ s'.stopped = TRUE /\ s'.awaiterStopped = TRUE /\ s'.fault = s.fault
  BY <1>6 DEF TimerInv, TimerType, TimerStates
<1>9. TimerType'
  <2>1. resumable' \in HandleQueue(Timed)
    BY <1>1, <1>3, EnqueueHolds DEF TimerInv, TimerType, Timed
  <2> QED BY <1>7, <2>1 DEF TimerType
<1>10. TimerQueueInv'
  <2>1. CASE u = Null
    BY <1>1, <1>8, <2>1 DEF TimerInv, TimerQueueInv, call
  <2>2. CASE u # Null
    BY <1>1, <1>8, <1>9, <2>2, TickWakes DEF call
  <2> QED BY <2>1, <2>2
<1>11. /\ \A c \in Sleeps : s'.call[c] = s.call[c] /\ s'.timer[c] = s.timer[c]
       /\ s'.timer["tick"] = "closing"
  BY <1>3, <1>8 DEF TimerInv, TimerType, TimerStates, Timed, call
<1>12. SleepInv'
  BY <1>8, <1>11 DEF TimerInv, SleepInv
<1>13. \A v \in Tickings : s'.call[v] # "waiting" /\ (s'.call[v] # s.call[v] => s'.call[v] = "woken" /\ v = u)
  <2>1. CASE u = Null
    BY <1>8, <2>1 DEF TimerInv, TickInv, call
  <2>2. CASE u # Null
    BY <1>3, <1>8, <2>2 DEF TimerInv, TickInv, TimerType, TimerStates, Timed, Ticking, call
  <2> QED BY <2>1, <2>2
<1> HIDE DEF u
<1>14. TickInv'
  BY <1>1, <1>3, <1>8, <1>11, <1>13 DEF TimerInv, TickInv, Ticking
<1> QED BY <1>9, <1>10, <1>12, <1>14 DEF TimerInv

LEMMA DropTickerHolds ==
    ASSUME TimerInv, DropTicker
    PROVE  TimerInv'
<1> USE TimerAssumption
<1> DEFINE running == {u \in Tickings : Ticking(u)}
           call == [c \in Timed |-> IF c \in running THEN "gone" ELSE s.call[c]]
           dropped == [s EXCEPT !.exists = FALSE, !.handle = Null, !.call = call]
           timer == IF s.timer["tick"] = "armed" THEN [s.timer EXCEPT !["tick"] = "closing"] ELSE s.timer
<1>1. /\ s.exists /\ resumable' = CancelAll(resumable, running)
      /\ s' = TimerClosed([s EXCEPT !.exists = FALSE, !.handle = Null,
                            !.call = [c \in DOMAIN s.call |-> IF c \in running THEN "gone" ELSE s.call[c]]],
                          "tick")
  BY DEF DropTicker, Becomes
<1>2. DOMAIN s.call = Timed
  BY DEF TimerInv, TimerType, TimerStates
<1>3. s' = TimerClosed(dropped, "tick")
  BY <1>1, <1>2
<1>4. call \in [Timed -> {"new", "waiting", "woken", "yielded", "asked", "done", "gone"}]
  BY DEF TimerInv, TimerType, TimerStates
<1>5. /\ \A c \in running : call[c] = "gone"
      /\ \A c \in Timed \ running : call[c] = s.call[c]
  BY DEF Timed
<1>6. \A u \in Tickings : call[u] \notin {"waiting", "woken", "yielded", "asked"}
                           /\ (call[u] = "done" => s.call[u] = "done")
  BY <1>5 DEF Ticking, Timed
<1>7. /\ resumable' \in HandleQueue(Timed) /\ NoDuplicates(resumable')
      /\ Queued(resumable') = Queued(resumable) \ running
  BY <1>1, CancelHolds DEF TimerInv, TimerType, TimerQueueInv
<1>8. running \subseteq Tickings
  OBVIOUS
<1> HIDE DEF call, running
<1>9. dropped.timer = s.timer
  BY DEF TimerInv, TimerType, TimerStates
<1>10. /\ s'.call = call /\ s'.handle = Null /\ s'.exists = FALSE /\ s'.stopped = s.stopped
       /\ s'.awaiterStopped = s.awaiterStopped /\ s'.fault = s.fault /\ s'.timer = timer
       /\ s' \in TimerStates
  <2>1. CASE s.timer["tick"] = "armed"
    <3>1. s' = [dropped EXCEPT !.timer["tick"] = "closing"]
      BY <1>3, <1>9, <2>1 DEF TimerClosed
    <3> QED BY <1>4, <2>1, <3>1 DEF TimerInv, TimerType, TimerStates
  <2>2. CASE s.timer["tick"] # "armed"
    <3>1. s.timer["tick"] # "stopped"
      BY DEF TimerInv, TickInv
    <3>2. s' = dropped
      BY <1>3, <1>9, <2>2, <3>1 DEF TimerClosed
    <3> QED BY <1>4, <2>2, <3>2 DEF TimerInv, TimerType, TimerStates
  <2> QED BY <2>1, <2>2
<1>11. /\ \A c \in Sleeps : s'.timer[c] = s.timer[c] /\ s'.call[c] = s.call[c]
       /\ s'.timer["tick"] \in {"closing", "freed"}
  <2>1. \A c \in Sleeps : s'.call[c] = s.call[c]
    BY <1>5, <1>8, <1>10 DEF Timed
  <2>2. CASE s.timer["tick"] = "armed"
    BY <1>10, <2>1, <2>2 DEF TimerInv, TimerType, TimerStates
  <2>3. CASE s.timer["tick"] # "armed"
    BY <1>10, <2>1, <2>3 DEF TimerInv, TickInv
  <2> QED BY <2>2, <2>3
<1> HIDE DEF timer
<1>12. SleepInv'
  BY <1>10, <1>11 DEF TimerInv, SleepInv
<1>13. TickInv'
  BY <1>6, <1>10, <1>11 DEF TimerInv, TickInv, Ticking
<1>14. TimerQueueInv'
  BY <1>5, <1>7, <1>10, QueuedType DEF TimerInv, TimerType, TimerQueueInv
<1> QED BY <1>7, <1>10, <1>12, <1>13, <1>14 DEF TimerInv, TimerType

LEMMA TimerClosedHolds ==
    ASSUME TimerInv, NEW t \in Sleeps \cup {"tick"}, onTimerClosed(t)
    PROVE  TimerInv'
<1> USE TimerAssumption
<1>1. s.timer[t] = "closing" /\ resumable' = resumable /\ s' = [s EXCEPT !.timer[t] = "freed"]
  BY DEF onTimerClosed, Becomes
<1>2. /\ s' \in TimerStates /\ s'.call = s.call /\ s'.handle = s.handle /\ s'.exists = s.exists
      /\ s'.stopped = s.stopped /\ s'.awaiterStopped = s.awaiterStopped /\ s'.fault = s.fault
      /\ s'.timer = [s.timer EXCEPT ![t] = "freed"]
  BY <1>1 DEF TimerInv, TimerType, TimerStates
<1>3. s'.timer[t] = "freed" /\ \A r \in (Sleeps \cup {"tick"}) \ {t} : s'.timer[r] = s.timer[r]
  BY <1>2 DEF TimerInv, TimerType, TimerStates
<1>4. SleepInv'
  BY <1>1, <1>2, <1>3 DEF TimerInv, SleepInv
<1>5. TickInv'
  <2>1. CASE t = "tick"
    BY <1>1, <1>2, <1>3, <2>1 DEF TimerInv, TickInv, Ticking
  <2>2. CASE t # "tick"
    BY <1>1, <1>2, <1>3, <2>2 DEF TimerInv, TickInv, Ticking
  <2> QED BY <2>1, <2>2
<1> QED BY <1>1, <1>2, <1>4, <1>5 DEF TimerInv, TimerType, TimerQueueInv

LEMMA TimerInductive ==
    ASSUME TimerUse
    PROVE  TimerInv /\ [TimerNext \/ TakeTurns]_vars => TimerInv'
<1> SUFFICES ASSUME TimerInv, [TimerNext \/ TakeTurns]_vars PROVE TimerInv'
  OBVIOUS
<1>1. CASE TimerNext
  BY <1>1, SleepHolds, SleepDoneHolds, SleepOverHolds, StartTickingHolds, TickResumesHolds,
     AskTickHolds, DropTickingHolds, TickerCloseHolds, DropTickerHolds, TickFiredHolds,
     TimerClosedHolds DEF TimerNext
<1>2. CASE TakeTurns
  <2>1. /\ s' = s /\ resumable' \in HandleQueue(Timed) /\ Queued(resumable') = Queued(resumable)
        /\ NoDuplicates(resumable')
    BY <1>2, TurnsHold DEF TimerInv, TimerType, TimerQueueInv
  <2> QED BY <2>1 DEF TimerInv, TimerType, SleepInv, TickInv, Ticking, TimerQueueInv
<1>3. CASE UNCHANGED vars
  BY <1>3 DEF vars, turnVars, TimerInv, TimerType, SleepInv, TickInv, Ticking, TimerQueueInv
<1> QED BY <1>1, <1>2, <1>3

\* Timers, awaiters and coroutines agree, wherever ticks, close() and drops fall:
\* whoever waits has a timer that will fire, the Ticker knows the generator that
\* waits and no other one, no timer keeps running for somebody who has ended, and a
\* sleep is only ever resumed by its own timer, as sleep() asserts (timer.cc:96).
THEOREM TimersSound ==
    ASSUME TimerUse
    PROVE  TimerSpec => []TimersServe
<1>1. TimerInv => TimersServe
  BY DEF TimerInv, SleepInv, TickInv, TimersServe, TimerServesWaiting, NoTimerLeft, SleepVerifies
<1> QED BY <1>1, TimerInitHolds, TimerInductive, PTL DEF TimerSpec

\* Each coroutine in the run queue is there once and is suspended.
THEOREM TimerQueuesSuspended ==
    ASSUME TimerUse
    PROVE  TimerSpec => []TimerQueueSound
<1>1. TimerInv => TimerQueueSound
  BY QueuedType DEF TimerInv, TimerType, TimerQueueInv, TimerQueueSound, QueueIsSound, Timed
<1> QED BY <1>1, TimerInitHolds, TimerInductive, PTL DEF TimerSpec

----------------------------------------------------------------------------
(* TaskSet                                                                 *)

TaskSetStates ==
    [is: {"taskset"}, tasks: SUBSET Tasks, doneTasks: Seq(Tasks), adding: Seq(Tasks),
     waiters: HandleQueue(Waiters),
     task: [Tasks -> {"new", "running", "finished", "ended", "gone"}],
     onEmpty: [Waiters -> {"idle", "waiting", "returned", "gone"}], early: BOOLEAN]

\* A wrapper that is being entered has been called, and is a task of its own; if
\* it has ended, that was early.
AddingInv ==
    /\ NoDuplicates(s.adding)
    /\ \A t \in Queued(s.adding) :
         /\ s.task[t] \in {"running", "finished", "ended"}
         /\ s.task[t] = "ended" => s.early

\* Only tasks that have ended are erased, and all active ones are in the map.
EntriesInv ==
    /\ IsFiniteSet(s.tasks)
    /\ Active \subseteq s.tasks
    /\ \A d \in Queued(s.doneTasks) : s.task[d] = "ended"

\* As long as no wrapper has ended early, the map holds the active tasks, and of the
\* others the one that ended last.
DoneInv ==
    ~s.early =>
    \/ s.doneTasks = <<>> /\ s.tasks = Active
    \/ \E d \in Tasks : /\ s.doneTasks = <<d>> /\ s.task[d] = "ended"
                        /\ s.tasks = Active \cup {d}

\* Those who wait are either registered or in the run queue, and, as long as no
\* wrapper has ended early, registered only while a task is active.
WaitInv ==
    /\ NoDuplicates(s.waiters)
    /\ \A w \in Queued(s.waiters) : s.onEmpty[w] = "waiting" /\ w \notin Queued(resumable)
    /\ ~s.early /\ s.waiters # <<>> => Active # {}

TaskQueueInv ==
    /\ resumable \in HandleQueue(Tasks \cup Waiters)
    /\ NoDuplicates(resumable)
    /\ \A t \in Tasks : t \in Queued(resumable) => s.task[t] = "finished"
    /\ \A w \in Waiters : w \in Queued(resumable) => s.onEmpty[w] = "waiting"

TaskSetInv ==
    s \in TaskSetStates /\ AddingInv /\ EntriesInv /\ DoneInv /\ WaitInv /\ TaskQueueInv

\* The program avoids what TaskSet's comment says it avoids.
TaskSetUse == "drop early" \notin Relaxed

LEMMA TaskSetInitHolds == TaskSetInit => TaskSetInv
<1> SUFFICES ASSUME TaskSetInit PROVE TaskSetInv
  OBVIOUS
<1>1. resumable = <<>> /\ s.waiters = <<>> /\ s.doneTasks = <<>> /\ s.tasks = {}
      /\ s.adding = <<>> /\ \A t \in Tasks : s.task[t] = "new"
  BY DEF TaskSetInit, TurnInit
<1>2. /\ <<>> \in HandleQueue(Tasks \cup Waiters) /\ <<>> \in HandleQueue(Waiters)
      /\ Queued(<<>>) = {} /\ NoDuplicates(<<>>)
  BY EmptyHolds
<1>3. s \in TaskSetStates
  BY <1>2 DEF TaskSetInit, TaskSetStates
<1>4. IsFiniteSet({})
  BY FS_EmptySet
<1> QED BY <1>1, <1>2, <1>3, <1>4
        DEF TaskSetInv, AddingInv, EntriesInv, DoneInv, WaitInv, TaskQueueInv, Active

\* As long as no wrapper has ended early, the difference of the two sizes is the
\* number of active tasks.
LEMMA ActiveCount ==
    ASSUME TaskSetInv, ~s.early
    PROVE  /\ IsFiniteSet(Active) /\ Cardinality(Active) \in Nat
           /\ \A n \in Nat : active(n) <=> Cardinality(Active) = n
<1>1. IsFiniteSet(Active) /\ Cardinality(Active) \in Nat
  BY FS_Subset, FS_CardinalityType DEF TaskSetInv, EntriesInv
<1>2. CASE s.doneTasks = <<>> /\ s.tasks = Active
  BY <1>1, <1>2 DEF active
<1>3. CASE \E d \in Tasks : s.doneTasks = <<d>> /\ s.task[d] = "ended" /\ s.tasks = Active \cup {d}
  <2>1. PICK d \in Tasks : s.doneTasks = <<d>> /\ s.task[d] = "ended" /\ s.tasks = Active \cup {d}
    BY <1>3
  <2>2. d \notin Active
    BY <2>1 DEF Active
  <2>3. Cardinality(s.tasks) = Cardinality(Active) + 1
    BY <1>1, <2>1, <2>2, FS_AddElement
  <2>4. Len(s.doneTasks) = 1
    BY <2>1
  <2> QED BY <1>1, <2>3, <2>4 DEF active
<1> QED BY <1>1, <1>2, <1>3 DEF TaskSetInv, DoneInv

LEMMA ActiveSizes ==
    ASSUME TaskSetInv, ~s.early
    PROVE  /\ active(0) <=> Active = {}
           /\ active(1) <=> \E t \in Tasks : Active = {t}
<1>1. active(0) <=> Active = {}
  BY ActiveCount, FS_EmptySet
<1>2. active(1) => \E t \in Tasks : Active = {t}
  <2> SUFFICES ASSUME active(1) PROVE \E t \in Tasks : Active = {t}
    OBVIOUS
  <2>1. Cardinality(Active) = 1 /\ IsFiniteSet(Active)
    BY ActiveCount
  <2>2. PICK t : Active = {t}
    BY <2>1, FS_Singleton
  <2> QED BY <2>2 DEF Active
<1>3. (\E t \in Tasks : Active = {t}) => active(1)
  BY ActiveCount, FS_Singleton
<1> QED BY <1>1, <1>2, <1>3

\* The end of wrap(): queue is the run queue without t, and what is entered, if
\* anything, is t.
LEMMA WrapEndsHolds ==
    ASSUME TaskSetInv, NEW t \in Tasks, NEW queue \in HandleQueue(Tasks \cup Waiters),
           NEW entering \in {{}, {t}},
           NoDuplicates(queue), Queued(queue) = Queued(resumable) \ {t},
           WrapEnds(t, queue, entering),
           entering = {} => s.task[t] = "finished",
           entering = {t} => s.task[t] = "new"
    PROVE  TaskSetInv'
<1> USE TaskSetAssumption
<1> DEFINE released == IF LastOne THEN s.waiters ELSE <<>>
           waiters == SubSeq(s.waiters, Len(released) + 1, Len(s.waiters))
           tasks == (s.tasks \ Queued(s.doneTasks)) \cup entering
           early == s.early \/ t \in Queued(s.adding)
<1>1. /\ resumable' = queue \o released
      /\ s' = [s EXCEPT !.waiters = waiters, !.tasks = tasks, !.doneTasks = <<t>>,
                        !.task[t] = "ended", !.early = early]
  BY DEF WrapEnds, Becomes, releaseAll, Listed
<1>2. ~early => tasks = Active \cup {t}
  <2> SUFFICES ASSUME ~early PROVE tasks = Active \cup {t}
    OBVIOUS
  <2>1. CASE s.doneTasks = <<>> /\ s.tasks = Active
    BY <2>1, EmptyHolds DEF Active
  <2>2. CASE \E d \in Tasks : s.doneTasks = <<d>> /\ s.task[d] = "ended" /\ s.tasks = Active \cup {d}
    <3>1. PICK d \in Tasks : s.doneTasks = <<d>> /\ s.task[d] = "ended" /\ s.tasks = Active \cup {d}
      BY <2>2
    <3>2. Queued(<<d>>) = {d}
      BY DEF Queued
    <3>3. d \notin Active
      BY <3>1 DEF Active
    <3>4. entering = {} => t \in Active
      BY DEF Active
    <3> QED BY <3>1, <3>2, <3>3, <3>4
  <2> QED BY <2>1, <2>2 DEF TaskSetInv, DoneInv
<1>3. tasks \in SUBSET Tasks /\ IsFiniteSet(tasks) /\ Active \ {t} \subseteq tasks
  <2>1. IsFiniteSet(s.tasks \ Queued(s.doneTasks))
    BY FS_Subset DEF TaskSetInv, EntriesInv
  <2>2. IsFiniteSet(tasks)
    BY <2>1, FS_AddElement
  <2> QED BY <2>2 DEF TaskSetInv, TaskSetStates, EntriesInv, Active
<1>4. /\ waiters \in HandleQueue(Waiters) /\ resumable' \in HandleQueue(Tasks \cup Waiters)
      /\ \/ LastOne /\ waiters = <<>> /\ resumable' = queue \o s.waiters
         \/ ~LastOne /\ waiters = s.waiters /\ resumable' = queue
  <2>1. s.waiters \in HandleQueue(Waiters) /\ s.waiters \in HandleQueue(Tasks \cup Waiters)
    BY DEF TaskSetInv, TaskSetStates, HandleQueue
  <2>2. CASE LastOne
    <3>1. released = s.waiters /\ waiters = <<>>
      BY <2>1, <2>2 DEF HandleQueue
    <3>2. queue \o s.waiters \in HandleQueue(Tasks \cup Waiters)
      BY <2>1, ConcatHolds
    <3>3. resumable' = queue \o s.waiters
      BY <1>1, <3>1
    <3>4. waiters \in HandleQueue(Waiters)
      BY <3>1, EmptyHolds
    <3> QED BY <2>2, <3>1, <3>2, <3>3, <3>4
  <2>3. CASE ~LastOne
    <3>1. released = <<>> /\ waiters = s.waiters /\ queue \o <<>> = queue
      BY <2>1, <2>3 DEF HandleQueue
    <3> QED BY <1>1, <2>1, <2>3, <3>1
  <2> QED BY <2>2, <2>3
<1>5. early \in BOOLEAN /\ (~early => ~s.early /\ t \notin Queued(s.adding))
  BY DEF TaskSetInv, TaskSetStates
<1> HIDE DEF waiters, tasks, released, early
<1>6. s' \in TaskSetStates
  <2>1. <<t>> \in Seq(Tasks)
    OBVIOUS
  <2> QED BY <1>1, <1>3, <1>4, <1>5, <2>1 DEF TaskSetInv, TaskSetStates
<1>7. /\ s'.waiters = waiters /\ s'.tasks = tasks /\ s'.doneTasks = <<t>>
      /\ s'.task = [s.task EXCEPT ![t] = "ended"] /\ s'.onEmpty = s.onEmpty
      /\ s'.adding = s.adding /\ s'.early = early
  BY <1>1 DEF TaskSetInv, TaskSetStates
<1>8. s'.task[t] = "ended" /\ \A u \in Tasks \ {t} : s'.task[u] = s.task[u]
  BY <1>7 DEF TaskSetInv, TaskSetStates
<1>9. Active' = Active \ {t}
  BY <1>7, <1>8 DEF Active
<1>10. AddingInv' /\ EntriesInv' /\ DoneInv'
  <2>1. Queued(s.adding) \subseteq Tasks
    BY DEF TaskSetInv, TaskSetStates, Queued
  <2>2. t \in Queued(s.adding) => early
    BY DEF early
  <2>3. s.early => early
    BY DEF early
  <2>4. AddingInv'
    BY <1>7, <1>8, <2>1, <2>2, <2>3 DEF TaskSetInv, AddingInv
  <2>5. Queued(<<t>>) = {t}
    BY DEF Queued
  <2>6. EntriesInv'
    BY <1>3, <1>7, <1>8, <1>9, <2>5 DEF EntriesInv
  <2>7. DoneInv'
    BY <1>2, <1>7, <1>8, <1>9 DEF DoneInv
  <2> QED BY <2>4, <2>6, <2>7
<1>11. CASE LastOne
  <2>1. waiters = <<>> /\ resumable' = queue \o s.waiters
    BY <1>4, <1>11
  <2>2. Queued(waiters) = {} /\ NoDuplicates(waiters)
    BY <2>1, EmptyHolds
  <2>3. WaitInv'
    BY <1>7, <2>1, <2>2 DEF WaitInv
  <2>4. /\ Queued(resumable') = Queued(queue) \cup Queued(s.waiters)
        /\ NoDuplicates(resumable')
    <3>1. s.waiters \in HandleQueue(Tasks \cup Waiters) /\ NoDuplicates(s.waiters)
          /\ Queued(queue) \cap Queued(s.waiters) = {}
      BY DEF TaskSetInv, TaskSetStates, HandleQueue, WaitInv
    <3> QED BY <2>1, <3>1, ConcatHolds
  <2>5. Queued(s.waiters) \subseteq Waiters
    BY QueuedType DEF TaskSetInv, TaskSetStates
  <2>6. TaskQueueInv'
    BY <1>4, <1>7, <1>8, <2>4, <2>5 DEF TaskSetInv, TaskQueueInv, WaitInv
  <2> QED BY <1>6, <1>10, <2>3, <2>6 DEF TaskSetInv
<1>12. CASE ~LastOne
  <2>1. waiters = s.waiters /\ resumable' = queue
    BY <1>4, <1>12
  <2>2. ~early /\ s.waiters # <<>> => Active \ {t} # {}
    <3>1. ~early => ~s.early /\ (s.waiters # <<>> => Active # {})
      BY <1>5 DEF TaskSetInv, WaitInv
    <3>2. ~s.early => ~(\E u \in Tasks : Active = {u})
      BY <1>12, ActiveSizes DEF LastOne
    <3> QED BY <3>1, <3>2
  <2>3. WaitInv'
    BY <1>7, <1>9, <2>1, <2>2 DEF TaskSetInv, WaitInv
  <2>4. TaskQueueInv'
    BY <1>7, <1>8, <2>1 DEF TaskSetInv, TaskQueueInv
  <2> QED BY <1>6, <1>10, <2>3, <2>4 DEF TaskSetInv
<1> QED BY <1>11, <1>12

LEMMA WrapHolds ==
    ASSUME TaskSetInv, NEW t \in Tasks, AddFinishedTask(t) \/ WrapResumes(t)
    PROVE  TaskSetInv'
<1>1. CASE AddFinishedTask(t)
  <2>1. s.task[t] = "new" /\ WrapEnds(t, resumable, {t})
    BY <1>1 DEF AddFinishedTask
  <2>2. /\ resumable \in HandleQueue(Tasks \cup Waiters) /\ NoDuplicates(resumable)
        /\ Queued(resumable) = Queued(resumable) \ {t}
    BY <2>1 DEF TaskSetInv, TaskQueueInv
  <2> QED BY <2>1, <2>2, WrapEndsHolds
<1>2. CASE WrapResumes(t)
  <2>1. /\ Popped \in HandleQueue(Tasks \cup Waiters) /\ NoDuplicates(Popped)
        /\ Queued(resumable) = Queued(Popped) \cup {t} /\ t \notin Queued(Popped)
    BY <1>2, ResumedHolds DEF WrapResumes, Resumed, Popped, TaskSetInv, TaskQueueInv
  <2>2. s.task[t] = "finished" /\ Queued(Popped) = Queued(resumable) \ {t}
    BY <2>1 DEF TaskSetInv, TaskQueueInv
  <2>3. WrapEnds(t, Popped, {})
    BY <1>2 DEF WrapResumes
  <2> QED BY <2>1, <2>2, <2>3, WrapEndsHolds
<1> QED BY <1>1, <1>2

----------------------------------------------------------------------------
\* What a step that changes neither the map nor the stack of calls leaves to show
LEMMA TaskSetKeeps ==
    ASSUME s' \in TaskSetStates, s'.tasks = s.tasks, s'.doneTasks = s.doneTasks, TaskSetInv,
           s'.adding = s.adding, s'.early = s.early,
           \A t \in Tasks : \/ s'.task[t] = s.task[t]
                            \/ s.task[t] = "running" /\ s'.task[t] = "finished",
           WaitInv', TaskQueueInv'
    PROVE  TaskSetInv'
<1>1. Active' = Active
  BY DEF Active
<1>2. Queued(s.doneTasks) \subseteq Tasks /\ Queued(s.adding) \subseteq Tasks
  BY DEF TaskSetInv, TaskSetStates, Queued
<1>3. DoneInv'
  BY <1>1 DEF TaskSetInv, DoneInv
<1>4. AddingInv' /\ EntriesInv'
  BY <1>1, <1>2 DEF TaskSetInv, AddingInv, EntriesInv
<1> QED BY <1>3, <1>4 DEF TaskSetInv

\* add() calls the wrapper, which is not in the map yet.
LEMMA AddCallsHolds ==
    ASSUME TaskSetInv, NEW t \in Tasks, AddCallsWrap(t)
    PROVE  TaskSetInv'
<1> USE TaskSetAssumption
<1>1. s.task[t] = "new" /\ resumable' = resumable
      /\ s' = [s EXCEPT !.adding = Enqueue(s.adding, t), !.task[t] = "running"]
  BY DEF AddCallsWrap, Becomes, Enqueue
<1>2. t \notin Queued(s.adding) /\ t \notin Queued(s.doneTasks)
  BY <1>1 DEF TaskSetInv, AddingInv, EntriesInv
<1>3. /\ Enqueue(s.adding, t) \in Seq(Tasks)
      /\ Queued(Enqueue(s.adding, t)) = Queued(s.adding) \cup {t}
      /\ NoDuplicates(Enqueue(s.adding, t))
  <2>1. s.adding \in HandleQueue(Tasks)
    BY DEF TaskSetInv, TaskSetStates, HandleQueue
  <2>2. Enqueue(s.adding, t) \in Seq(Tasks)
    BY DEF TaskSetInv, TaskSetStates, Enqueue
  <2> QED BY <1>2, <2>1, <2>2, EnqueueHolds DEF TaskSetInv, AddingInv
<1>4. s' \in TaskSetStates
  BY <1>1, <1>3 DEF TaskSetInv, TaskSetStates
<1>5. /\ s'.tasks = s.tasks /\ s'.doneTasks = s.doneTasks /\ s'.waiters = s.waiters
      /\ s'.adding = Enqueue(s.adding, t) /\ s'.early = s.early
      /\ s'.task = [s.task EXCEPT ![t] = "running"] /\ s'.onEmpty = s.onEmpty
  BY <1>1 DEF TaskSetInv, TaskSetStates
<1>6. s'.task[t] = "running" /\ \A u \in Tasks \ {t} : s'.task[u] = s.task[u]
  BY <1>5 DEF TaskSetInv, TaskSetStates
<1>7. Active' = Active
  BY <1>1, <1>3, <1>5, <1>6 DEF Active
<1>8. Queued(s.doneTasks) \subseteq Tasks /\ Queued(s.adding) \subseteq Tasks
  BY DEF TaskSetInv, TaskSetStates, Queued
<1>9. AddingInv'
  BY <1>3, <1>5, <1>6, <1>8 DEF TaskSetInv, AddingInv
<1>10. EntriesInv'
  BY <1>2, <1>5, <1>6, <1>7, <1>8 DEF TaskSetInv, EntriesInv
<1>11. DoneInv'
  BY <1>1, <1>5, <1>6, <1>7 DEF TaskSetInv, DoneInv
<1>12. WaitInv' /\ TaskQueueInv'
  BY <1>1, <1>5, <1>6, <1>7 DEF TaskSetInv, WaitInv, TaskQueueInv
<1> QED BY <1>4, <1>9, <1>10, <1>11, <1>12 DEF TaskSetInv

\* The call on top of the stack returns.
LEMMA ReturnHolds ==
    ASSUME NEW H, Null \notin H, NEW q \in Seq(H), q # <<>>, NoDuplicates(q)
    PROVE  /\ q[Len(q)] \in H
           /\ SubSeq(q, 1, Len(q) - 1) \in Seq(H) /\ NoDuplicates(SubSeq(q, 1, Len(q) - 1))
           /\ Queued(SubSeq(q, 1, Len(q) - 1)) = Queued(q) \ {q[Len(q)]}
           /\ q[Len(q)] \in Queued(q)
<1> DEFINE n == Len(q)
           rest == SubSeq(q, 1, n - 1)
<1>1. n \in Nat \ {0} /\ \A i \in 1 .. n : q[i] \in H
  OBVIOUS
<1> HIDE DEF n
<1>2. /\ rest \in Seq(H) /\ Len(rest) = n - 1
      /\ \A i \in 1 .. n - 1 : rest[i] = q[i]
  <2>1. n - 1 \in Nat /\ n - 1 <= Len(q)
    BY <1>1 DEF n
  <2>2. \A m \in Nat : m <= Len(q) =>
          /\ SubSeq(q, 1, m) \in Seq(H) /\ Len(SubSeq(q, 1, m)) = m
          /\ \A i \in 1 .. m : SubSeq(q, 1, m)[i] = q[i]
    OBVIOUS
  <2> QED BY <2>1, <2>2
<1> HIDE DEF rest
<1>3. NoDuplicates(rest)
  BY <1>1, <1>2 DEF NoDuplicates, n
<1>4. \A i \in 1 .. n - 1 : q[i] # q[n]
  BY <1>1 DEF NoDuplicates, n
<1>5. \A i \in 1 .. n : i \in 1 .. n - 1 \/ i = n
  BY <1>1
<1>6. Queued(rest) = Queued(q) \ {q[n]} /\ q[n] \in Queued(q)
  BY <1>1, <1>2, <1>4, <1>5 DEF Queued, n
<1> QED BY <1>1, <1>2, <1>3, <1>6 DEF n, rest

\* add() enters the wrapper: it is active from now on, unless it ended early.
LEMMA AddEntersHolds ==
    ASSUME TaskSetInv, AddEnters
    PROVE  TaskSetInv'
<1> USE TaskSetAssumption
<1> DEFINE t == s.adding[Len(s.adding)]
           rest == SubSeq(s.adding, 1, Len(s.adding) - 1)
<1>1. s.adding # <<>> /\ resumable' = resumable
      /\ s' = [s EXCEPT !.tasks = s.tasks \cup {t}, !.adding = rest]
  BY DEF AddEnters, Becomes
<1>2. s.adding \in Seq(Tasks) /\ NoDuplicates(s.adding)
  BY DEF TaskSetInv, TaskSetStates, AddingInv
<1>3. /\ t \in Tasks /\ rest \in Seq(Tasks) /\ NoDuplicates(rest)
      /\ Queued(rest) = Queued(s.adding) \ {t} /\ t \in Queued(s.adding)
  BY <1>1, <1>2, ReturnHolds
<1> HIDE DEF t, rest
<1>4. s' \in TaskSetStates
  BY <1>1, <1>3 DEF TaskSetInv, TaskSetStates
<1>5. /\ s'.tasks = s.tasks \cup {t} /\ s'.doneTasks = s.doneTasks /\ s'.waiters = s.waiters
      /\ s'.adding = rest /\ s'.early = s.early /\ s'.task = s.task /\ s'.onEmpty = s.onEmpty
  BY <1>1 DEF TaskSetInv, TaskSetStates
<1>6. /\ Active' = IF s.task[t] = "ended" THEN Active ELSE Active \cup {t}
      /\ s.task[t] = "ended" => s.early
  BY <1>3, <1>5 DEF Active, TaskSetInv, AddingInv
<1>7. AddingInv'
  BY <1>3, <1>5 DEF TaskSetInv, AddingInv
<1>8. IsFiniteSet(s.tasks \cup {t})
  BY FS_AddElement DEF TaskSetInv, EntriesInv
<1>9. EntriesInv'
  BY <1>5, <1>6, <1>8 DEF TaskSetInv, EntriesInv
<1>10. DoneInv'
  <2> SUFFICES ASSUME ~s.early PROVE DoneInv'
    BY <1>5 DEF DoneInv
  <2>1. Active' = Active \cup {t}
    BY <1>6
  <2>2. CASE s.doneTasks = <<>> /\ s.tasks = Active
    BY <1>5, <2>1, <2>2 DEF DoneInv
  <2>3. CASE \E d \in Tasks : s.doneTasks = <<d>> /\ s.task[d] = "ended" /\ s.tasks = Active \cup {d}
    <3>1. PICK d \in Tasks : s.doneTasks = <<d>> /\ s.task[d] = "ended" /\ s.tasks = Active \cup {d}
      BY <2>3
    <3>2. s'.doneTasks = <<d>> /\ s'.task[d] = "ended" /\ s'.tasks = Active' \cup {d}
      BY <1>5, <2>1, <3>1
    <3> QED BY <3>2 DEF DoneInv
  <2> QED BY <2>2, <2>3 DEF TaskSetInv, DoneInv
<1>11. WaitInv' /\ TaskQueueInv'
  BY <1>1, <1>5, <1>6 DEF TaskSetInv, WaitInv, TaskQueueInv
<1> QED BY <1>4, <1>7, <1>9, <1>10, <1>11 DEF TaskSetInv

LEMMA TaskFinishesHolds ==
    ASSUME TaskSetInv, NEW t \in Tasks, TaskFinishes(t)
    PROVE  TaskSetInv'
<1> USE TaskSetAssumption
<1>1. s.task[t] = "running" /\ resumable' = Enqueue(resumable, t)
      /\ s' = [s EXCEPT !.task[t] = "finished"]
  BY DEF TaskFinishes, Becomes, Readied
<1>2. s' \in TaskSetStates
  BY <1>1 DEF TaskSetInv, TaskSetStates
<1>3. /\ s'.tasks = s.tasks /\ s'.doneTasks = s.doneTasks /\ s'.waiters = s.waiters
      /\ s'.adding = s.adding /\ s'.early = s.early
      /\ s'.task = [s.task EXCEPT ![t] = "finished"] /\ s'.onEmpty = s.onEmpty
  BY <1>1 DEF TaskSetInv, TaskSetStates
<1>4. s'.task[t] = "finished" /\ \A u \in Tasks \ {t} : s'.task[u] = s.task[u]
  BY <1>3 DEF TaskSetInv, TaskSetStates
<1>5. Active' = Active
  BY <1>1, <1>3, <1>4 DEF Active
<1>6. /\ resumable' \in HandleQueue(Tasks \cup Waiters) /\ NoDuplicates(resumable')
      /\ Queued(resumable') = Queued(resumable) \cup {t}
  <2>1. t \notin Queued(resumable) /\ t \in Tasks \cup Waiters
    BY <1>1 DEF TaskSetInv, TaskQueueInv
  <2> QED BY <1>1, <2>1, EnqueueHolds DEF TaskSetInv, TaskQueueInv
<1>7. TaskQueueInv'
  BY <1>3, <1>4, <1>6 DEF TaskSetInv, TaskQueueInv
<1>8. WaitInv'
  <2>1. Queued(s.waiters) \subseteq Waiters
    BY QueuedType DEF TaskSetInv, TaskSetStates
  <2> QED BY <1>3, <1>5, <1>6, <2>1 DEF TaskSetInv, WaitInv
<1>9. \A u \in Tasks : \/ s'.task[u] = s.task[u]
                       \/ s.task[u] = "running" /\ s'.task[u] = "finished"
  BY <1>1, <1>4
<1> QED BY <1>2, <1>3, <1>7, <1>8, <1>9, TaskSetKeeps

----------------------------------------------------------------------------
LEMMA OnEmptyHolds ==
    ASSUME TaskSetInv, NEW w \in Waiters, OnEmpty(w)
    PROVE  TaskSetInv'
<1> USE TaskSetAssumption
<1>1. s.onEmpty[w] = "idle" /\ resumable' = resumable
      /\ s' = IF active(0) THEN [s EXCEPT !.onEmpty[w] = "returned"]
              ELSE [s EXCEPT !.onEmpty[w] = "waiting", !.waiters = Append(s.waiters, w)]
  BY DEF OnEmpty, Becomes
<1>2. w \notin Queued(resumable) /\ w \notin Queued(s.waiters) /\ Queued(s.waiters) \subseteq Waiters
  BY <1>1, QueuedType DEF TaskSetInv, TaskQueueInv, WaitInv, TaskSetStates
<1>3. CASE active(0)
  <2>1. s' = [s EXCEPT !.onEmpty[w] = "returned"]
    BY <1>1, <1>3
  <2>2. s' \in TaskSetStates
    BY <2>1 DEF TaskSetInv, TaskSetStates
  <2>3. /\ s'.tasks = s.tasks /\ s'.doneTasks = s.doneTasks /\ s'.waiters = s.waiters
        /\ s'.adding = s.adding /\ s'.early = s.early
        /\ s'.task = s.task /\ s'.onEmpty = [s.onEmpty EXCEPT ![w] = "returned"]
    BY <2>1 DEF TaskSetInv, TaskSetStates
  <2>4. \A v \in Waiters \ {w} : s'.onEmpty[v] = s.onEmpty[v]
    BY <2>3 DEF TaskSetInv, TaskSetStates
  <2>5. Active' = Active
    BY <2>3 DEF Active
  <2>6. WaitInv' /\ TaskQueueInv'
    BY <1>1, <1>2, <2>3, <2>4, <2>5 DEF TaskSetInv, WaitInv, TaskQueueInv
  <2> QED BY <2>2, <2>3, <2>6, TaskSetKeeps
<1>4. CASE ~active(0)
  <2>1. s' = [s EXCEPT !.onEmpty[w] = "waiting", !.waiters = Enqueue(s.waiters, w)]
    BY <1>1, <1>4 DEF Enqueue
  <2>2. /\ Enqueue(s.waiters, w) \in HandleQueue(Waiters)
        /\ Queued(Enqueue(s.waiters, w)) = Queued(s.waiters) \cup {w}
        /\ NoDuplicates(Enqueue(s.waiters, w))
    BY <1>2, EnqueueHolds DEF TaskSetInv, TaskSetStates, WaitInv
  <2>4. s' \in TaskSetStates
    BY <2>1, <2>2 DEF TaskSetInv, TaskSetStates
  <2>5. /\ s'.tasks = s.tasks /\ s'.doneTasks = s.doneTasks
        /\ s'.waiters = Enqueue(s.waiters, w)
        /\ s'.adding = s.adding /\ s'.early = s.early
        /\ s'.task = s.task /\ s'.onEmpty = [s.onEmpty EXCEPT ![w] = "waiting"]
    BY <2>1 DEF TaskSetInv, TaskSetStates
  <2>6. s'.onEmpty[w] = "waiting" /\ \A v \in Waiters \ {w} : s'.onEmpty[v] = s.onEmpty[v]
    BY <2>5 DEF TaskSetInv, TaskSetStates
  <2>7. Active' = Active /\ (~s.early => Active # {})
    <3>1. ~s.early => Active # {}
      BY <1>4, ActiveSizes
    <3> QED BY <2>5, <3>1 DEF Active
  <2>8. WaitInv'
    BY <1>1, <1>2, <2>2, <2>5, <2>6, <2>7 DEF TaskSetInv, WaitInv
  <2>9. TaskQueueInv'
    BY <1>1, <1>2, <2>5, <2>6 DEF TaskSetInv, TaskQueueInv
  <2> QED BY <2>4, <2>5, <2>8, <2>9, TaskSetKeeps
<1> QED BY <1>3, <1>4

\* A call of onEmpty() that was released returns or is dropped.
LEMMA OnEmptyOverHolds ==
    ASSUME TaskSetInv, TaskSetUse, NEW w \in Waiters, OnEmptyResumes(w) \/ DropOnEmpty(w)
    PROVE  TaskSetInv'
<1> USE TaskSetAssumption
<1>1. /\ resumable' \in HandleQueue(Tasks \cup Waiters) /\ NoDuplicates(resumable')
      /\ Queued(resumable') = Queued(resumable) \ {w} /\ w \notin Queued(s.waiters)
      /\ \E how \in {"returned", "gone"} : s' = [s EXCEPT !.onEmpty[w] = how]
  <2>1. CASE OnEmptyResumes(w)
    <3>1. /\ Popped \in HandleQueue(Tasks \cup Waiters) /\ NoDuplicates(Popped)
          /\ Queued(resumable) = Queued(Popped) \cup {w} /\ w \notin Queued(Popped)
      BY <2>1, ResumedHolds DEF OnEmptyResumes, Resumed, Popped, TaskSetInv, TaskQueueInv
    <3>2. w \notin Queued(s.waiters)
      BY <3>1 DEF TaskSetInv, WaitInv
    <3>3. resumable' = Popped /\ s' = [s EXCEPT !.onEmpty[w] = "returned"]
      BY <2>1 DEF OnEmptyResumes, Becomes
    <3>4. Queued(Popped) = Queued(resumable) \ {w}
      BY <3>1
    <3> QED BY <3>1, <3>2, <3>3, <3>4
  <2>2. CASE DropOnEmpty(w)
    <3>1. /\ w \notin Queued(s.waiters) /\ resumable' = CancelAll(resumable, {w})
          /\ s' = [s EXCEPT !.onEmpty[w] = "gone"]
      BY <2>2 DEF DropOnEmpty, Becomes, Dropped, TaskSetUse
    <3>2. /\ resumable' \in HandleQueue(Tasks \cup Waiters) /\ NoDuplicates(resumable')
          /\ Queued(resumable') = Queued(resumable) \ {w}
      BY <3>1, CancelHolds DEF TaskSetInv, TaskQueueInv
    <3> QED BY <3>1, <3>2
  <2> QED BY <2>1, <2>2
<1>2. PICK how \in {"returned", "gone"} : s' = [s EXCEPT !.onEmpty[w] = how]
  BY <1>1
<1>3. s' \in TaskSetStates
  BY <1>2 DEF TaskSetInv, TaskSetStates
<1>4. /\ s'.tasks = s.tasks /\ s'.doneTasks = s.doneTasks /\ s'.waiters = s.waiters
      /\ s'.adding = s.adding /\ s'.early = s.early
      /\ s'.task = s.task /\ s'.onEmpty = [s.onEmpty EXCEPT ![w] = how]
  BY <1>2 DEF TaskSetInv, TaskSetStates
<1>5. \A v \in Waiters \ {w} : s'.onEmpty[v] = s.onEmpty[v]
  BY <1>4 DEF TaskSetInv, TaskSetStates
<1>6. Active' = Active
  BY <1>4 DEF Active
<1>7. Queued(s.waiters) \subseteq Waiters
  BY QueuedType DEF TaskSetInv, TaskSetStates
<1>8. WaitInv' /\ TaskQueueInv'
  BY <1>1, <1>4, <1>5, <1>6, <1>7 DEF TaskSetInv, WaitInv, TaskQueueInv
<1> QED BY <1>3, <1>4, <1>8, TaskSetKeeps

LEMMA DropTaskSetHolds ==
    ASSUME TaskSetInv, DropTaskSet
    PROVE  TaskSetInv'
<1> USE TaskSetAssumption
<1>1. /\ s.waiters = <<>> /\ s.adding = <<>> /\ resumable' = CancelAll(resumable, s.tasks)
      /\ s' = [s EXCEPT !.task = [t \in Tasks |-> "gone"], !.tasks = {}, !.doneTasks = <<>>]
  BY DEF DropTaskSet, Becomes, Cancelled, AddReturned
<1>2. s' \in TaskSetStates
  <2> DEFINE gone == [t \in Tasks |-> "gone"]
  <2>1. gone \in [Tasks -> {"new", "running", "finished", "ended", "gone"}] /\ <<>> \in Seq(Tasks)
    OBVIOUS
  <2>2. s' = [s EXCEPT !.task = gone, !.tasks = {}, !.doneTasks = <<>>]
    BY <1>1
  <2> HIDE DEF gone
  <2> QED BY <2>1, <2>2 DEF TaskSetInv, TaskSetStates
<1>3. /\ s'.tasks = {} /\ s'.doneTasks = <<>> /\ s'.waiters = s.waiters /\ s'.adding = <<>>
      /\ s'.task = [t \in Tasks |-> "gone"] /\ s'.onEmpty = s.onEmpty
  BY <1>1 DEF TaskSetInv, TaskSetStates
<1>4. Active' = {}
  BY <1>3 DEF Active
<1>5. /\ resumable' \in HandleQueue(Tasks \cup Waiters) /\ NoDuplicates(resumable')
      /\ Queued(resumable') = Queued(resumable) \ s.tasks
  BY <1>1, CancelHolds DEF TaskSetInv, TaskQueueInv
<1>6. \A t \in Tasks : s.task[t] = "finished" => t \in s.tasks
  BY <1>1, EmptyHolds DEF TaskSetInv, EntriesInv, Active
<1>7. TaskQueueInv'
  BY <1>3, <1>5, <1>6 DEF TaskSetInv, TaskQueueInv
<1>8. WaitInv'
  BY <1>1, <1>3, <1>5 DEF TaskSetInv, WaitInv
<1>9. AddingInv' /\ EntriesInv' /\ DoneInv'
  BY <1>3, <1>4, EmptyHolds, FS_EmptySet DEF AddingInv, EntriesInv, DoneInv
<1> QED BY <1>2, <1>7, <1>8, <1>9 DEF TaskSetInv

LEMMA TaskSetInductive ==
    ASSUME TaskSetUse
    PROVE  TaskSetInv /\ [TaskSetNext \/ TakeTurns]_vars => TaskSetInv'
<1> SUFFICES ASSUME TaskSetInv, [TaskSetNext \/ TakeTurns]_vars PROVE TaskSetInv'
  OBVIOUS
<1>1. CASE \E t \in Tasks : AddCallsWrap(t) \/ AddFinishedTask(t) \/ TaskFinishes(t) \/ WrapResumes(t)
  BY <1>1, AddCallsHolds, WrapHolds, TaskFinishesHolds
<1>2. CASE \E w \in Waiters : OnEmpty(w) \/ OnEmptyResumes(w) \/ DropOnEmpty(w)
  BY <1>2, OnEmptyHolds, OnEmptyOverHolds
<1>3. CASE AddEnters \/ DropTaskSet
  BY <1>3, AddEntersHolds, DropTaskSetHolds
<1>4. CASE TakeTurns
  <2>1. /\ s' = s /\ resumable' \in HandleQueue(Tasks \cup Waiters)
        /\ Queued(resumable') = Queued(resumable) /\ NoDuplicates(resumable')
    BY <1>4, TurnsHold DEF TaskSetInv, TaskQueueInv
  <2> QED BY <2>1 DEF TaskSetInv, AddingInv, EntriesInv, DoneInv, WaitInv, TaskQueueInv, Active
<1>5. CASE UNCHANGED vars
  BY <1>5 DEF vars, turnVars, TaskSetInv, AddingInv, EntriesInv, DoneInv, WaitInv, TaskQueueInv, Active
<1> QED BY <1>1, <1>2, <1>3, <1>4, <1>5 DEF TaskSetNext

LEMMA TaskSetStays ==
    ASSUME TaskSetUse
    PROVE  TaskSetSpec => []TaskSetInv
<1>1. TaskSetInv /\ [TaskSetNext \/ (AddReturned /\ TakeTurns)]_vars => TaskSetInv'
  BY TaskSetInductive
<1> QED BY <1>1, TaskSetInitHolds, PTL DEF TaskSetSpec

LEMMA TaskSetInvAccounts == TaskSetInv => TasksAccountedFor
<1> SUFFICES ASSUME TaskSetInv PROVE TasksAccountedFor
  OBVIOUS
<1>1. Active \subseteq s.tasks
  BY DEF TaskSetInv, EntriesInv
<1>2. ASSUME ~s.early PROVE Cardinality(s.tasks \ Active) <= 1
  <2>1. CASE s.tasks = Active
    <3>1. s.tasks \ Active = {}
      BY <2>1
    <3> QED BY <3>1, FS_EmptySet
  <2>2. CASE \E d \in Tasks : s.task[d] = "ended" /\ s.tasks = Active \cup {d}
    <3>1. PICK d \in Tasks : s.task[d] = "ended" /\ s.tasks = Active \cup {d}
      BY <2>2
    <3>2. s.tasks \ Active = {d}
      BY <3>1 DEF Active
    <3>3. Cardinality({d}) = 1
      BY FS_Singleton
    <3> QED BY <3>2, <3>3
  <2> QED BY <1>2, <2>1, <2>2 DEF TaskSetInv, DoneInv
<1>3. ~s.early => (active(0) <=> Active = {})
  BY ActiveSizes
<1>4. ~s.early => (s.waiters # <<>> => Active # {})
  BY DEF TaskSetInv, WaitInv
<1> QED BY <1>1, <1>2, <1>3, <1>4 DEF TasksAccountedFor

\* "It will be run to completion" (combinators.h:155): however calls of add() are
\* nested in each other, and wherever tasks end, the promise of an active task is
\* never erased by the clean-up of another one.  As long as no wrapper has ended
\* before it was entered, at most one task that has ended is kept, empty() is exact
\* although it compares sizes, and nobody is left waiting in onEmpty() when no task
\* is active (combinators.cc:92, 119-142).
THEOREM TaskSetAccounts ==
    ASSUME TaskSetUse
    PROVE  TaskSetSpec => []TasksAccountedFor
BY TaskSetStays, TaskSetInvAccounts, PTL

\* The run queue and the wait point hold only coroutines that are suspended, each
\* once: none is resumed after it was dropped or has ended (combinators.cc:12-24).
THEOREM TaskSetQueuesWaiting ==
    ASSUME TaskSetUse
    PROVE  TaskSetSpec => []TaskSetHandlesWait
<1>1. TaskSetInv => TaskSetHandlesWait
  BY QueuedType DEF TaskSetInv, TaskQueueInv, WaitInv, TaskSetHandlesWait, QueueIsSound
<1> QED BY <1>1, TaskSetStays, PTL

----------------------------------------------------------------------------
(* FsWatch                                                                 *)

\* A rising sequence of numbers up to n
Rising(q, n) ==
    /\ \A i, j \in 1 .. Len(q) : i < j => q[i] < q[j]
    /\ \A i \in 1 .. Len(q) : q[i] <= n

WatchCalls == {"new", "waiting", "woken", "yielded", "asked", "EBUSY", "done", "gone"}

WatchStates ==
    [is: {"watch"}, open: BOOLEAN, uv: {"open", "closing", "freed"}, data: Watches \cup {Null},
     watch: [Watches -> WatchCalls], reading: BOOLEAN, unread: BOOLEAN, stopped: BOOLEAN,
     buf: Seq(Nat), reported: Nat, seen: Seq(Nat),
     fault: {"none", "handle freed", "callback threw"}]

Watched(st, u) == st.watch[u] \in {"waiting", "woken", "yielded", "asked"}

\* The data of the handle leads to the generator exactly while there is one, and
\* then the handle is open.  An event that nobody has read is one at whose
\* co_yield the generator still is.  What was yielded and what is buffered are
\* different reports, in order.
WatchOk(st) ==
    /\ \A u \in Watches : Watched(st, u) <=> st.data = u
    /\ IF st.data = Null THEN ~st.unread ELSE st.open
    /\ st.open => st.uv = "open"
    /\ \A u \in Watches :
         /\ st.watch[u] = "waiting" => ~st.stopped /\ st.buf = <<>>
         /\ st.watch[u] = "woken" => st.stopped \/ st.buf # <<>>
         /\ st.unread /\ st.data = u => st.watch[u] = "yielded"
    /\ st.fault = "none"
    /\ Rising(st.seen \o st.buf, st.reported)

WatchQueueInv ==
    /\ resumable \in HandleQueue(Watches)
    /\ NoDuplicates(resumable)
    /\ \A u \in Watches : u \in Queued(resumable) <=> s.watch[u] \in {"woken", "asked"}

WatchInv == s \in WatchStates /\ WatchOk(s) /\ WatchQueueInv

\* The program avoids what FsWatch's comment says it avoids.
WatchUse == "close early" \notin Relaxed

\* A callback has thrown: the model ends here.
WatchThrew == s.is = "watch" /\ s.fault # "none"

\* A buffer that is thrown away
LEMMA RisingPrefix ==
    ASSUME NEW a \in Seq(Nat), NEW b \in Seq(Nat), NEW n \in Nat, Rising(a \o b, n)
    PROVE  Rising(a \o <<>>, n)
<1>1. a \o <<>> = a /\ Len(a) \in Nat /\ Len(b) \in Nat
  OBVIOUS
<1>2. Len(a \o b) = Len(a) + Len(b) /\ \A i \in 1 .. Len(a) : (a \o b)[i] = a[i]
  OBVIOUS
<1>3. \A i \in 1 .. Len(a) : i \in 1 .. Len(a \o b)
  BY <1>1, <1>2
<1> QED BY <1>1, <1>2, <1>3 DEF Rising

\* An event that is yielded
LEMMA RisingTaken ==
    ASSUME NEW a \in Seq(Nat), NEW b \in Seq(Nat), b # <<>>
    PROVE  /\ Append(a, Head(b)) \o Tail(b) = a \o b
           /\ Append(a, Head(b)) \in Seq(Nat) /\ Tail(b) \in Seq(Nat)
<1> DEFINE x == Append(a, Head(b))
           y == Tail(b)
<1>1. Len(a) \in Nat /\ Len(b) \in Nat /\ Len(b) > 0 /\ Head(b) = b[1] /\ Head(b) \in Nat
  OBVIOUS
<1>2. x \in Seq(Nat) /\ Len(x) = Len(a) + 1 /\ x[Len(a) + 1] = b[1]
      /\ \A i \in 1 .. Len(a) : x[i] = a[i]
  BY <1>1
<1>3. y \in Seq(Nat) /\ Len(y) = Len(b) - 1 /\ \A i \in 1 .. Len(b) - 1 : y[i] = b[i + 1]
  OBVIOUS
<1> HIDE DEF x, y
<1>4. Len(x \o y) = Len(x) + Len(y) /\ Len(a \o b) = Len(a) + Len(b)
      /\ x \o y \in Seq(Nat) /\ a \o b \in Seq(Nat)
  <2>1. x \in Seq(Nat) /\ y \in Seq(Nat)
    BY <1>2, <1>3
  <2> QED BY <2>1
<1>5. ASSUME NEW i \in 1 .. Len(a) + Len(b)
      PROVE  (x \o y)[i] = (a \o b)[i]
  <2>1. (a \o b)[i] = IF i <= Len(a) THEN a[i] ELSE b[i - Len(a)]
    OBVIOUS
  <2>2. (x \o y)[i] = IF i <= Len(x) THEN x[i] ELSE y[i - Len(x)]
    BY <1>1, <1>2, <1>3
  <2>3. CASE i <= Len(a)
    BY <1>1, <1>2, <2>1, <2>2, <2>3
  <2>4. CASE i = Len(a) + 1
    BY <1>1, <1>2, <2>1, <2>2, <2>4
  <2>5. CASE i > Len(a) + 1
    <3> DEFINE k == i - Len(x)
    <3>1. k \in 1 .. Len(b) - 1 /\ k + 1 = i - Len(a) /\ ~(i <= Len(x)) /\ ~(i <= Len(a))
      BY <1>1, <1>2, <2>5
    <3>2. y[k] = b[k + 1]
      BY <1>3, <3>1
    <3>3. (x \o y)[i] = y[k]
      BY <2>2, <3>1
    <3>4. (a \o b)[i] = b[i - Len(a)]
      BY <2>1, <3>1
    <3> QED BY <3>1, <3>2, <3>3, <3>4
  <2>6. i <= Len(a) \/ i = Len(a) + 1 \/ i > Len(a) + 1
    BY <1>1
  <2> QED BY <2>3, <2>4, <2>5, <2>6
<1>6. Len(x \o y) = Len(a \o b) /\ Len(a \o b) = Len(a) + Len(b)
  BY <1>1, <1>2, <1>3, <1>4
<1>7. x \o y = a \o b
  BY <1>4, <1>5, <1>6, SeqEqual
<1> QED BY <1>2, <1>3, <1>7 DEF x, y

\* An event that is put into the buffer, and one that is not
LEMMA RisingPut ==
    ASSUME NEW a \in Seq(Nat), NEW b \in Seq(Nat), NEW n \in Nat, Rising(a \o b, n)
    PROVE  Rising(a \o b, n + 1) /\ Rising(a \o Append(b, n + 1), n + 1)
<1> DEFINE q == a \o b
           r == a \o Append(b, n + 1)
<1>1. q \in Seq(Nat) /\ Len(q) = Len(a) + Len(b) /\ Len(q) \in Nat
  OBVIOUS
<1>2. Append(b, n + 1) \in Seq(Nat) /\ Len(Append(b, n + 1)) = Len(b) + 1
  OBVIOUS
<1>3. Len(r) = Len(q) + 1
  BY <1>1, <1>2
<1>4. r[Len(q) + 1] = n + 1 /\ \A i \in 1 .. Len(q) : r[i] = q[i]
  BY <1>1, <1>2
<1>5. \A i \in 1 .. Len(q) : q[i] \in Nat
  BY <1>1
<1> HIDE DEF q, r
<1>6. Rising(q, n + 1) /\ Rising(r, n + 1)
  <2>0. Rising(q, n)
    BY DEF q
  <2>1. Rising(q, n + 1)
    BY <1>1, <1>5, <2>0 DEF Rising
  <2>2. Rising(r, n + 1)
    <3>0. Len(q) \in Nat /\ Len(r) = Len(q) + 1
      BY <1>1, <1>3
    <3>1. \A i \in 1 .. Len(r) : i = Len(q) + 1 \/ i \in 1 .. Len(q)
      BY <3>0
    <3>2. \A i \in 1 .. Len(q) : r[i] \in Nat /\ r[i] <= n
      BY <1>4, <1>5, <2>0 DEF Rising
    <3>3. ASSUME NEW i \in 1 .. Len(r) PROVE r[i] <= n + 1
      <4>1. CASE i = Len(q) + 1
        BY <1>4, <4>1
      <4>2. CASE i \in 1 .. Len(q)
        BY <3>2, <4>2
      <4> QED BY <3>1, <4>1, <4>2
    <3>4. ASSUME NEW i \in 1 .. Len(r), NEW j \in 1 .. Len(r), i < j
          PROVE  r[i] < r[j]
      <4>1. i \in 1 .. Len(q)
        BY <1>1, <1>3, <3>4
      <4>2. CASE j = Len(q) + 1
        BY <1>4, <3>2, <4>1, <4>2
      <4>3. CASE j \in 1 .. Len(q)
        BY <1>4, <2>0, <3>4, <4>1, <4>3 DEF Rising
      <4> QED BY <3>1, <4>2, <4>3
    <3> QED BY <3>3, <3>4 DEF Rising
  <2> QED BY <2>1, <2>2
<1> QED BY <1>6 DEF q, r

----------------------------------------------------------------------------
(* The generator's segments                                                *)

\* From st to o the generator u moves, and no other one.
MovesWatch(st, o, u, how) ==
    o.watch[u] = how /\ \A v \in Watches \ {u} : o.watch[v] = st.watch[v]

\* The generator u is the only one, and its handle is open.
OnlyWatch(st, u) ==
    /\ \A v \in Watches \ {u} : ~Watched(st, v)
    /\ st.open /\ st.uv = "open" /\ st.fault = "none"
    /\ Rising(st.seen \o st.buf, st.reported)

LEMMA WatchFields ==
    ASSUME NEW st \in WatchStates
    PROVE  /\ st.buf \in Seq(Nat) /\ st.seen \in Seq(Nat) /\ st.reported \in Nat
           /\ st.watch \in [Watches -> WatchCalls] /\ st.data \in Watches \cup {Null}
           /\ Len(st.buf) \in Nat
           /\ st.fault \in {"none", "handle freed", "callback threw"}
<1>1. /\ st.buf \in Seq(Nat) /\ st.seen \in Seq(Nat) /\ st.reported \in Nat
      /\ st.watch \in [Watches -> WatchCalls] /\ st.data \in Watches \cup {Null}
      /\ st.fault \in {"none", "handle freed", "callback threw"}
  BY DEF WatchStates
<1>2. Len(st.buf) \in Nat
  <2>1. st.buf \in Seq(Nat)
    BY <1>1
  <2> QED BY <2>1
<1> QED BY <1>1, <1>2

\* The generator ends.
LEMMA WatchOverOk ==
    ASSUME NEW st \in WatchStates, NEW u \in Watches, NEW how \in {"done", "gone"},
           OnlyWatch(st, u), NEW o, o = WatchOver(st, u, how)
    PROVE  o \in WatchStates /\ WatchOk(o) /\ MovesWatch(st, o, u, how)
<1> USE WatchAssumption
<1> DEFINE r == [st EXCEPT !.watch[u] = how, !.buf = <<>>, !.reading = FALSE, !.unread = FALSE,
                           !.data = Null]
<1>1. o = r
  BY DEF WatchOver, OnlyWatch, WatchStates
<1>2. r \in WatchStates
  <2>1. <<>> \in Seq(Nat)
    OBVIOUS
  <2> QED BY <2>1 DEF WatchStates, WatchCalls
<1>3. /\ r.watch = [st.watch EXCEPT ![u] = how] /\ r.buf = <<>> /\ r.unread = FALSE /\ r.data = Null
      /\ r.open = st.open /\ r.uv = st.uv /\ r.fault = st.fault /\ r.seen = st.seen
      /\ r.reported = st.reported
  BY DEF WatchStates
<1> HIDE DEF r
<1>4. r.watch[u] = how /\ \A v \in Watches \ {u} : r.watch[v] = st.watch[v]
  BY <1>3, WatchFields
<1>5. \A v \in Watches : ~Watched(r, v)
  BY <1>4 DEF Watched, OnlyWatch
<1>6. Rising(r.seen \o r.buf, r.reported)
  BY <1>3, RisingPrefix, WatchFields DEF OnlyWatch
<1>7. WatchOk(r)
  BY <1>3, <1>5, <1>6 DEF WatchOk, Watched, OnlyWatch
<1> QED BY <1>1, <1>2, <1>4, <1>7 DEF MovesWatch

\* It is resumed with an event in the buffer, or ends because it was stopped.
LEMMA WatchResumeOk ==
    ASSUME NEW st \in WatchStates, NEW u \in Watches, OnlyWatch(st, u), st.data = u,
           st.stopped \/ st.buf # <<>>, NEW o, o = WatchAwaitResume(st, u)
    PROVE  /\ o \in WatchStates /\ WatchOk(o)
           /\ \E how \in {"done", "yielded"} : MovesWatch(st, o, u, how)
<1> USE WatchAssumption
<1>1. CASE st.stopped
  BY <1>1, WatchOverOk DEF WatchAwaitResume
<1>2. CASE ~st.stopped
  <2> DEFINE buf == Tail(st.buf)
             seen == Append(st.seen, Head(st.buf))
             unread == ~st.reading
  <2>1. o = [st EXCEPT !.watch[u] = "yielded", !.buf = buf, !.seen = seen, !.reading = FALSE,
                       !.unread = unread]
    BY <1>2 DEF WatchAwaitResume, EventTaken
  <2>2. seen \o buf = st.seen \o st.buf /\ seen \in Seq(Nat) /\ buf \in Seq(Nat)
    BY <1>2, RisingTaken, WatchFields
  <2>3. unread \in BOOLEAN
    OBVIOUS
  <2> HIDE DEF buf, seen, unread
  <2>4. o \in WatchStates
    <3>1. [st EXCEPT !.watch[u] = "yielded", !.buf = buf, !.seen = seen, !.reading = FALSE,
                     !.unread = unread] \in WatchStates
      BY <2>2, <2>3 DEF WatchStates, WatchCalls
    <3> QED BY <2>1, <3>1
  <2>5. /\ o.watch = [st.watch EXCEPT ![u] = "yielded"] /\ o.buf = buf /\ o.seen = seen
        /\ o.data = st.data /\ o.open = st.open /\ o.uv = st.uv /\ o.fault = st.fault
        /\ o.reported = st.reported
    BY <2>1 DEF WatchStates
  <2>6. o.watch[u] = "yielded" /\ \A v \in Watches \ {u} : o.watch[v] = st.watch[v]
    BY <2>5, WatchFields
  <2>7. Watched(o, u) /\ \A v \in Watches \ {u} : ~Watched(o, v)
    BY <2>6 DEF Watched, OnlyWatch
  <2>8. \A v \in Watches : o.watch[v] \notin {"waiting", "woken"}
    BY <2>6, <2>7 DEF Watched
  <2>9. Rising(o.seen \o o.buf, o.reported)
    BY <2>2, <2>5 DEF OnlyWatch
  <2>10. o.data = u /\ o.open /\ o.uv = "open" /\ o.fault = "none"
    BY <2>5 DEF OnlyWatch
  <2>11. WatchOk(o)
    BY <2>6, <2>7, <2>8, <2>9, <2>10 DEF WatchOk
  <2> QED BY <2>4, <2>6, <2>11 DEF MovesWatch
<1> QED BY <1>1, <1>2

\* co_await of the awaiter
LEMMA AwaitEventOk ==
    ASSUME NEW st \in WatchStates, NEW u \in Watches, OnlyWatch(st, u), st.data = u, ~st.unread,
           NEW o, o = AwaitEvent(st, u)
    PROVE  /\ o \in WatchStates /\ WatchOk(o)
           /\ \E how \in {"done", "yielded", "waiting"} : MovesWatch(st, o, u, how)
<1> USE WatchAssumption
<1>1. CASE WatchAwaitReady(st)
  <2>1. o = WatchAwaitResume(st, u) /\ (st.stopped \/ st.buf # <<>>)
    BY <1>1 DEF AwaitEvent, WatchAwaitReady
  <2> QED BY <2>1, WatchResumeOk
<1>2. CASE ~WatchAwaitReady(st)
  <2>1. o = [st EXCEPT !.watch[u] = "waiting"] /\ ~st.stopped /\ st.buf = <<>>
    BY <1>2 DEF AwaitEvent, WatchAwaitReady
  <2>2. o \in WatchStates
    <3>1. [st EXCEPT !.watch[u] = "waiting"] \in WatchStates
      BY DEF WatchStates, WatchCalls
    <3> QED BY <2>1, <3>1
  <2>3. /\ o.watch = [st.watch EXCEPT ![u] = "waiting"] /\ o.buf = st.buf /\ o.seen = st.seen
        /\ o.data = st.data /\ o.open = st.open /\ o.uv = st.uv /\ o.fault = st.fault
        /\ o.reported = st.reported /\ o.stopped = st.stopped /\ o.unread = st.unread
    BY <2>1 DEF WatchStates
  <2>4. o.watch[u] = "waiting" /\ \A v \in Watches \ {u} : o.watch[v] = st.watch[v]
    BY <2>3, WatchFields
  <2>5. Watched(o, u) /\ \A v \in Watches \ {u} : ~Watched(o, v)
    BY <2>4 DEF Watched, OnlyWatch
  <2>6. \A v \in Watches : o.watch[v] # "woken"
    BY <2>4, <2>5 DEF Watched
  <2>7. /\ o.data = u /\ o.open /\ o.uv = "open" /\ o.fault = "none" /\ ~o.stopped /\ ~o.unread
        /\ o.buf = <<>> /\ Rising(o.seen \o o.buf, o.reported)
    BY <2>1, <2>3 DEF OnlyWatch
  <2>8. WatchOk(o)
    BY <2>4, <2>5, <2>6, <2>7 DEF WatchOk
  <2> QED BY <2>2, <2>4, <2>8 DEF MovesWatch
<1> QED BY <1>1, <1>2

----------------------------------------------------------------------------
(* Steps                                                                   *)

LEMMA WatchInitHolds == WatchInit => WatchInv
<1> SUFFICES ASSUME WatchInit PROVE WatchInv
  OBVIOUS
<1> USE WatchAssumption
<1>1. resumable \in HandleQueue(Watches) /\ Queued(resumable) = {} /\ NoDuplicates(resumable)
  BY EmptyHolds DEF WatchInit, TurnInit
<1>2. s \in WatchStates
  BY DEF WatchInit, WatchStates, WatchCalls
<1>3. /\ s.open = TRUE /\ s.uv = "open" /\ s.data = Null /\ s.unread = FALSE /\ s.buf = <<>>
      /\ s.seen = <<>> /\ s.fault = "none" /\ \A u \in Watches : s.watch[u] = "new"
  BY DEF WatchInit
<1>4. Len(<<>> \o <<>>) = 0
  OBVIOUS
<1>5. Rising(s.seen \o s.buf, s.reported)
  BY <1>3, <1>4 DEF Rising
<1>6. WatchOk(s)
  BY <1>3, <1>5 DEF WatchOk, Watched
<1> QED BY <1>1, <1>2, <1>3, <1>6 DEF WatchInv, WatchQueueInv

\* A step that moves generator u and leaves the run queue as its state says
LEMMA WatchStepHolds ==
    ASSUME WatchInv, NEW u \in Watches, NEW how, MovesWatch(s, s', u, how),
           s' \in WatchStates, WatchOk(s'),
           resumable' \in HandleQueue(Watches), NoDuplicates(resumable'),
           Queued(resumable') = IF how \in {"woken", "asked"} THEN Queued(resumable) \cup {u}
                                ELSE Queued(resumable) \ {u}
    PROVE  WatchInv'
<1>1. s'.watch[u] = how /\ \A v \in Watches \ {u} : s'.watch[v] = s.watch[v]
  BY DEF MovesWatch
<1>2. \A v \in Watches : v \in Queued(resumable') <=> s'.watch[v] \in {"woken", "asked"}
  BY <1>1 DEF WatchInv, WatchQueueInv
<1>3. WatchQueueInv'
  BY <1>2 DEF WatchQueueInv
<1>4. WatchOk(s)'
  BY DEF WatchOk, Watched
<1> QED BY <1>3, <1>4 DEF WatchInv

\* The invariant about the generator that the data leads to
LEMMA OnlyWatchHolds ==
    ASSUME WatchInv, NEW u \in Watches, Watched(s, u)
    PROVE  OnlyWatch(s, u) /\ s.data = u /\ (s.watch[u] # "yielded" => ~s.unread)
<1> USE WatchAssumption
<1>1. s.data = u /\ \A v \in Watches \ {u} : ~Watched(s, v)
  BY DEF WatchInv, WatchOk
<1>2. s.open /\ s.uv = "open" /\ s.fault = "none" /\ Rising(s.seen \o s.buf, s.reported)
  BY <1>1 DEF WatchInv, WatchOk
<1>3. s.watch[u] # "yielded" => ~s.unread
  BY <1>1 DEF WatchInv, WatchOk
<1> QED BY <1>1, <1>2, <1>3 DEF OnlyWatch

LEMMA WatchHolds ==
    ASSUME WatchInv, NEW u \in Watches, Watch(u)
    PROVE  WatchInv'
<1> USE WatchAssumption
<1>1. /\ s.open /\ s.watch[u] = "new" /\ resumable' = resumable /\ s \in WatchStates
      /\ u \notin Queued(resumable) /\ Queued(resumable) = Queued(resumable) \ {u}
      /\ resumable \in HandleQueue(Watches) /\ NoDuplicates(resumable)
  BY DEF Watch, Becomes, WatchInv, WatchQueueInv
<1>2. CASE s.data # Null
  <2>1. s' = [s EXCEPT !.watch[u] = "EBUSY"]
    BY <1>2 DEF Watch, Becomes
  <2>2. s' \in WatchStates
    BY <1>1, <2>1 DEF WatchStates, WatchCalls
  <2>3. /\ s'.watch = [s.watch EXCEPT ![u] = "EBUSY"] /\ s'.buf = s.buf /\ s'.seen = s.seen
        /\ s'.data = s.data /\ s'.open = s.open /\ s'.uv = s.uv /\ s'.fault = s.fault
        /\ s'.reported = s.reported /\ s'.stopped = s.stopped /\ s'.unread = s.unread
    BY <1>1, <2>1 DEF WatchStates
  <2>4. s'.watch[u] = "EBUSY" /\ \A v \in Watches \ {u} : s'.watch[v] = s.watch[v]
    BY <1>1, <2>3, WatchFields
  <2>5. \A v \in Watches : Watched(s', v) <=> Watched(s, v)
    BY <1>1, <2>4 DEF Watched
  <2>6. WatchOk(s')
    BY <2>3, <2>4, <2>5 DEF WatchInv, WatchOk, Watched
  <2>7. MovesWatch(s, s', u, "EBUSY")
    BY <2>4 DEF MovesWatch
  <2> QED BY <1>1, <2>2, <2>6, <2>7, WatchStepHolds
<1>3. CASE s.data = Null
  <2> DEFINE st == [s EXCEPT !.data = u, !.stopped = FALSE, !.buf = <<>>]
  <2>1. s' = AwaitEvent(st, u)
    BY <1>3 DEF Watch, Becomes
  <2>2. st \in WatchStates
    <3>1. <<>> \in Seq(Nat)
      OBVIOUS
    <3> QED BY <1>1, <3>1 DEF WatchStates
  <2>3. /\ st.watch = s.watch /\ st.buf = <<>> /\ st.seen = s.seen /\ st.data = u
        /\ st.open = s.open /\ st.uv = s.uv /\ st.fault = s.fault /\ st.unread = s.unread
        /\ st.reported = s.reported
    BY <1>1 DEF WatchStates
  <2> HIDE DEF st
  <2>4. /\ \A v \in Watches : ~Watched(s, v)
        /\ ~s.unread /\ s.uv = "open" /\ s.fault = "none" /\ Rising(s.seen \o s.buf, s.reported)
    BY <1>1, <1>3 DEF WatchInv, WatchOk
  <2>5. Rising(st.seen \o st.buf, st.reported)
    BY <1>1, <2>3, <2>4, RisingPrefix, WatchFields
  <2>6. OnlyWatch(st, u)
    BY <1>1, <2>3, <2>4, <2>5 DEF OnlyWatch, Watched
  <2>7. /\ s' \in WatchStates /\ WatchOk(s')
        /\ \E how \in {"done", "yielded", "waiting"} : MovesWatch(st, s', u, how)
    BY <2>1, <2>2, <2>3, <2>4, <2>6, AwaitEventOk
  <2>8. PICK how \in {"done", "yielded", "waiting"} : MovesWatch(st, s', u, how)
    BY <2>7
  <2>9. MovesWatch(s, s', u, how)
    BY <2>3, <2>8 DEF MovesWatch
  <2> QED BY <1>1, <2>7, <2>9, WatchStepHolds
<1> QED BY <1>2, <1>3

LEMMA WatchResumesHolds ==
    ASSUME WatchInv, NEW u \in Watches, WatchResumes(u)
    PROVE  WatchInv'
<1>1. /\ Popped \in HandleQueue(Watches) /\ NoDuplicates(Popped)
      /\ Queued(resumable) = Queued(Popped) \cup {u} /\ u \notin Queued(Popped)
  BY ResumedHolds DEF WatchResumes, Resumed, Popped, WatchInv, WatchQueueInv
<1>2. /\ Queued(Popped) = Queued(resumable) \ {u} /\ s.watch[u] \in {"woken", "asked"}
      /\ resumable' = Popped /\ s \in WatchStates
  BY <1>1 DEF WatchResumes, Becomes, WatchInv, WatchQueueInv
<1>3. OnlyWatch(s, u) /\ s.data = u /\ ~s.unread
  BY <1>2, OnlyWatchHolds DEF Watched
<1>4. /\ s' \in WatchStates /\ WatchOk(s')
      /\ \E how \in {"done", "yielded", "waiting"} : MovesWatch(s, s', u, how)
  <2>1. CASE s.watch[u] = "woken"
    <3>1. s' = WatchAwaitResume(s, u) /\ (s.stopped \/ s.buf # <<>>)
      BY <2>1 DEF WatchResumes, Becomes, WatchInv, WatchOk
    <3> QED BY <1>2, <1>3, <3>1, WatchResumeOk
  <2>2. CASE s.watch[u] # "woken"
    <3>1. s' = AwaitEvent(s, u)
      BY <2>2 DEF WatchResumes, Becomes
    <3> QED BY <1>2, <1>3, <3>1, AwaitEventOk
  <2> QED BY <2>1, <2>2
<1>5. PICK how \in {"done", "yielded", "waiting"} : MovesWatch(s, s', u, how)
  BY <1>4
<1> QED BY <1>1, <1>2, <1>4, <1>5, WatchStepHolds

LEMMA DropWatchHolds ==
    ASSUME WatchInv, NEW u \in Watches, DropWatch(u)
    PROVE  WatchInv'
<1>1. /\ Watched(s, u) /\ resumable' = CancelAll(resumable, {u}) /\ s' = WatchOver(s, u, "gone")
      /\ s \in WatchStates
  BY DEF DropWatch, Becomes, Dropped, Watching, Watched, WatchInv
<1>2. /\ resumable' \in HandleQueue(Watches) /\ NoDuplicates(resumable')
      /\ Queued(resumable') = Queued(resumable) \ {u}
  BY <1>1, CancelHolds DEF WatchInv, WatchQueueInv
<1>3. OnlyWatch(s, u)
  BY <1>1, OnlyWatchHolds
<1>4. s' \in WatchStates /\ WatchOk(s') /\ MovesWatch(s, s', u, "gone")
  BY <1>1, <1>3, WatchOverOk
<1> QED BY <1>2, <1>4, WatchStepHolds

\* A step that wakes generator u, or leaves it in the run queue
LEMMA WatchWakeHolds ==
    ASSUME WatchInv, NEW u \in Watches, Watched(s, u), NEW how, MovesWatch(s, s', u, how),
           s.watch[u] \in {"woken", "asked"} => how = s.watch[u],
           s' \in WatchStates, WatchOk(s'),
           resumable' = IF s.watch[u] # how /\ how \in {"woken", "asked"} THEN Readied(u)
                        ELSE resumable
    PROVE  WatchInv'
<1> USE WatchAssumption
<1>1. CASE s.watch[u] # how /\ how \in {"woken", "asked"}
  <2>1. u \notin Queued(resumable) /\ resumable' = Enqueue(resumable, u)
    BY <1>1 DEF WatchInv, WatchQueueInv, Readied
  <2>2. /\ resumable' \in HandleQueue(Watches) /\ NoDuplicates(resumable')
        /\ Queued(resumable') = Queued(resumable) \cup {u}
    BY <2>1, EnqueueHolds DEF WatchInv, WatchQueueInv
  <2> QED BY <1>1, <2>2, WatchStepHolds
<1>2. CASE ~(s.watch[u] # how /\ how \in {"woken", "asked"})
  <2>1. resumable' = resumable
    BY <1>2
  <2>2. resumable \in HandleQueue(Watches) /\ NoDuplicates(resumable)
        /\ (u \in Queued(resumable) <=> how \in {"woken", "asked"})
    BY <1>2 DEF WatchInv, WatchQueueInv
  <2>3. Queued(resumable') = IF how \in {"woken", "asked"} THEN Queued(resumable) \cup {u}
                             ELSE Queued(resumable) \ {u}
    BY <2>1, <2>2
  <2> QED BY <2>1, <2>2, <2>3, WatchStepHolds
<1> QED BY <1>1, <1>2

\* The generator is awaited at its co_yield, or told to stop: it does not wait any
\* more afterwards, unless it was neither told nor at the co_yield.
LEMMA WatchTellHolds ==
    ASSUME WatchInv, NEW u \in Watches, Watched(s, u), ~s.unread, NEW stop \in BOOLEAN, NEW how,
           how = IF stop /\ s.watch[u] = "waiting" THEN "woken"
                 ELSE IF s.watch[u] = "yielded" THEN "asked" ELSE s.watch[u],
           s' = [s EXCEPT !.stopped = s.stopped \/ stop, !.reading = TRUE, !.watch[u] = how],
           resumable' = IF s.watch[u] # how /\ how \in {"woken", "asked"} THEN Readied(u)
                        ELSE resumable
    PROVE  WatchInv'
<1> USE WatchAssumption
<1> DEFINE told == s.stopped \/ stop
<1>1. OnlyWatch(s, u) /\ s.data = u /\ s \in WatchStates
  BY OnlyWatchHolds DEF WatchInv
<1>2. how \in {"waiting", "woken", "asked"} /\ told \in BOOLEAN
  BY DEF Watched
<1>3. s' = [s EXCEPT !.stopped = told, !.reading = TRUE, !.watch[u] = how]
  OBVIOUS
<1> HIDE DEF told
<1>4. s' \in WatchStates
  <2>1. [s EXCEPT !.stopped = told, !.reading = TRUE, !.watch[u] = how] \in WatchStates
    BY <1>1, <1>2 DEF WatchStates, WatchCalls
  <2> QED BY <1>3, <2>1
<1>5. /\ s'.watch = [s.watch EXCEPT ![u] = how] /\ s'.buf = s.buf /\ s'.seen = s.seen
      /\ s'.data = s.data /\ s'.open = s.open /\ s'.uv = s.uv /\ s'.fault = s.fault
      /\ s'.reported = s.reported /\ s'.stopped = told /\ s'.unread = s.unread
  BY <1>1, <1>3 DEF WatchStates
<1>6. s'.watch[u] = how /\ \A v \in Watches \ {u} : s'.watch[v] = s.watch[v]
  <2>1. s.watch \in [Watches -> WatchCalls] /\ s'.watch = [s.watch EXCEPT ![u] = how]
    BY <1>1, <1>5, WatchFields
  <2> QED BY ONLY <2>1
<1>7. Watched(s', u) /\ \A v \in Watches \ {u} : ~Watched(s', v)
  BY <1>1, <1>2, <1>6 DEF Watched, OnlyWatch
<1>8. how = "waiting" => ~told /\ s.buf = <<>>
  BY DEF told, WatchInv, WatchOk
<1>9. how = "woken" => told \/ s.buf # <<>>
  BY DEF told, WatchInv, WatchOk
<1>10. \A v \in Watches : v = u \/ s'.watch[v] \notin {"waiting", "woken"}
  BY <1>7 DEF Watched
<1>11. /\ s'.data = u /\ s'.open /\ s'.uv = "open" /\ s'.fault = "none" /\ ~s'.unread
       /\ Rising(s'.seen \o s'.buf, s'.reported)
  BY <1>1, <1>5 DEF OnlyWatch
<1>12. WatchOk(s')
  BY <1>5, <1>6, <1>7, <1>8, <1>9, <1>10, <1>11 DEF WatchOk
<1>13. MovesWatch(s, s', u, how)
  BY <1>6 DEF MovesWatch
<1>14. s.watch[u] \in {"woken", "asked"} => how = s.watch[u]
  OBVIOUS
<1> QED BY <1>4, <1>12, <1>13, <1>14, WatchWakeHolds

LEMMA AskEventHolds ==
    ASSUME WatchInv, NEW u \in Watches, AskEvent(u)
    PROVE  WatchInv'
<1> USE WatchAssumption
<1>1. /\ Watched(s, u) /\ s \in WatchStates
      /\ resumable' = WokenQueue(Awaited(s, u), u) /\ s' = Awaited(s, u)
  BY DEF AskEvent, Becomes, Watching, Watched, WatchInv
<1>2. OnlyWatch(s, u) /\ s.data = u /\ (s.watch[u] # "yielded" => ~s.unread)
  BY <1>1, OnlyWatchHolds
<1>3. CASE s.unread
  <2>1. s' = [s EXCEPT !.unread = FALSE]
    BY <1>1, <1>3 DEF Awaited
  <2>2. s' \in WatchStates
    BY <1>1, <2>1 DEF WatchStates
  <2>3. /\ s'.watch = s.watch /\ s'.buf = s.buf /\ s'.seen = s.seen
        /\ s'.data = s.data /\ s'.open = s.open /\ s'.uv = s.uv /\ s'.fault = s.fault
        /\ s'.reported = s.reported /\ s'.stopped = s.stopped /\ s'.unread = FALSE
    BY <1>1, <2>1 DEF WatchStates
  <2>4. WatchOk(s')
    BY <2>3 DEF WatchInv, WatchOk, Watched
  <2>5. resumable' = resumable
    BY <1>1, <2>3 DEF WokenQueue
  <2>6. MovesWatch(s, s', u, s.watch[u])
    BY <2>3 DEF MovesWatch
  <2> QED BY <1>1, <2>2, <2>4, <2>5, <2>6, WatchWakeHolds
<1>4. CASE ~s.unread
  <2> DEFINE how == IF s.watch[u] = "yielded" THEN "asked" ELSE s.watch[u]
  <2>1. s' = [s EXCEPT !.reading = TRUE, !.watch[u] = how]
    BY <1>1, <1>4 DEF Awaited
  <2>2. s.stopped \in BOOLEAN /\ s.stopped = (s.stopped \/ FALSE)
    BY <1>1 DEF WatchStates
  <2>3. s' = [s EXCEPT !.stopped = s.stopped \/ FALSE, !.reading = TRUE, !.watch[u] = how]
    BY <1>1, <2>1, <2>2 DEF WatchStates
  <2>4. s'.watch[u] = how
    BY <1>1, <2>1, WatchFields DEF WatchStates
  <2>5. resumable' = IF s.watch[u] # how /\ how \in {"woken", "asked"} THEN Readied(u) ELSE resumable
    BY <1>1, <2>4 DEF WokenQueue
  <2>6. how = IF FALSE /\ s.watch[u] = "waiting" THEN "woken"
              ELSE IF s.watch[u] = "yielded" THEN "asked" ELSE s.watch[u]
    OBVIOUS
  <2> HIDE DEF how
  <2> QED BY <1>1, <1>4, <2>3, <2>5, <2>6, WatchTellHolds
<1> QED BY <1>3, <1>4

LEMMA StopWatchHolds ==
    ASSUME WatchInv, NEW u \in Watches, StopWatch(u)
    PROVE  WatchInv'
<1> USE WatchAssumption
<1> DEFINE marked == [s EXCEPT !.stopped = TRUE]
           st == Awaited(Scheduled(marked, u), u)
<1>1. /\ Watched(s, u) /\ s \in WatchStates
      /\ resumable' = WokenQueue(st, u) /\ s' = IF s.unread THEN WatchOver(st, u, "gone") ELSE st
  BY DEF StopWatch, Becomes, WatchInv, WatchOk
<1>2. OnlyWatch(s, u) /\ s.data = u /\ (s.watch[u] # "yielded" => ~s.unread)
  BY <1>1, OnlyWatchHolds
<1>3. /\ marked \in WatchStates /\ marked.watch = s.watch /\ marked.unread = s.unread
      /\ marked.stopped = TRUE
  BY <1>1 DEF WatchStates
<1>4. CASE s.unread
  <2>1. s.watch[u] = "yielded"
    BY <1>2, <1>4
  <2>2. st = [s EXCEPT !.stopped = TRUE, !.unread = FALSE]
    BY <1>1, <1>3, <1>4, <2>1 DEF Awaited, Scheduled
  <2> HIDE DEF st
  <2>3. st \in WatchStates
    <3>1. [s EXCEPT !.stopped = TRUE, !.unread = FALSE] \in WatchStates
      BY <1>1 DEF WatchStates
    <3> QED BY <2>2, <3>1
  <2>4. /\ st.watch = s.watch /\ st.buf = s.buf /\ st.seen = s.seen /\ st.open = s.open
        /\ st.uv = s.uv /\ st.fault = s.fault /\ st.reported = s.reported
    BY <1>1, <2>2 DEF WatchStates
  <2>5. OnlyWatch(st, u)
    BY <1>2, <2>4 DEF OnlyWatch, Watched
  <2>6. s' = WatchOver(st, u, "gone") /\ resumable' = resumable
    BY <1>1, <1>4, <2>4 DEF WokenQueue
  <2>7. s' \in WatchStates /\ WatchOk(s') /\ MovesWatch(st, s', u, "gone")
    BY <2>3, <2>5, <2>6, WatchOverOk
  <2>8. MovesWatch(s, s', u, "gone")
    BY <2>4, <2>7 DEF MovesWatch
  <2>9. resumable \in HandleQueue(Watches) /\ NoDuplicates(resumable)
        /\ Queued(resumable) = Queued(resumable) \ {u}
    BY <2>1 DEF WatchInv, WatchQueueInv
  <2> QED BY <2>6, <2>7, <2>8, <2>9, WatchStepHolds
<1>5. CASE ~s.unread
  <2> DEFINE how == IF TRUE /\ s.watch[u] = "waiting" THEN "woken"
                    ELSE IF s.watch[u] = "yielded" THEN "asked" ELSE s.watch[u]
  <2>1. st = [s EXCEPT !.stopped = TRUE, !.reading = TRUE, !.watch[u] = how]
    <3>1. CASE s.watch[u] = "waiting"
      BY <1>1, <1>3, <1>5, <3>1, WatchFields DEF Awaited, Scheduled, WatchStates
    <3>2. CASE s.watch[u] # "waiting"
      BY <1>1, <1>3, <1>5, <3>2, WatchFields DEF Awaited, Scheduled, WatchStates
    <3> QED BY <3>1, <3>2
  <2> HIDE DEF st
  <2>2. s' = st /\ s' = [s EXCEPT !.stopped = s.stopped \/ TRUE, !.reading = TRUE, !.watch[u] = how]
    BY <1>1, <1>5, <2>1
  <2>3. st.watch[u] = how
    BY <1>1, <2>1, WatchFields DEF WatchStates
  <2>4. resumable' = IF s.watch[u] # how /\ how \in {"woken", "asked"} THEN Readied(u) ELSE resumable
    BY <1>1, <2>3 DEF WokenQueue
  <2>5. how = IF TRUE /\ s.watch[u] = "waiting" THEN "woken"
              ELSE IF s.watch[u] = "yielded" THEN "asked" ELSE s.watch[u]
    OBVIOUS
  <2> HIDE DEF how
  <2> QED BY <1>1, <1>5, <2>2, <2>4, <2>5, WatchTellHolds
<1> QED BY <1>4, <1>5

LEMMA WatchCloseHolds ==
    ASSUME WatchUse, WatchInv, WatchClose
    PROVE  WatchInv'
<1> USE WatchAssumption
<1>1. /\ s' = [s EXCEPT !.open = FALSE, !.uv = "closing", !.data = Null] /\ resumable' = resumable
      /\ \A u \in Watches : ~Watched(s, u)
      /\ s \in WatchStates
  BY DEF WatchClose, Becomes, WatchUse, Watching, Watched, WatchInv
<1>2. s' \in WatchStates
  BY <1>1 DEF WatchStates
<1>3. /\ s'.watch = s.watch /\ s'.buf = s.buf /\ s'.seen = s.seen /\ s'.data = Null
      /\ s'.open = FALSE /\ s'.fault = s.fault /\ s'.reported = s.reported
      /\ s'.stopped = s.stopped /\ s'.unread = s.unread
  BY <1>1 DEF WatchStates
<1>4. s.data = Null
  BY <1>1, WatchFields DEF WatchInv, WatchOk
<1>5. \A u \in Watches : ~Watched(s', u)
  BY <1>1, <1>3 DEF Watched
<1>6. WatchOk(s')
  BY <1>3, <1>4, <1>5 DEF WatchInv, WatchOk, Watched
<1>7. WatchOk(s)'
  BY <1>6 DEF WatchOk, Watched
<1> QED BY <1>1, <1>2, <1>3, <1>7 DEF WatchInv, WatchQueueInv

LEMMA WatchEventHolds ==
    ASSUME WatchInv, NEW isError \in BOOLEAN, onFsWatcherEvent(isError)
    PROVE  WatchInv' \/ WatchThrew'
<1> USE WatchAssumption
<1> DEFINE u == s.data
           n == s.reported + 1
           reported == [s EXCEPT !.reported = n]
           st == Scheduled(AddEvent(reported, isError), u)
<1>1. /\ s \in WatchStates /\ s.fault = "none" /\ Rising(s.seen \o s.buf, s.reported)
      /\ IF u = Null THEN Becomes(resumable, reported) ELSE Becomes(WokenQueue(st, u), st)
  BY DEF onFsWatcherEvent, WatchInv, WatchOk
<1>2. n \in Nat /\ Rising(s.seen \o s.buf, n) /\ Rising(s.seen \o Append(s.buf, n), n)
      /\ s.buf \in Seq(Nat) /\ Append(s.buf, n) \in Seq(Nat) /\ Append(s.buf, n) # <<>>
      /\ Len(s.buf) \in Nat
  <2>1. s.buf \in Seq(Nat) /\ s.seen \in Seq(Nat) /\ s.reported \in Nat /\ Len(s.buf) \in Nat
    BY <1>1, WatchFields
  <2>2. Rising(s.seen \o s.buf, n) /\ Rising(s.seen \o Append(s.buf, n), n)
    BY <1>1, <2>1, RisingPut
  <2>3. n \in Nat
    BY <2>1
  <2> HIDE DEF n
  <2>4. Append(s.buf, n) \in Seq(Nat) /\ Append(s.buf, n) # <<>>
    BY <2>1, <2>3
  <2> QED BY <2>1, <2>2, <2>3, <2>4
<1> HIDE DEF n
<1>3. /\ reported \in WatchStates /\ reported.watch = s.watch /\ reported.buf = s.buf
      /\ reported.seen = s.seen /\ reported.data = s.data /\ reported.open = s.open
      /\ reported.uv = s.uv /\ reported.fault = s.fault /\ reported.reported = n
      /\ reported.stopped = s.stopped /\ reported.unread = s.unread
  BY <1>1, <1>2 DEF WatchStates
<1>4. CASE u = Null
  <2>1. s' = reported /\ resumable' = resumable
    BY <1>1, <1>4 DEF Becomes
  <2> HIDE DEF reported
  <2>2. Rising(s'.seen \o s'.buf, s'.reported)
    BY <1>2, <1>3, <2>1
  <2>3. WatchOk(s)'
    BY <1>3, <2>1, <2>2 DEF WatchInv, WatchOk, Watched
  <2> QED BY <1>3, <2>1, <2>3 DEF WatchInv, WatchQueueInv
<1>5. CASE u # Null /\ isError /\ ~(Len(s.buf) < EventQueue)
  <2>1. AddEvent(reported, isError) = [reported EXCEPT !.fault = "callback threw"]
    BY <1>3, <1>5 DEF AddEvent
  <2>2. s' = st
    BY <1>1, <1>5 DEF Becomes
  <2>3. /\ [reported EXCEPT !.fault = "callback threw"].fault = "callback threw"
        /\ [reported EXCEPT !.fault = "callback threw"].is = "watch"
    BY <1>3 DEF WatchStates
  <2> DEFINE threw == [reported EXCEPT !.fault = "callback threw"]
  <2>4. s' = Scheduled(threw, u) /\ threw \in WatchStates
    BY <1>3, <2>1, <2>2 DEF WatchStates
  <2>5. threw.fault = "callback threw" /\ threw.is = "watch"
    BY <2>3
  <2> HIDE DEF threw
  <2>6. s'.is = "watch" /\ s'.fault = "callback threw"
    BY <2>4, <2>5 DEF Scheduled, WatchStates
  <2> QED BY <2>6 DEF WatchThrew
<1>6. CASE u # Null /\ ~(isError /\ ~(Len(s.buf) < EventQueue))
  <2> DEFINE buf == IF Len(s.buf) < EventQueue THEN Append(s.buf, n) ELSE s.buf
             how == IF s.watch[u] = "waiting" THEN "woken" ELSE s.watch[u]
  <2>1. u \in Watches /\ Watched(s, u)
    BY <1>1, <1>6, WatchFields DEF WatchInv, WatchOk
  <2>2. OnlyWatch(s, u)
    BY <2>1, OnlyWatchHolds
  <2>3. AddEvent(reported, isError) = [s EXCEPT !.reported = n, !.buf = buf]
    <3>1. CASE Len(s.buf) < EventQueue
      BY <1>1, <1>3, <3>1 DEF AddEvent, WatchStates
    <3>2. CASE ~(Len(s.buf) < EventQueue)
      <4>1. ~isError
        BY <1>6, <3>2
      <4>2. AddEvent(reported, isError) = reported
        BY <1>3, <3>2, <4>1 DEF AddEvent
      <4> QED BY <1>1, <3>2, <4>2 DEF WatchStates
    <3> QED BY <3>1, <3>2
  <2>4. buf \in Seq(Nat) /\ Rising(s.seen \o buf, n) /\ (s.buf # <<>> \/ s.buf = <<>> => buf # <<>>)
    <3>1. s.buf = <<>> => Len(s.buf) < EventQueue
      OBVIOUS
    <3> QED BY <1>2, <3>1
  <2>5. how \in {"woken", "yielded", "asked"}
    BY <2>1 DEF Watched
  <2> HIDE DEF buf, u, reported
  <2>6. st = [s EXCEPT !.reported = n, !.buf = buf, !.watch[u] = how]
    <3> DEFINE put == [s EXCEPT !.reported = n, !.buf = buf]
    <3>1. put.watch = s.watch
      BY <1>1 DEF WatchStates
    <3>2. st = IF s.watch[u] = "waiting" THEN [put EXCEPT !.watch[u] = "woken"] ELSE put
      BY <2>3, <3>1 DEF Scheduled
    <3>3. CASE s.watch[u] = "waiting"
      BY <3>2, <3>3
    <3>4. CASE s.watch[u] # "waiting"
      <4>1. s.watch \in [Watches -> WatchCalls]
        BY <1>1, WatchFields
      <4>2. [s.watch EXCEPT ![u] = how] = s.watch
        BY <2>1, <3>4, <4>1
      <4>3. [s EXCEPT !.reported = n, !.buf = buf, !.watch = s.watch] = put
        BY <1>1 DEF WatchStates
      <4>4. [s EXCEPT !.reported = n, !.buf = buf, !.watch = [s.watch EXCEPT ![u] = how]] = put
        BY ONLY <4>2, <4>3
      <4> HIDE DEF put, how
      <4>5. st = put
        BY <3>2, <3>4
      <4> QED BY ONLY <4>4, <4>5
    <3> QED BY <3>3, <3>4
  <2>7. s' = st /\ resumable' = WokenQueue(st, u)
    BY <1>1, <1>6 DEF Becomes
  <2> HIDE DEF how, st
  <2>8. s' \in WatchStates
    <3>1. [s EXCEPT !.reported = n, !.buf = buf, !.watch[u] = how] \in WatchStates
      BY <1>1, <1>2, <2>1, <2>4, <2>5 DEF WatchStates, WatchCalls
    <3> QED BY <2>6, <2>7, <3>1
  <2>9. /\ s'.watch = [s.watch EXCEPT ![u] = how] /\ s'.buf = buf /\ s'.seen = s.seen
        /\ s'.data = s.data /\ s'.open = s.open /\ s'.uv = s.uv /\ s'.fault = s.fault
        /\ s'.reported = n /\ s'.stopped = s.stopped /\ s'.unread = s.unread
    BY <1>1, <2>6, <2>7 DEF WatchStates
  <2>10. s'.watch[u] = how /\ \A v \in Watches \ {u} : s'.watch[v] = s.watch[v]
    BY <1>1, <2>1, <2>9, WatchFields
  <2>11. Watched(s', u) /\ \A v \in Watches \ {u} : ~Watched(s', v)
    BY <2>2, <2>5, <2>10 DEF Watched, OnlyWatch
  <2>12. \A v \in Watches : s'.watch[v] # "waiting"
    BY <2>5, <2>10, <2>11 DEF Watched
  <2>13. /\ s'.data = u /\ s'.open /\ s'.uv = "open" /\ s'.fault = "none" /\ s'.buf # <<>>
         /\ Rising(s'.seen \o s'.buf, s'.reported)
    BY <2>2, <2>4, <2>9 DEF OnlyWatch, u
  <2>14. s'.unread => s'.watch[u] = "yielded"
    <3>1. s.unread => s.watch[u] = "yielded"
      BY <2>1 DEF WatchInv, WatchOk, u
    <3> QED BY <2>9, <2>10, <3>1 DEF how
  <2>15. WatchOk(s')
    BY <2>1, <2>11, <2>12, <2>13, <2>14 DEF WatchOk
  <2>16. MovesWatch(s, s', u, how)
    BY <2>10 DEF MovesWatch
  <2>17. resumable' = IF s.watch[u] # how /\ how \in {"woken", "asked"} THEN Readied(u) ELSE resumable
    BY <2>7, <2>10 DEF WokenQueue
  <2>18. s.watch[u] \in {"woken", "asked"} => how = s.watch[u]
    BY DEF how
  <2> QED BY <2>1, <2>8, <2>15, <2>16, <2>17, <2>18, WatchWakeHolds
<1> QED BY <1>4, <1>5, <1>6

LEMMA WatchClosedHolds ==
    ASSUME WatchInv, onWatchClosed
    PROVE  WatchInv'
<1> USE WatchAssumption
<1>1. s' = [s EXCEPT !.uv = "freed"] /\ resumable' = resumable /\ s.uv = "closing" /\ s \in WatchStates
  BY DEF onWatchClosed, Becomes, WatchInv
<1>2. s' \in WatchStates
  BY <1>1 DEF WatchStates
<1>3. /\ s'.watch = s.watch /\ s'.buf = s.buf /\ s'.seen = s.seen /\ s'.data = s.data
      /\ s'.open = s.open /\ s'.fault = s.fault /\ s'.reported = s.reported
      /\ s'.stopped = s.stopped /\ s'.unread = s.unread
  BY <1>1 DEF WatchStates
<1>4. ~s.open
  BY <1>1 DEF WatchInv, WatchOk
<1>5. WatchOk(s)'
  BY <1>3, <1>4 DEF WatchInv, WatchOk, Watched
<1> QED BY <1>1, <1>2, <1>3, <1>5 DEF WatchInv, WatchQueueInv

----------------------------------------------------------------------------
LEMMA WatchInductive ==
    ASSUME WatchUse
    PROVE  (WatchInv \/ WatchThrew) /\ [WatchNext \/ TakeTurns]_vars => (WatchInv \/ WatchThrew)'
<1> SUFFICES ASSUME WatchInv \/ WatchThrew, [WatchNext \/ TakeTurns]_vars
             PROVE  WatchInv' \/ WatchThrew'
  OBVIOUS
<1>1. CASE WatchInv /\ WatchNext
  BY <1>1, WatchHolds, AskEventHolds, WatchResumesHolds, DropWatchHolds, StopWatchHolds,
     WatchCloseHolds, WatchEventHolds, WatchClosedHolds DEF WatchNext
<1>2. CASE WatchInv /\ TakeTurns
  <2>1. /\ s' = s /\ resumable' \in HandleQueue(Watches) /\ Queued(resumable') = Queued(resumable)
        /\ NoDuplicates(resumable')
    BY <1>2, TurnsHold DEF WatchInv, WatchQueueInv
  <2> QED BY <1>2, <2>1 DEF WatchInv, WatchOk, Watched, WatchQueueInv
<1>3. CASE WatchInv /\ UNCHANGED vars
  BY <1>3 DEF vars, turnVars, WatchInv, WatchOk, Watched, WatchQueueInv
<1>4. CASE WatchThrew
  <2>1. ~WatchNext
    BY <1>4 DEF WatchThrew, WatchNext, IsWatch, Watch, AskEvent, WatchResumes, DropWatch, StopWatch,
                WatchClose, onFsWatcherEvent, onWatchClosed
  <2>2. s' = s
    BY <2>1 DEF TakeTurns, vars
  <2> QED BY <1>4, <2>2 DEF WatchThrew
<1> QED BY <1>1, <1>2, <1>3, <1>4

\* The handle leads to the generator exactly while there is one, a generator that
\* waits is reached by the next event or by stopWatch(), and one that was woken
\* finds an event or was stopped, as BOOST_ASSERT(stopped_ || !events_.empty())
\* (fs.cc:352) says.
THEOREM WatchesServe ==
    ASSUME WatchUse
    PROVE  WatchSpec => []WatchServed
<1>1. WatchInv \/ WatchThrew => WatchServed
  BY DEF WatchInv, WatchThrew, IsWatch, WatchOk, WatchServed, Watching, Watched, WatchAwaitReady
<1> QED BY <1>1, WatchInitHolds, WatchInductive, PTL DEF WatchSpec

\* Events are yielded in the order of their reports, each at most once, over all
\* generators of a watch: none is taken over from a buffer that is gone (fs.cc:442-444).
THEOREM WatchDeliversInOrder ==
    ASSUME WatchUse
    PROVE  WatchSpec => []EventsInOrder
<1>1. WatchInv \/ WatchThrew => EventsInOrder
  BY DEF WatchInv, WatchThrew, IsWatch, WatchOk, Rising, EventsInOrder
<1> QED BY <1>1, WatchInitHolds, WatchInductive, PTL DEF WatchSpec

\* Each generator in the run queue is there once and is suspended.
THEOREM WatchQueuesSuspended ==
    ASSUME WatchUse
    PROVE  WatchSpec => []WatchQueueSound
<1>1. WatchInv \/ WatchThrew => WatchQueueSound
  BY QueuedType DEF WatchInv, WatchThrew, IsWatch, WatchQueueInv, WatchQueueSound, QueueIsSound
<1> QED BY <1>1, WatchInitHolds, WatchInductive, PTL DEF WatchSpec
=============================================================================
