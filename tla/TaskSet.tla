------------------------------- MODULE TaskSet -------------------------------
(***************************************************************************)
(* TaskSet and the WaitPoint it signals through (src/uvco/combinators.cc,  *)
(* combinators.h).  Each task is awaited by a wrapper coroutine, which     *)
(* cannot erase its own entry when the task has ended: it puts itself on a *)
(* list, from which the wrapper that ends next erases it.  Emptiness is    *)
(* the difference of two sizes, and coroutines wait in onEmpty() for it.   *)
(*                                                                         *)
(* add() first calls the wrapper and then enters what it returns.  The     *)
(* wrapper's co_await hands the turn to other ready coroutines, which run  *)
(* before the call returns: they may add tasks themselves, the task may    *)
(* finish, and its wrapper may run to the end before it is entered, which  *)
(* is so from the start for a task that had finished when it was added.    *)
(*                                                                         *)
(* A program does not drop an onEmpty() before that was released, unless   *)
(* "drop early" is in Relaxed, and does not destroy a TaskSet while a      *)
(* coroutine is inside its add(): Runtime tells what that does.            *)
(***************************************************************************)
EXTENDS Component, FiniteSets

CONSTANTS
    Tasks,      \* ids of the tasks a program adds, each once
    Waiters     \* coroutines that call onEmpty()

ASSUME TaskSetAssumption == Null \notin Tasks \cup Waiters /\ Tasks \cap Waiters = {}

TaskSetInit ==
    /\ TurnInit
    /\ s = [is |-> "taskset",
            tasks |-> {},           \* the keys of tasks_
            doneTasks |-> <<>>,     \* doneTasks_
            adding |-> <<>>,        \* add()s on the native stack, the last on top
            waiters |-> <<>>,       \* onEmpty_.waiters_
            task |-> [t \in Tasks |-> "new"],       \* where each task's wrapper is
            onEmpty |-> [w \in Waiters |-> "idle"], \* where each onEmpty() is
            early |-> FALSE]        \* history: a wrapper ended before it was entered

IsTaskSet == s.is = "taskset"
TaskSetRunning == IsTaskSet /\ Running

AddReturned == s.adding = <<>>

\* The tasks that have been entered and have not ended
Active == {t \in Tasks : s.task[t] \in {"running", "finished"}} \ Queued(s.adding)

\* empty() and the test before releaseAll(); the sizes are unsigned, and the
\* difference is compared with n only.
active(n) == Cardinality(s.tasks) = Len(s.doneTasks) + n

\* WaitPoint::releaseAll(): the handles it enqueues
releaseAll == s.waiters

\* No task is left beside the one that is ending.
LastOne == active(1)

\* a clean-up that forgets to clear the list
ListKept(t) == Append(s.doneTasks, t)

\* doneTasks_ once the tasks on it were erased
Listed(t) == <<t>>

\* The end of wrap(): the waiters are released if it was the last, finished tasks
\* are erased, and it lists itself.  entering is what add() enters then.
WrapEnds(t, queue, entering) ==
    LET released == IF LastOne THEN releaseAll ELSE <<>>
    IN  Becomes(queue \o released,
                [s EXCEPT !.waiters = SubSeq(@, Len(released) + 1, Len(@)),
                          !.tasks = (@ \ Queued(s.doneTasks)) \cup entering,
                          !.doneTasks = Listed(t),
                          !.task[t] = "ended",
                          !.early = @ \/ t \in Queued(s.adding)])

\* add() of a task that runs calls wrap(), which suspends and hands over.
AddCallsWrap(t) ==
    /\ TaskSetRunning
    /\ s.task[t] = "new"
    /\ Becomes(resumable, [s EXCEPT !.adding = Append(@, t), !.task[t] = "running"])

\* wrap() has returned to add(), which enters it in the map.
AddEnters ==
    /\ TaskSetRunning
    /\ s.adding # <<>>
    /\ LET n == Len(s.adding)
       IN  Becomes(resumable, [s EXCEPT !.tasks = @ \cup {s.adding[n]},
                                        !.adding = SubSeq(@, 1, n - 1)])

\* add() of a task that has finished: wrap() does not suspend, and is entered when
\* it has run to its end.
AddFinishedTask(t) ==
    /\ TaskSetRunning
    /\ s.task[t] = "new"
    /\ WrapEnds(t, resumable, {t})

\* A task returns or throws, and its wrapper is enqueued.
TaskFinishes(t) ==
    /\ TaskSetRunning
    /\ s.task[t] = "running"
    /\ Becomes(Readied(t), [s EXCEPT !.task[t] = "finished"])

\* The wrapper is resumed; an exception goes to the error callback.
WrapResumes(t) ==
    /\ IsTaskSet /\ Resumed(t)
    /\ WrapEnds(t, Popped, {})

----------------------------------------------------------------------------
\* onEmpty(): returns at once, or waits: WaitPoint::wait()
OnEmpty(w) ==
    /\ TaskSetRunning
    /\ s.onEmpty[w] = "idle"
    /\ Becomes(resumable,
               IF active(0) THEN [s EXCEPT !.onEmpty[w] = "returned"]
               ELSE [s EXCEPT !.onEmpty[w] = "waiting", !.waiters = Append(@, w)])

\* wait() is resumed and ends, and onEmpty(), which awaits it, with it.
OnEmptyResumes(w) ==
    /\ IsTaskSet /\ Resumed(w)
    /\ Becomes(Popped, [s EXCEPT !.onEmpty[w] = "returned"])

\* The promise of an onEmpty() is dropped; its handle stays in waiters_.
DropOnEmpty(w) ==
    /\ TaskSetRunning
    /\ s.onEmpty[w] = "waiting"
    /\ "drop early" \in Relaxed \/ w \notin Queued(s.waiters)
    /\ Becomes(Dropped(w), [s EXCEPT !.onEmpty[w] = "gone"])

\* ~TaskSetImpl destroys the promises in tasks_: Loop::cancel
Cancelled == CancelAll(resumable, s.tasks)

\* The TaskSet is destroyed, and its tasks with it.
DropTaskSet ==
    /\ TaskSetRunning
    /\ s.tasks # {} /\ s.waiters = <<>> /\ AddReturned
    /\ Becomes(Cancelled, [s EXCEPT !.task = [t \in Tasks |-> "gone"],
                                    !.tasks = {}, !.doneTasks = <<>>])

TaskSetNext ==
    \/ \E t \in Tasks : AddCallsWrap(t) \/ AddFinishedTask(t) \/ TaskFinishes(t) \/ WrapResumes(t)
    \/ \E w \in Waiters : OnEmpty(w) \/ OnEmptyResumes(w) \/ DropOnEmpty(w)
    \/ AddEnters \/ DropTaskSet

\* A TaskSet on a loop of its own
TaskSetSpec == TaskSetInit /\ [][TaskSetNext \/ (AddReturned /\ TakeTurns)]_vars

----------------------------------------------------------------------------
\* Every coroutine in the run queue or registered with the wait point is
\* suspended and held once: none is resumed after it was dropped or has ended.
TaskSetHandlesWait ==
    IsTaskSet =>
    /\ QueueIsSound({t \in Tasks : s.task[t] = "finished"} \cup {w \in Waiters : s.onEmpty[w] = "waiting"})
    /\ \A w \in Queued(s.waiters) : s.onEmpty[w] = "waiting"

\* "It will be run to completion" (combinators.h:155): the promise of an active
\* task is in the map, never erased by the clean-up of another one.  As long as no
\* wrapper has ended before it was entered, a finished task is kept only until the
\* next one ends, empty() tells "if there are any active tasks" (160), and a call
\* of onEmpty() is left waiting only while there are, "as no more tasks will run to
\* trigger the cleanup, and thus notify onEmpty" (combinators.cc:136-137).
TasksAccountedFor ==
    IsTaskSet =>
    /\ Active \subseteq s.tasks
    /\ ~s.early => /\ Cardinality(s.tasks \ Active) <= 1
                   /\ active(0) <=> Active = {}
                   /\ s.waiters # <<>> => Active # {}
=============================================================================
