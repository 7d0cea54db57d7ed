------------------------------- MODULE Select -------------------------------
(***************************************************************************)
(* SelectSet (src/uvco/promise/select.h) and what is built on it: waitAny, *)
(* race and raceIgnore (src/uvco/combinators.h).  A coroutine registers    *)
(* with several promises at once and is to be resumed once, by the first   *)
(* of them; the others must forget it, and when several finish before it   *)
(* runs, the surplus entries of the run queue must go.                     *)
(*                                                                         *)
(* The promises belong to other coroutines, which finish when they run; a  *)
(* result is fetched with unwrap().  The selecting coroutine may be        *)
(* dropped while it waits.  A program selects among promises of which one  *)
(* at least has not been fetched ("all stale" in Relaxed allows others).    *)
(***************************************************************************)
EXTENDS Component

CONSTANTS
    Promises,   \* the promises selected from
    Selector    \* the coroutine that selects

ASSUME SelectAssumption == Selector # Null

SelectInit ==
    /\ TurnInit
    /\ s = [is |-> "select",
            state |-> [p \in Promises |-> "init"],  \* state_ of each promise's core
            slot |-> {},            \* the promises that hold a result
            waited |-> {},          \* those whose waitingHandle_ is the selector
            owned |-> Promises,     \* the Promise objects that exist
            selector |-> "idle",    \* where the selecting coroutine is
            chosen |-> {},          \* promises_ of its SelectSet
            result |-> {}]          \* what its last select returned

IsSelect == s.is = "select"
SelectRunning == IsSelect /\ Running
stale(p) == s.state[p] = "finished" /\ p \notin s.slot

----------------------------------------------------------------------------
(* The promises                                                            *)

\* A coroutine runs to its end: Coroutine::return_value, PromiseCore::resume()
Finish(p) ==
    /\ SelectRunning
    /\ p \in s.owned /\ s.state[p] # "finished"
    /\ Becomes(IF p \in s.waited THEN Readied(Selector) ELSE resumable,
               [s EXCEPT !.state[p] = "finished", !.slot = @ \cup {p}, !.waited = @ \ {p}])

\* Promise::unwrap(), as waitAny does for what select returned
Unwrap(p) ==
    /\ SelectRunning
    /\ p \in s.owned \cap s.slot /\ s.selector = "idle"
    /\ Becomes(resumable, [s EXCEPT !.slot = @ \ {p}, !.result = @ \ {p}])

----------------------------------------------------------------------------
(* co_await SelectSet{...}                                                 *)

\* await_ready: one of the promises is ready, nothing is registered.
\* await_suspend: the selector registers with every promise not yet fetched.
Select(set) ==
    /\ SelectRunning
    /\ s.selector = "idle"
    /\ set # {} /\ set \subseteq s.owned
    /\ "all stale" \in Relaxed \/ \E p \in set : ~stale(p)
    /\ LET fresh == {p \in set : ~stale(p)}
       IN  Becomes(resumable,
                   IF set \cap s.slot # {} THEN [s EXCEPT !.result = set \cap s.slot]
                   ELSE [s EXCEPT !.waited = @ \cup fresh, !.selector = "suspended",
                                  !.chosen = set, !.result = {},
                                  !.state = [p \in Promises |-> IF p \in fresh THEN "waitedOn" ELSE @[p]]])

\* PromiseCore::resetHandle() of every promise of a set
resetHandle(st, set) ==
    [st EXCEPT !.waited = @ \ set,
               !.state = [p \in Promises |->
                            IF p \in set /\ @[p] = "waitedOn" THEN "init" ELSE @[p]]]

\* surplus entries that stay in the run queue
SurplusKept == Popped

\* Loop::cancel(suspended_): entries of the selector beyond the one just popped
SurplusCancelled == CancelAll(Popped, {Selector})

\* await_resume
SelectResumes ==
    /\ IsSelect /\ Resumed(Selector)
    /\ Becomes(SurplusCancelled,
               [resetHandle(s, s.chosen \ s.slot)
                    EXCEPT !.selector = "idle", !.result = s.chosen \cap s.slot, !.chosen = {}])

----------------------------------------------------------------------------
\* The selecting coroutine is dropped while it is suspended: it is cancelled in
\* the run queue, and ~SelectSet resets the promises; with race() and
\* raceIgnore(), the promises it owns are dropped after the SelectSet.
DropSelector(race) ==
    /\ SelectRunning
    /\ s.selector = "suspended"
    /\ Becomes(Dropped(Selector),
               [resetHandle(s, s.chosen)
                    EXCEPT !.selector = "gone", !.chosen = {},
                           !.owned = IF race THEN @ \ s.chosen ELSE @])

\* a promise is dropped while nobody waits for it: the losers of race() and
\* raceIgnore(), whose coroutines are cancelled.
DropPromise(p) ==
    /\ SelectRunning
    /\ p \in s.owned /\ s.selector # "suspended"
    /\ Becomes(resumable, [s EXCEPT !.owned = @ \ {p}, !.result = @ \ {p}])

SelectNext ==
    \/ \E p \in Promises : Finish(p) \/ Unwrap(p) \/ DropPromise(p)
    \/ \E set \in SUBSET Promises : Select(set)
    \/ SelectResumes
    \/ \E race \in BOOLEAN : DropSelector(race)

\* The selecting coroutine and its promises, on a loop of their own
SelectSpec == SelectInit /\ [][SelectNext \/ TakeTurns]_vars

----------------------------------------------------------------------------
\* The selector is in the run queue or registered with a promise only while it
\* is suspended in a select, and only with promises of that select: a select
\* that is over is never resumed again, whatever finished in the meantime, and
\* neither is one that was dropped (select.h:63-70, 97-109).
NoStaleWakeup ==
    IsSelect =>
    /\ Selector \in Queued(resumable) \/ s.waited # {} => s.selector = "suspended"
    /\ s.waited \subseteq s.chosen

\* A promise is waited for exactly while its core says so, the state that
\* setHandle() and resetHandle() rely on (promise_core.h:58-82): otherwise a
\* later co_await of it throws "PromiseCore is already awaited".
WaitedOnHasWaiter ==
    IsSelect => s.waited = {p \in Promises : s.state[p] = "waitedOn"}

\* The selector, the run queue and the cores of the promises agree on whether a
\* select is going on, after any number of promises have finished, were fetched
\* or dropped (select.h:82-131).
SelectHandlesSound == NoStaleWakeup /\ WaitedOnHasWaiter
=============================================================================
