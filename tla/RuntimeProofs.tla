---------------------------- MODULE RuntimeProofs ----------------------------
(***************************************************************************)
(* Theorems about Runtime for any number of coroutines, with or without    *)
(* the symmetric hand-off.  Types, and polling only when nobody is ready,  *)
(* hold whatever the programs borrow and drop.  That no wake-up is lost,   *)
(* duplicated or delivered to a frame that is gone holds in the programs   *)
(* that await only promises they hold and drop only coroutines that are    *)
(* not executing.                                                          *)
(***************************************************************************)
EXTENDS Runtime, SequenceTheorems, TLAPS

\* What the loop's flags say of the run queue, phase by phase: the inductive
\* strengthening of PollOnlyWhenIdle.  stopped_ may spare a uv_stop() only
\* where libuv's flag cannot have been cleared since; while runAll() drains
\* the queue it may be stale, which does no harm because runAll() leaves
\* nothing behind.
LoopInv ==
    /\ phase \in {"main", "poll"} /\ stopped => stopFlag
    /\ phase \in {"main", "check", "uv", "poll"} /\ resumable # <<>> => stopFlag
    /\ phase = "uv" => ~stopped
    /\ stack # <<>> => phase \in {"main", "runAll"}

----------------------------------------------------------------------------
(* The run queue's operations                                              *)

\* Scheduler::cancel keeps the length of the deque, and nulls handles only.
LEMMA CancelAllType ==
    ASSUME NEW S, NEW q \in Seq(S \cup {Null}), NEW H
    PROVE  /\ CancelAll(q, H) \in Seq(S \cup {Null})
           /\ Len(CancelAll(q, H)) = Len(q)
           /\ CancelAll(q, H) = <<>> <=> q = <<>>
<1> DEFINE n == Len(q)
           g == [i \in 1 .. n |-> IF q[i] \in H THEN Null ELSE q[i]]
<1>1. n \in Nat
  OBVIOUS
<1>2. \A i \in 1 .. n : q[i] \in S \cup {Null}
  OBVIOUS
<1>3. g \in [1 .. n -> S \cup {Null}]
  BY <1>2
<1>4. g \in Seq(S \cup {Null}) /\ Len(g) = n
  <2> HIDE DEF g
  <2> QED BY <1>1, <1>3
<1>5. g = <<>> <=> q = <<>>
  <2> HIDE DEF g
  <2> QED BY <1>4
<1> QED BY <1>4, <1>5 DEF CancelAll

\* Popping the deque leaves handles of the same kind.
LEMMA AfterType ==
    ASSUME NEW S, NEW q \in Seq(S), NEW i \in 1 .. Len(q)
    PROVE  After(q, i) \in Seq(S)
BY DEF After

\* Control returns to the resumer.
LEMMA PopType ==
    ASSUME stack \in Seq(Coro), stack # <<>>
    PROVE  Pop \in Seq(Coro)
BY DEF Pop

\* Loop::enqueue keeps the queue's type.
LEMMA LoopEnqueueType ==
    ASSUME TypeOK, NEW c \in Coro, LoopEnqueue(c)
    PROVE  /\ resumable' \in Seq(Coro \cup {Null})
           /\ {stopped', stopFlag'} \subseteq BOOLEAN
<1>1. resumable' \in Seq(Coro \cup {Null})
  BY DEF TypeOK, LoopEnqueue, Enqueue
<1>2. stopped' \in BOOLEAN /\ stopFlag' \in BOOLEAN
  BY Zenon DEF LoopEnqueue
<1> QED BY <1>1, <1>2

\* Taking a result out of a slot keeps the slots' type.
LEMMA TakenType ==
    ASSUME TypeOK, NEW p \in Coro
    PROVE  Taken(p) \in [Coro -> {"none", "value", "exc"}]
BY DEF TypeOK, Taken

\* Resuming the next ready coroutine keeps queue, stack and slots well typed.
LEMMA ResumeAtType ==
    ASSUME TypeOK, NEW i \in 1 .. Len(resumable), NEW c \in Coro,
           NEW below \in Seq(Coro), ResumeAt(i, c, below)
    PROVE  /\ resumable' \in Seq(Coro \cup {Null})
           /\ stack' \in Seq(Coro)
           /\ slot' \in [Coro -> {"none", "value", "exc"}]
<1>1. resumable' \in Seq(Coro \cup {Null})
  BY AfterType DEF TypeOK, ResumeAt
<1>2. stack' \in Seq(Coro)
  BY DEF ResumeAt
<1>3. slot' \in [Coro -> {"none", "value", "exc"}]
  BY TakenType DEF TypeOK, ResumeAt
<1> QED BY <1>1, <1>2, <1>3

----------------------------------------------------------------------------
(* Type correctness                                                        *)

\* Initially runMain has called main, and nothing else exists.
LEMMA TypeInit == Init => TypeOK
<1> SUFFICES ASSUME Init PROVE TypeOK
  OBVIOUS
<1>1. {stopped, stopFlag, called} \subseteq BOOLEAN
  BY DEF Init
<1>2. stack \in Seq(Coro) /\ resumable \in Seq(Coro \cup {Null})
  BY CoroAssumption DEF Init
<1> QED BY <1>1, <1>2, CoroAssumption DEF Init, TypeOK

\* What the running coroutine does keeps the types.
LEMMA TypeCoroStep ==
    ASSUME TypeOK, CoroStep
    PROVE  TypeOK'
<1> PICK r \in Coro :
      \/ \E c \in Coro, moved \in SUBSET Coro, lent \in Lendable : Call(r, c, moved, lent)
      \/ \E p \in Coro : AwaitReady(r, p)
      \/ \E p, c \in Coro, i \in 1 .. Len(resumable) : AwaitHandOff(r, p, i, c)
      \/ \E p \in Coro : AwaitReturn(r, p)
      \/ Yield(r)
      \/ AwaitIo(r)
      \/ \E result \in {"value", "exc"}, D \in SUBSET Coro : Return(r, result, D)
      \/ \E p \in Coro, D \in SUBSET Coro : Drop(r, p, D)
  BY DEF CoroStep
<1>1. ASSUME NEW c \in Coro, NEW moved \in SUBSET Coro, NEW lent \in Lendable,
             Call(r, c, moved, lent)
      PROVE  TypeOK'
  <2>1. lent \subseteq Coro
    BY DEF Lendable
  <2>2. stack' \in Seq(Coro)
    BY <1>1 DEF Call, TypeOK
  <2> QED BY <1>1, <2>1, <2>2 DEF Call, TypeOK, coreVars, loopVars
<1>2. ASSUME NEW p \in Coro, AwaitReady(r, p)
      PROVE  TypeOK'
  BY <1>2, TakenType DEF AwaitReady, TypeOK, frameVars, loopVars
<1>3. ASSUME NEW p \in Coro, NEW c \in Coro, NEW i \in 1 .. Len(resumable),
             AwaitHandOff(r, p, i, c)
      PROVE  TypeOK'
  <2>1. Pop \in Seq(Coro)
    BY <1>3, PopType DEF AwaitHandOff, Running, TypeOK
  <2>2. /\ resumable' \in Seq(Coro \cup {Null})
        /\ stack' \in Seq(Coro)
        /\ slot' \in [Coro -> {"none", "value", "exc"}]
    BY <1>3, <2>1, ResumeAtType DEF AwaitHandOff
  <2> QED BY <1>3, <2>2 DEF AwaitHandOff, TypeOK, loopVars
<1>4. ASSUME NEW p \in Coro, AwaitReturn(r, p)
      PROVE  TypeOK'
  <2>1. stack' \in Seq(Coro)
    BY <1>4, PopType DEF AwaitReturn, Running, TypeOK
  <2> QED BY <1>4, <2>1 DEF AwaitReturn, TypeOK, loopVars
<1>5. ASSUME Yield(r)
      PROVE  TypeOK'
  <2>1. stack' \in Seq(Coro)
    BY <1>5, PopType DEF Yield, Running, TypeOK
  <2>2. /\ resumable' \in Seq(Coro \cup {Null})
        /\ {stopped', stopFlag'} \subseteq BOOLEAN
    BY <1>5, LoopEnqueueType DEF Yield
  <2> QED BY <1>5, <2>1, <2>2 DEF Yield, TypeOK, coreVars
<1>6. ASSUME AwaitIo(r)
      PROVE  TypeOK'
  <2>1. stack' \in Seq(Coro)
    BY <1>6, PopType DEF AwaitIo, Running, TypeOK
  <2> QED BY <1>6, <2>1 DEF AwaitIo, TypeOK, coreVars, loopVars
<1>7. ASSUME NEW result \in {"value", "exc"}, NEW D \in SUBSET Coro, Return(r, result, D)
      PROVE  TypeOK'
  <2>1. stack' \in Seq(Coro)
    BY <1>7, PopType DEF Return, Running, TypeOK
  <2>2. Woken(r) \in Seq(Coro \cup {Null})
    BY DEF Woken, Enqueue, TypeOK
  <2>3. resumable' \in Seq(Coro \cup {Null})
    BY <1>7, <2>2, CancelAllType DEF Return
  <2>4. stopped' \in BOOLEAN /\ stopFlag' \in BOOLEAN
    BY <1>7, Zenon DEF Return
  <2>5. frame' \in [Coro -> {"unborn", "onstack", "suspended", "final", "destroyed"}]
    BY <1>7 DEF Return, Destroyed, TypeOK
  <2> QED BY <1>7, <2>1, <2>3, <2>4, <2>5 DEF Return, Stored, Cleared, TypeOK
<1>8. ASSUME NEW p \in Coro, NEW D \in SUBSET Coro, Drop(r, p, D)
      PROVE  TypeOK'
  <2>1. resumable' \in Seq(Coro \cup {Null})
    BY <1>8, CancelAllType DEF Drop, TypeOK
  <2> QED BY <1>8, <2>1 DEF Drop, Destroyed, TypeOK, coreVars, loopVars
<1> QED BY <1>1, <1>2, <1>3, <1>4, <1>5, <1>6, <1>7, <1>8

\* So do the loop's steps.
LEMMA TypeLoopStep ==
    ASSUME TypeOK, LoopStep
    PROVE  TypeOK'
<1> USE DEF coroVars, frameVars, coreVars, loopVars
<1>1. CASE Turn
  BY <1>1 DEF Turn, TypeOK
<1>2. CASE RunEnds
  BY <1>2 DEF RunEnds, TypeOK
<1>3. CASE UvSkip
  BY <1>3 DEF UvSkip, TypeOK
<1>4. CASE UvPoll
  BY <1>4 DEF UvPoll, TypeOK
<1>5. CASE UvReturn
  BY <1>5 DEF UvReturn, TypeOK
<1>6. ASSUME NEW c \in Coro, NEW i \in 1 .. Len(resumable), RunNext(i, c)
      PROVE  TypeOK'
  <2>1. <<>> \in Seq(Coro)
    OBVIOUS
  <2>2. /\ resumable' \in Seq(Coro \cup {Null})
        /\ stack' \in Seq(Coro)
        /\ slot' \in [Coro -> {"none", "value", "exc"}]
    BY <1>6, <2>1, ResumeAtType DEF RunNext
  <2> QED BY <1>6, <2>2 DEF RunNext, TypeOK
<1>7. CASE RunAllEnds
  BY <1>7 DEF RunAllEnds, TypeOK
<1>8. ASSUME NEW D \in SUBSET Coro, RunMainReturns(D)
      PROVE  TypeOK'
  <2>1. resumable' \in Seq(Coro \cup {Null})
    BY <1>8, CancelAllType DEF RunMainReturns, TypeOK
  <2> QED BY <1>8, <2>1 DEF RunMainReturns, Destroyed, TypeOK
<1> QED BY <1>1, <1>2, <1>3, <1>4, <1>5, <1>6, <1>7, <1>8 DEF LoopStep

\* And libuv's callbacks.
LEMMA TypeInductive == TypeOK /\ [Next]_vars => TypeOK'
<1> SUFFICES ASSUME TypeOK, [Next]_vars
             PROVE  TypeOK'
  OBVIOUS
<1>1. CASE CoroStep
  BY <1>1, TypeCoroStep
<1>2. CASE LoopStep
  BY <1>2, TypeLoopStep
<1>3. ASSUME NEW c \in Coro, Callback(c)
      PROVE  TypeOK'
  <2>1. /\ resumable' \in Seq(Coro \cup {Null})
        /\ {stopped', stopFlag'} \subseteq BOOLEAN
    BY <1>3, LoopEnqueueType DEF Callback
  <2> QED BY <1>3, <2>1 DEF Callback, TypeOK, frameVars, coreVars
<1>4. CASE UNCHANGED vars
  BY <1>4 DEF vars, TypeOK
<1> QED BY <1>1, <1>2, <1>3, <1>4 DEF Next, Terminated

\* Frames, promise cores, run queue and loop flags keep their types in every
\* program, whatever it borrows and drops (promise_core.h:125, loop.h:60).
THEOREM TypeCorrect == Spec => []TypeOK
BY TypeInit, TypeInductive, PTL DEF Spec

----------------------------------------------------------------------------
(* The poll never blocks over ready coroutines                             *)

\* A coroutine's step: it may enqueue, but only in main's first run, where
\* stopped_ is accurate, or in runAll(), which drains the queue itself.
LEMMA LoopCoroStep ==
    ASSUME TypeOK, LoopInv, CoroStep
    PROVE  LoopInv'
<1> PICK r \in Coro :
      \/ \E c \in Coro, moved \in SUBSET Coro, lent \in Lendable : Call(r, c, moved, lent)
      \/ \E p \in Coro : AwaitReady(r, p)
      \/ \E p, c \in Coro, i \in 1 .. Len(resumable) : AwaitHandOff(r, p, i, c)
      \/ \E p \in Coro : AwaitReturn(r, p)
      \/ Yield(r)
      \/ AwaitIo(r)
      \/ \E result \in {"value", "exc"}, D \in SUBSET Coro : Return(r, result, D)
      \/ \E p \in Coro, D \in SUBSET Coro : Drop(r, p, D)
  BY DEF CoroStep
<1> USE DEF loopVars
<1>1. ASSUME NEW c \in Coro, NEW moved \in SUBSET Coro, NEW lent \in Lendable,
             Call(r, c, moved, lent)
      PROVE  LoopInv'
  BY <1>1 DEF Call, Running, LoopInv
<1>2. ASSUME NEW p \in Coro, AwaitReady(r, p)
      PROVE  LoopInv'
  BY <1>2 DEF AwaitReady, LoopInv
<1>3. ASSUME NEW p \in Coro, NEW c \in Coro, NEW i \in 1 .. Len(resumable),
             AwaitHandOff(r, p, i, c)
      PROVE  LoopInv'
  <2>1. resumable # <<>>
    BY DEF TypeOK
  <2> QED BY <1>3, <2>1 DEF AwaitHandOff, Running, LoopInv
<1>4. ASSUME NEW p \in Coro, AwaitReturn(r, p)
      PROVE  LoopInv'
  BY <1>4 DEF AwaitReturn, Running, LoopInv
<1>5. ASSUME Yield(r)
      PROVE  LoopInv'
  BY <1>5 DEF Yield, LoopEnqueue, Running, LoopInv
<1>6. ASSUME AwaitIo(r)
      PROVE  LoopInv'
  BY <1>6 DEF AwaitIo, Running, LoopInv
<1>7. ASSUME NEW result \in {"value", "exc"}, NEW D \in SUBSET Coro, Return(r, result, D)
      PROVE  LoopInv'
  <2>1. Woken(r) \in Seq(Coro \cup {Null})
    BY DEF Woken, Enqueue, TypeOK
  <2>0. resumable' = CancelAll(Woken(r), Cancelled(D))
    BY <1>7 DEF Return
  <2>2. resumable' = <<>> <=> Woken(r) = <<>>
    BY <2>0, <2>1, CancelAllType
  <2>3. waiting[r] = Null => Woken(r) = resumable
    BY DEF Woken
  <2>4. phase \in {"main", "runAll"}
    BY <1>7 DEF Return, Running, LoopInv
  <2> QED BY <1>7, <2>2, <2>3, <2>4 DEF Return, LoopInv
<1>8. ASSUME NEW p \in Coro, NEW D \in SUBSET Coro, Drop(r, p, D)
      PROVE  LoopInv'
  <2>1. resumable \in Seq(Coro \cup {Null})
    BY DEF TypeOK
  <2>2. resumable' = CancelAll(resumable, Cancelled(D))
    BY <1>8 DEF Drop
  <2>3. resumable' = <<>> <=> resumable = <<>>
    BY <2>1, <2>2, CancelAllType
  <2>4. UNCHANGED <<phase, stopped, stopFlag, stack>>
    BY <1>8 DEF Drop
  <2> QED BY <2>3, <2>4 DEF LoopInv
<1> QED BY <1>1, <1>2, <1>3, <1>4, <1>5, <1>6, <1>7, <1>8

\* Every step keeps what the flags say.
LEMMA LoopInductive == TypeOK /\ LoopInv /\ [Next]_vars => LoopInv'
<1> SUFFICES ASSUME TypeOK, LoopInv, [Next]_vars
             PROVE  LoopInv'
  OBVIOUS
<1> USE DEF loopVars
<1>1. CASE CoroStep
  BY <1>1, LoopCoroStep
<1>2. CASE Turn
  BY <1>2 DEF Turn, LoopInv
<1>3. CASE RunEnds
  BY <1>3 DEF RunEnds, LoopInv
<1>4. CASE UvSkip
  BY <1>4 DEF UvSkip, LoopInv
<1>5. CASE UvPoll
  BY <1>5 DEF UvPoll, LoopInv
<1>6. CASE UvReturn
  BY <1>6 DEF UvReturn, LoopInv
<1>7. ASSUME NEW c \in Coro, NEW i \in 1 .. Len(resumable), RunNext(i, c)
      PROVE  LoopInv'
  BY <1>7 DEF RunNext, LoopInv
<1>8. CASE RunAllEnds
  BY <1>8 DEF RunAllEnds, LoopInv
<1>9. ASSUME NEW D \in SUBSET Coro, RunMainReturns(D)
      PROVE  LoopInv'
  BY <1>9 DEF RunMainReturns, LoopInv
<1>10. ASSUME NEW c \in Coro, Callback(c)
       PROVE  LoopInv'
  BY <1>10 DEF Callback, LoopEnqueue, LoopInv
<1>11. CASE UNCHANGED vars
  BY <1>11 DEF vars, LoopInv
<1> QED
  BY <1>1, <1>2, <1>3, <1>4, <1>5, <1>6, <1>7, <1>8, <1>9, <1>10, <1>11
     DEF Next, LoopStep, Terminated

\* For any number of coroutines: uv_run() never blocks in its poll while a
\* coroutine is ready, although Loop::enqueue() calls uv_stop() only once per
\* turn (loop.cc:98).
THEOREM PollSafety == Spec => []PollOnlyWhenIdle
<1>1. Init => LoopInv
  BY DEF Init, LoopInv
<1>2. LoopInv => PollOnlyWhenIdle
  BY DEF LoopInv, PollOnlyWhenIdle
<1> QED BY <1>1, <1>2, LoopInductive, TypeCorrect, PTL DEF Spec

----------------------------------------------------------------------------
(* Wake-ups                                                                *)

\* Sequence s holds the members of a set, each once.
Lists(s, members) ==
    /\ s \in Seq(Coro)
    /\ \A i, j \in 1 .. Len(s) : s[i] = s[j] => i = j
    /\ \A c \in Coro : c \in members <=> \E i \in 1 .. Len(s) : s[i] = c

\* The native stack holds each executing coroutine once.
Executing == {c \in Coro : frame[c] = "onstack"}

StackInv == Lists(stack, Executing)

\* A promise core follows its frame: untouched before the call, finished
\* exactly at the final suspension, without a waiter until it is awaited.
CoreInv ==
    \A c \in Coro :
        /\ frame[c] = "unborn" => state[c] = "init" /\ waiting[c] = Null
        /\ refs[c] = {}
        /\ Live(c) => (frame[c] = "final" <=> state[c] = "finished")
        /\ Live(c) /\ state[c] = "init" => waiting[c] = Null

\* Live frames form a tree below main's promise, which runMain holds.
ForestInv ==
    /\ owner[Main] = "runMain" /\ frame[Main] # "unborn"
    /\ \A c \in Coro : Live(c) /\ c # Main => owner[c] \in Coro /\ Live(owner[c])

\* The run queue and libuv hold suspended coroutines, each once.
QueueInv ==
    /\ NoDuplicates(resumable)
    /\ \A c \in Queued(resumable) : frame[c] = "suspended"
    /\ \A c \in pending :
         frame[c] = "suspended" /\ awaits[c] = "io" /\ c \notin Queued(resumable)

\* A suspended coroutine waits for something that will wake it or has done so.
Awaited(c) ==
    \/ awaits[c] = "yield" /\ c \in Queued(resumable)
    \/ awaits[c] = "io" /\ c \in Queued(resumable) \cup pending
    \/ /\ awaits[c] \in Coro
       /\ Live(awaits[c])
       /\ owner[awaits[c]] = c
       /\ IF c \in Queued(resumable)
          THEN /\ state[awaits[c]] = "finished"
               /\ slot[awaits[c]] # "none"
               /\ waiting[awaits[c]] = Null
          ELSE waiting[awaits[c]] = c

AwaitInv == \A c \in Coro : frame[c] = "suspended" => Awaited(c)

\* A registered waiter is suspended on exactly this promise, and not ready.
WaiterInv ==
    \A p \in Coro : Live(p) /\ waiting[p] # Null =>
        /\ state[p] = "waitedOn"
        /\ frame[waiting[p]] = "suspended"
        /\ awaits[waiting[p]] = p
        /\ waiting[p] \notin Queued(resumable)

\* The inductive invariant.
WakeInv ==
    /\ TypeOK
    /\ LoopInv
    /\ StackInv
    /\ CoreInv
    /\ ForestInv
    /\ QueueInv
    /\ AwaitInv
    /\ WaiterInv

\* The programs this is about.
Disciplined == ~BorrowedAwait /\ ~DropOnStack

----------------------------------------------------------------------------
(* The run queue as a set                                                  *)

\* enqueue adds one handle.
LEMMA QueuedEnqueue ==
    ASSUME NEW q \in Seq(Coro \cup {Null}), NEW h \in Coro, h \notin Queued(q),
           NoDuplicates(q)
    PROVE  /\ Queued(Enqueue(q, h)) = Queued(q) \cup {h}
           /\ NoDuplicates(Enqueue(q, h))
<1> DEFINE e == Enqueue(q, h)
<1>1. /\ e \in Seq(Coro \cup {Null})
      /\ Len(e) = Len(q) + 1
      /\ Len(q) \in Nat
      /\ \A i \in 1 .. Len(q) : e[i] = q[i]
      /\ e[Len(q) + 1] = h
  BY DEF Enqueue
<1>2. h # Null
  BY CoroAssumption
<1> HIDE DEF e
<1>3. Queued(e) = Queued(q) \cup {h}
  BY <1>1, <1>2 DEF Queued
<1>4. ASSUME NEW i \in 1 .. Len(e), NEW j \in 1 .. Len(e), i # j, e[i] = e[j]
      PROVE  e[i] = Null
  <2>1. CASE i \in 1 .. Len(q) /\ j \in 1 .. Len(q)
    BY <1>1, <1>4, <2>1 DEF NoDuplicates
  <2>2. CASE i \in 1 .. Len(q) /\ j = Len(q) + 1
    BY <1>1, <1>2, <1>4, <2>2 DEF Queued
  <2>3. CASE j \in 1 .. Len(q) /\ i = Len(q) + 1
    BY <1>1, <1>2, <1>4, <2>3 DEF Queued
  <2> QED BY <1>1, <1>4, <2>1, <2>2, <2>3
<1>5. NoDuplicates(e)
  BY <1>4 DEF NoDuplicates
<1> QED BY <1>3, <1>5 DEF e

\* cancel removes its handles.
LEMMA QueuedCancel ==
    ASSUME NEW q \in Seq(Coro \cup {Null}), NEW H \in SUBSET Coro, NoDuplicates(q)
    PROVE  /\ Queued(CancelAll(q, H)) = Queued(q) \ H
           /\ NoDuplicates(CancelAll(q, H))
<1> DEFINE e == CancelAll(q, H)
<1>1. Len(e) = Len(q)
  BY CancelAllType
<1>2. \A i \in 1 .. Len(q) : e[i] = IF q[i] \in H THEN Null ELSE q[i]
  BY DEF CancelAll
<1> HIDE DEF e
<1>3. Queued(e) = Queued(q) \ H
  BY <1>1, <1>2 DEF Queued
<1>4. NoDuplicates(e)
  BY <1>1, <1>2 DEF NoDuplicates
<1> QED BY <1>3, <1>4 DEF e

\* Popping the next handle removes that handle: what is skipped is null, since
\* no coroutine that is done is ever queued.
LEMMA QueuedAfter ==
    ASSUME NEW q \in Seq(Coro \cup {Null}), NEW i \in 1 .. Len(q), NEW done,
           NoDuplicates(q), IsNext(q, i, done), Queued(q) \cap done = {}
    PROVE  /\ Queued(After(q, i)) = Queued(q) \ {q[i]}
           /\ NoDuplicates(After(q, i))
<1> DEFINE e == After(q, i)
<1>1. /\ Len(e) = Len(q) - i
      /\ Len(q) \in Nat
      /\ \A j \in 1 .. Len(q) - i : e[j] = q[i + j]
  BY DEF After
<1>2. \A j \in 1 .. i - 1 : q[j] = Null
  BY DEF IsNext, Queued
<1> HIDE DEF e
<1>3. Queued(e) \subseteq Queued(q) \ {q[i]}
  <2> SUFFICES ASSUME NEW j \in 1 .. Len(e), e[j] # Null
               PROVE  e[j] \in Queued(q) \ {q[i]}
    BY DEF Queued
  <2>1. e[j] = q[i + j] /\ i + j \in 1 .. Len(q) /\ i + j # i
    BY <1>1
  <2> QED BY <2>1 DEF Queued, NoDuplicates
<1>4. Queued(q) \ {q[i]} \subseteq Queued(e)
  <2> SUFFICES ASSUME NEW k \in 1 .. Len(q), q[k] # Null, q[k] # q[i]
               PROVE  q[k] \in Queued(e)
    BY DEF Queued
  <2>1. k > i
    BY <1>2
  <2>2. k - i \in 1 .. Len(e) /\ e[k - i] = q[k]
    BY <1>1, <2>1
  <2> QED BY <2>2 DEF Queued
<1>5. NoDuplicates(e)
  BY <1>1 DEF NoDuplicates
<1> QED BY <1>3, <1>4, <1>5 DEF e

\* Where getNextInner finds nothing, nothing is queued.
LEMMA QueuedNone ==
    ASSUME NEW q \in Seq(Coro \cup {Null}), NEW done, NoNext(q, done), Queued(q) \cap done = {}
    PROVE  Queued(q) = {}
BY DEF NoNext, Queued

LEMMA QueuedEmpty == Queued(<<>>) = {} /\ NoDuplicates(<<>>)
BY DEF Queued, NoDuplicates

----------------------------------------------------------------------------
(* The native stack as a set                                               *)

\* A call or a resumption puts one more coroutine on the stack.
LEMMA ListsPush ==
    ASSUME NEW s, NEW members, Lists(s, members), NEW c \in Coro, c \notin members
    PROVE  Lists(Append(s, c), members \cup {c})
<1> DEFINE t == Append(s, c)
<1>1. /\ t \in Seq(Coro)
      /\ Len(t) = Len(s) + 1
      /\ Len(s) \in Nat
      /\ \A i \in 1 .. Len(s) : t[i] = s[i]
      /\ t[Len(s) + 1] = c
  BY DEF Lists
<1> HIDE DEF t
<1>2. \A i \in 1 .. Len(s) : s[i] # c
  BY DEF Lists
<1>3. \A i, j \in 1 .. Len(t) : t[i] = t[j] => i = j
  BY <1>1, <1>2 DEF Lists
<1>4. ASSUME NEW x \in Coro
      PROVE  x \in members \cup {c} <=> \E i \in 1 .. Len(t) : t[i] = x
  BY <1>1 DEF Lists
<1>5. Lists(t, members \cup {c})
  BY <1>1, <1>3, <1>4 DEF Lists
<1> QED BY <1>5 DEF t

\* A suspension takes the coroutine that runs off the stack.
LEMMA ListsPop ==
    ASSUME NEW s, NEW members, Lists(s, members), s # <<>>
    PROVE  Lists(SubSeq(s, 1, Len(s) - 1), members \ {s[Len(s)]})
<1> DEFINE n == Len(s)
           m == n - 1
           t == SubSeq(s, 1, m)
<1>a. s \in Seq(Coro)
  BY DEF Lists
<1>b. n \in Nat /\ n > 0
  BY <1>a
<1>c. m \in Int /\ m >= 0 /\ \A i \in 1 .. m : s[i] \in Coro
  BY <1>a, <1>b
<1>d. t \in Seq(Coro) /\ Len(t) = m /\ \A i \in 1 .. m : t[i] = s[i]
  <2> HIDE DEF m
  <2>1. /\ t \in Seq(Coro)
        /\ Len(t) = IF 1 <= m THEN m - 1 + 1 ELSE 0
        /\ \A i \in 1 .. m - 1 + 1 : t[i] = s[1 + i - 1]
    BY <1>c, SubSeqProperties
  <2> HIDE DEF t
  <2> QED BY <1>c, <2>1
<1>1. /\ n \in Nat /\ n > 0
      /\ t \in Seq(Coro)
      /\ Len(t) = n - 1
      /\ \A i \in 1 .. n - 1 : t[i] = s[i]
  BY <1>b, <1>d
<1> HIDE DEF t
<1>2. \A i, j \in 1 .. Len(t) : t[i] = t[j] => i = j
  BY <1>1 DEF Lists
<1>3. ASSUME NEW x \in Coro
      PROVE  x \in members \ {s[n]} <=> \E i \in 1 .. Len(t) : t[i] = x
  <2>1. \A i \in 1 .. n : s[i] = s[n] => i = n
    BY <1>1 DEF Lists
  <2>2. x \in members <=> \E i \in 1 .. n : s[i] = x
    BY DEF Lists
  <2> QED BY <1>1, <2>1, <2>2
<1>4. Lists(t, members \ {s[n]})
  BY <1>1, <1>2, <1>3 DEF Lists
<1> QED BY <1>4 DEF t

\* The coroutine that runs is executing, and popping leaves the others.
LEMMA RunningFacts ==
    ASSUME StackInv, NEW r \in Coro, Running(r)
    PROVE  /\ frame[r] = "onstack"
           /\ Lists(Pop, Executing \ {r})
<1>1. stack # <<>> /\ r = stack[Len(stack)] /\ stack \in Seq(Coro)
  BY DEF StackInv, Lists, Running
<1>2. Lists(Pop, Executing \ {r})
  BY <1>1, ListsPop DEF StackInv, Pop
<1>3. Len(stack) \in 1 .. Len(stack)
  BY <1>1
<1>4. r \in Executing
  BY <1>1, <1>3 DEF StackInv, Lists
<1> QED BY <1>2, <1>4 DEF Executing

----------------------------------------------------------------------------
(* The initial state                                                       *)

LEMMA WakeInit == Init => WakeInv
<1> SUFFICES ASSUME Init PROVE WakeInv
  OBVIOUS
<1>1. TypeOK
  BY TypeInit
<1>2. LoopInv
  BY DEF Init, LoopInv
<1>3. StackInv
  BY CoroAssumption DEF Init, StackInv, Lists, Executing
<1>4. CoreInv /\ ForestInv
  BY CoroAssumption DEF Init, CoreInv, ForestInv, Live
<1>5. QueueInv
  BY QueuedEmpty DEF Init, QueueInv
<1>6. AwaitInv /\ WaiterInv
  BY DEF Init, AwaitInv, WaiterInv
<1> QED BY <1>1, <1>2, <1>3, <1>4, <1>5, <1>6 DEF WakeInv

----------------------------------------------------------------------------
(* Steps that leave the run queue alone                                    *)

\* Calling a coroutine.
LEMMA WakeCall ==
    ASSUME Disciplined, WakeInv, NEW r \in Coro, NEW c \in Coro,
           NEW moved \in SUBSET Coro, NEW lent \in Lendable, Call(r, c, moved, lent)
    PROVE  StackInv' /\ CoreInv' /\ ForestInv' /\ QueueInv' /\ AwaitInv' /\ WaiterInv'
<1> USE DEF coreVars, loopVars
<1>1. frame[r] = "onstack" /\ frame[c] = "unborn" /\ r # c
  BY RunningFacts DEF Call, WakeInv
<1>2. /\ frame' = [frame EXCEPT ![c] = "onstack"]
      /\ frame \in [Coro -> {"unborn", "onstack", "suspended", "final", "destroyed"}]
      /\ owner' = [p \in Coro |-> IF p = c THEN r ELSE IF p \in moved THEN c ELSE owner[p]]
      /\ \A p \in moved : owner[p] = r /\ Live(p)
      /\ UNCHANGED <<state, waiting, slot, awaits, pending, resumable>>
  BY DEF Call, Held, WakeInv, TypeOK
<1>3. StackInv'
  <2>1. Executing' = Executing \cup {c}
    BY <1>2 DEF Executing
  <2>2. c \notin Executing
    BY <1>1 DEF Executing
  <2> QED BY <2>1, <2>2, ListsPush DEF StackInv, Call, WakeInv
<1>4. lent = {}
  BY DEF Lendable, Disciplined
<1>5. CoreInv'
  BY <1>1, <1>2, <1>4 DEF CoreInv, Live, Call, WakeInv, TypeOK
<1>6. ForestInv'
  <2>1. owner'[Main] = "runMain"
    BY <1>1, <1>2, CoroAssumption, NameAssumption DEF ForestInv, WakeInv, Live, CoreInv
  <2> QED BY <1>1, <1>2, <2>1 DEF ForestInv, Live, WakeInv
<1>7. QueueInv'
  BY <1>1, <1>2 DEF QueueInv, WakeInv
<1>8. AwaitInv'
  BY <1>1, <1>2 DEF AwaitInv, Awaited, Live, WakeInv
<1>9. WaiterInv'
  BY <1>1, <1>2 DEF WaiterInv, CoreInv, Live, WakeInv
<1> QED BY <1>3, <1>5, <1>6, <1>7, <1>8, <1>9

\* co_await of a promise that is ready.
LEMMA WakeAwaitReady ==
    ASSUME Disciplined, WakeInv, NEW r \in Coro, NEW p \in Coro, AwaitReady(r, p)
    PROVE  StackInv' /\ CoreInv' /\ ForestInv' /\ QueueInv' /\ AwaitInv' /\ WaiterInv'
<1>1. frame[r] = "onstack" /\ owner[p] = r
  BY RunningFacts DEF AwaitReady, MayAwait, WakeInv, CoreInv
<1>2. UNCHANGED <<frame, owner, params, refs, state, waiting, awaits, pending, resumable, stack>>
  BY DEF AwaitReady, frameVars
<1>3. \A q \in Coro \ {p} : slot'[q] = slot[q]
  BY DEF AwaitReady, Taken, WakeInv, TypeOK
<1>4. StackInv' /\ CoreInv' /\ ForestInv' /\ QueueInv' /\ WaiterInv'
  BY <1>2 DEF WakeInv, StackInv, Executing, CoreInv, ForestInv, QueueInv, WaiterInv, Live
<1>5. AwaitInv'
  BY <1>1, <1>2, <1>3 DEF WakeInv, AwaitInv, Awaited, Live
<1> QED BY <1>4, <1>5

\* Starting an I/O operation and waiting for it.
LEMMA WakeAwaitIo ==
    ASSUME Disciplined, WakeInv, NEW r \in Coro, AwaitIo(r)
    PROVE  StackInv' /\ CoreInv' /\ ForestInv' /\ QueueInv' /\ AwaitInv' /\ WaiterInv'
<1>1. frame[r] = "onstack" /\ Lists(Pop, Executing \ {r})
  BY RunningFacts DEF AwaitIo, WakeInv
<1>2. /\ frame' = [frame EXCEPT ![r] = "suspended"]
      /\ frame \in [Coro -> {"unborn", "onstack", "suspended", "final", "destroyed"}]
      /\ awaits' = [awaits EXCEPT ![r] = "io"]
      /\ awaits \in [Coro -> Coro \cup {"yield", "io", Null}]
      /\ pending' = pending \cup {r}
      /\ UNCHANGED <<owner, params, refs, state, waiting, slot, resumable>>
  BY DEF AwaitIo, coreVars, WakeInv, TypeOK
<1>3. StackInv'
  <2>1. Executing' = Executing \ {r}
    BY <1>2 DEF Executing
  <2> QED BY <1>1, <2>1 DEF StackInv, AwaitIo
<1>4. CoreInv' /\ ForestInv'
  BY <1>1, <1>2 DEF WakeInv, CoreInv, ForestInv, Live
<1>5. QueueInv'
  BY <1>1, <1>2 DEF WakeInv, QueueInv
<1>6. AwaitInv'
  BY <1>1, <1>2 DEF WakeInv, AwaitInv, Awaited, Live
<1>7. WaiterInv'
  BY <1>1, <1>2 DEF WakeInv, WaiterInv, Live
<1> QED BY <1>3, <1>4, <1>5, <1>6, <1>7

----------------------------------------------------------------------------
(* Steps that add to the run queue or take from it                         *)

\* yield(): the coroutine goes to the end of the queue.
LEMMA WakeYield ==
    ASSUME Disciplined, WakeInv, NEW r \in Coro, Yield(r)
    PROVE  StackInv' /\ CoreInv' /\ ForestInv' /\ QueueInv' /\ AwaitInv' /\ WaiterInv'
<1>1. frame[r] = "onstack" /\ Lists(Pop, Executing \ {r})
  BY RunningFacts DEF Yield, WakeInv
<1>2. /\ frame' = [frame EXCEPT ![r] = "suspended"]
      /\ frame \in [Coro -> {"unborn", "onstack", "suspended", "final", "destroyed"}]
      /\ awaits' = [awaits EXCEPT ![r] = "yield"]
      /\ awaits \in [Coro -> Coro \cup {"yield", "io", Null}]
      /\ resumable' = Enqueue(resumable, r)
      /\ resumable \in Seq(Coro \cup {Null})
      /\ UNCHANGED <<owner, params, refs, state, waiting, slot, pending>>
  BY DEF Yield, LoopEnqueue, coreVars, WakeInv, TypeOK
<1>3. Queued(resumable') = Queued(resumable) \cup {r} /\ NoDuplicates(resumable')
  <2>1. r \notin Queued(resumable) /\ NoDuplicates(resumable)
    BY <1>1 DEF WakeInv, QueueInv
  <2> QED BY <1>2, <2>1, QueuedEnqueue
<1>4. StackInv'
  <2>1. Executing' = Executing \ {r}
    BY <1>2 DEF Executing
  <2> QED BY <1>1, <2>1 DEF StackInv, Yield
<1>5. CoreInv' /\ ForestInv'
  BY <1>1, <1>2 DEF WakeInv, CoreInv, ForestInv, Live
<1>6. QueueInv'
  BY <1>1, <1>2, <1>3 DEF WakeInv, QueueInv
<1>7. AwaitInv'
  BY <1>1, <1>2, <1>3 DEF WakeInv, AwaitInv, Awaited, Live
<1>8. WaiterInv'
  BY <1>1, <1>2, <1>3 DEF WakeInv, WaiterInv, Live
<1> QED BY <1>4, <1>5, <1>6, <1>7, <1>8

\* A completed operation: its coroutine goes to the end of the queue.
LEMMA WakeCallback ==
    ASSUME WakeInv, NEW c \in Coro, Callback(c)
    PROVE  StackInv' /\ CoreInv' /\ ForestInv' /\ QueueInv' /\ AwaitInv' /\ WaiterInv'
<1>1. /\ pending' = pending \ {c}
      /\ c \in pending
      /\ resumable' = Enqueue(resumable, c)
      /\ resumable \in Seq(Coro \cup {Null})
      /\ UNCHANGED <<frame, owner, params, refs, state, waiting, slot, awaits, stack>>
  BY DEF Callback, LoopEnqueue, frameVars, coreVars, WakeInv, TypeOK
<1>2. c \notin Queued(resumable) /\ NoDuplicates(resumable) /\ awaits[c] = "io"
  BY <1>1 DEF WakeInv, QueueInv
<1>3. Queued(resumable') = Queued(resumable) \cup {c} /\ NoDuplicates(resumable')
  BY <1>1, <1>2, QueuedEnqueue
<1>4. StackInv' /\ CoreInv' /\ ForestInv'
  BY <1>1 DEF WakeInv, StackInv, Executing, CoreInv, ForestInv, Live
<1>5. QueueInv'
  BY <1>1, <1>3 DEF WakeInv, QueueInv
<1>6. AwaitInv'
  BY <1>1, <1>2, <1>3, NameAssumption DEF WakeInv, AwaitInv, Awaited, Live
<1>7. WaiterInv'
  BY <1>1, <1>2, <1>3, NameAssumption DEF WakeInv, WaiterInv, Live
<1> QED BY <1>4, <1>5, <1>6, <1>7

\* What taking the next coroutine from the queue means.
LEMMA ResumeFacts ==
    ASSUME WakeInv, NEW i \in 1 .. Len(resumable), NEW c \in Coro, NEW below,
           ResumeAt(i, c, below)
    PROVE  /\ c \in Queued(resumable)
           /\ frame[c] = "suspended"
           /\ Queued(resumable') = Queued(resumable) \ {c}
           /\ NoDuplicates(resumable')
           /\ stack' = Append(below, c)
           /\ \A q \in Coro : q # awaits[c] => slot'[q] = slot[q]
<1>1. /\ resumable \in Seq(Coro \cup {Null})
      /\ NoDuplicates(resumable)
      /\ IsNext(resumable, i, Done)
      /\ c = resumable[i]
      /\ resumable' = After(resumable, i)
  BY DEF WakeInv, TypeOK, QueueInv, ResumeAt
<1>2. c \in Queued(resumable)
  BY <1>1, CoroAssumption DEF Queued
<1>3. frame[c] = "suspended"
  BY <1>2 DEF WakeInv, QueueInv
<1>4. Queued(resumable) \cap Done = {}
  BY DEF WakeInv, QueueInv, Done
<1>5. Queued(resumable') = Queued(resumable) \ {c} /\ NoDuplicates(resumable')
  BY <1>1, <1>4, QueuedAfter
<1>6. \A q \in Coro : q # awaits[c] => slot'[q] = slot[q]
  BY DEF ResumeAt, Taken, WakeInv, TypeOK
<1> QED BY <1>2, <1>3, <1>5, <1>6 DEF ResumeAt

\* runAll resumes the next coroutine.
LEMMA WakeRunNext ==
    ASSUME WakeInv, NEW i \in 1 .. Len(resumable), NEW c \in Coro, RunNext(i, c)
    PROVE  StackInv' /\ CoreInv' /\ ForestInv' /\ QueueInv' /\ AwaitInv' /\ WaiterInv'
<1>1. /\ c \in Queued(resumable)
      /\ frame[c] = "suspended"
      /\ Queued(resumable') = Queued(resumable) \ {c}
      /\ NoDuplicates(resumable')
      /\ stack' = Append(<<>>, c)
      /\ \A q \in Coro : q # awaits[c] => slot'[q] = slot[q]
  BY ResumeFacts DEF RunNext
<1>2. /\ frame' = [frame EXCEPT ![c] = "onstack"]
      /\ frame \in [Coro -> {"unborn", "onstack", "suspended", "final", "destroyed"}]
      /\ awaits' = [awaits EXCEPT ![c] = Null]
      /\ awaits \in [Coro -> Coro \cup {"yield", "io", Null}]
      /\ stack = <<>>
      /\ UNCHANGED <<owner, params, refs, state, waiting, pending>>
  BY DEF RunNext, WakeInv, TypeOK
<1>3. StackInv'
  <2>1. Executing' = Executing \cup {c} /\ c \notin Executing
    BY <1>1, <1>2 DEF Executing
  <2> QED BY <1>1, <1>2, <2>1, ListsPush DEF StackInv, WakeInv
<1>4. CoreInv' /\ ForestInv'
  BY <1>1, <1>2 DEF WakeInv, CoreInv, ForestInv, Live
<1>5. QueueInv'
  BY <1>1, <1>2 DEF WakeInv, QueueInv
<1>6. AwaitInv'
  BY <1>1, <1>2 DEF WakeInv, AwaitInv, Awaited, Live
<1>7. WaiterInv'
  BY <1>1, <1>2 DEF WakeInv, WaiterInv, Live
<1> QED BY <1>3, <1>4, <1>5, <1>6, <1>7

\* co_await of an unfinished promise, handing off to the next coroutine.
LEMMA WakeAwaitHandOff ==
    ASSUME Disciplined, WakeInv, NEW r \in Coro, NEW p \in Coro, NEW c \in Coro,
           NEW i \in 1 .. Len(resumable), AwaitHandOff(r, p, i, c)
    PROVE  StackInv' /\ CoreInv' /\ ForestInv' /\ QueueInv' /\ AwaitInv' /\ WaiterInv'
<1>1. frame[r] = "onstack" /\ Lists(Pop, Executing \ {r})
  BY RunningFacts DEF AwaitHandOff, WakeInv
<1>2. /\ c \in Queued(resumable)
      /\ frame[c] = "suspended"
      /\ Queued(resumable') = Queued(resumable) \ {c}
      /\ NoDuplicates(resumable')
      /\ stack' = Append(Pop, c)
      /\ \A q \in Coro : q # awaits[c] => slot'[q] = slot[q]
  BY ResumeFacts DEF AwaitHandOff
<1>3. /\ frame' = [frame EXCEPT ![r] = "suspended", ![c] = "onstack"]
      /\ frame \in [Coro -> {"unborn", "onstack", "suspended", "final", "destroyed"}]
      /\ awaits' = [awaits EXCEPT ![r] = p, ![c] = Null]
      /\ awaits \in [Coro -> Coro \cup {"yield", "io", Null}]
      /\ waiting' = [waiting EXCEPT ![p] = r]
      /\ waiting \in [Coro -> Coro \cup {Null}]
      /\ state' = [state EXCEPT ![p] = "waitedOn"]
      /\ state \in [Coro -> {"init", "waitedOn", "finished"}]
      /\ state[p] = "init"
      /\ UNCHANGED <<owner, params, refs, pending>>
  BY DEF AwaitHandOff, WakeInv, TypeOK
<1>4. Live(p) /\ owner[p] = r /\ waiting[p] = Null /\ r # Null
  BY CoroAssumption DEF AwaitHandOff, MayAwait, WakeInv, CoreInv
<1>5. /\ r # c
      /\ frame'[r] = "suspended" /\ awaits'[r] = p
      /\ frame'[c] = "onstack" /\ awaits'[c] = Null
      /\ \A d \in Coro \ {r, c} : frame'[d] = frame[d] /\ awaits'[d] = awaits[d]
  BY <1>1, <1>2, <1>3
<1>6. /\ waiting'[p] = r /\ state'[p] = "waitedOn"
      /\ \A q \in Coro \ {p} : waiting'[q] = waiting[q] /\ state'[q] = state[q]
      /\ UNCHANGED <<owner, params, refs, pending>>
  BY <1>3
<1>7. StackInv'
  <2>1. Executing' = (Executing \ {r}) \cup {c} /\ c \notin Executing \ {r}
    BY <1>1, <1>2, <1>3 DEF Executing
  <2> QED BY <1>1, <1>2, <2>1, ListsPush DEF StackInv
<1>8. CoreInv'
  <2> SUFFICES ASSUME NEW d \in Coro
               PROVE  /\ frame'[d] = "unborn" => state'[d] = "init" /\ waiting'[d] = Null
                      /\ refs'[d] = {}
                      /\ Live(d)' => (frame'[d] = "final" <=> state'[d] = "finished")
                      /\ Live(d)' /\ state'[d] = "init" => waiting'[d] = Null
    BY DEF CoreInv
  <2>1. Live(d)' <=> Live(d)
    BY <1>1, <1>2, <1>5 DEF Live
  <2>2. frame'[d] = "final" <=> frame[d] = "final"
    BY <1>1, <1>2, <1>5
  <2>3. frame'[d] = "unborn" <=> frame[d] = "unborn"
    BY <1>1, <1>2, <1>5
  <2>4. /\ frame[d] = "unborn" => state[d] = "init" /\ waiting[d] = Null
        /\ refs[d] = {}
        /\ Live(d) => (frame[d] = "final" <=> state[d] = "finished")
        /\ Live(d) /\ state[d] = "init" => waiting[d] = Null
    BY DEF WakeInv, CoreInv
  <2>5. state[p] = "init" /\ Live(p) /\ frame[p] # "unborn"
    BY <1>3, <1>4 DEF Live
  <2> QED BY <1>6, <2>1, <2>2, <2>3, <2>4, <2>5
<1>9. ForestInv'
  BY <1>1, <1>2, <1>5, <1>6, CoroAssumption DEF WakeInv, ForestInv, Live
<1>10. QueueInv'
  <2>1. c \notin pending /\ pending \subseteq Coro /\ Queued(resumable) \subseteq Coro
    BY <1>2 DEF WakeInv, QueueInv, Queued, TypeOK
  <2>2. r \notin pending \cup Queued(resumable)
    BY <1>1 DEF WakeInv, QueueInv
  <2> QED BY <1>2, <1>5, <1>6, <2>1, <2>2 DEF WakeInv, QueueInv
<1>11. AwaitInv'
  <2> SUFFICES ASSUME NEW d \in Coro, frame'[d] = "suspended"
               PROVE  Awaited(d)'
    BY DEF AwaitInv
  <2>1. r \notin Queued(resumable)
    BY <1>1 DEF WakeInv, QueueInv
  <2>2. CASE d = r
    BY <1>1, <1>2, <1>4, <1>5, <1>6, <2>1, <2>2 DEF Awaited, Live
  <2>3. CASE d # r
    <3>1. d # c /\ frame[d] = "suspended" /\ awaits'[d] = awaits[d] /\ Awaited(d)
      BY <1>5, <2>3 DEF WakeInv, AwaitInv
    <3>2. d \in Queued(resumable') <=> d \in Queued(resumable)
      BY <1>2, <3>1
    <3>3. CASE awaits[d] \notin Coro
      BY <1>6, <3>1, <3>2, <3>3 DEF Awaited
    <3>4. CASE awaits[d] \in Coro
      <4>1. Live(awaits[d]) /\ owner[awaits[d]] = d /\ awaits[d] # p
        BY <1>4, <2>3, <3>1, <3>4, NameAssumption DEF Awaited
      <4>2. awaits[d] # awaits[c]
        <5>1. Awaited(c)
          BY <1>2 DEF WakeInv, AwaitInv
        <5> QED BY <3>1, <3>4, <4>1, <5>1, NameAssumption DEF Awaited
      <4>3. Live(awaits[d])'
        BY <1>5, <3>1, <3>4, <4>1 DEF Live
      <4> QED BY <1>2, <1>6, <3>1, <3>2, <3>4, <4>1, <4>2, <4>3, NameAssumption DEF Awaited
    <3> QED BY <3>3, <3>4
  <2> QED BY <2>2, <2>3
<1>12. WaiterInv'
  <2> SUFFICES ASSUME NEW q \in Coro, Live(q)', waiting'[q] # Null
               PROVE  /\ state'[q] = "waitedOn"
                      /\ frame'[waiting'[q]] = "suspended"
                      /\ awaits'[waiting'[q]] = q
                      /\ waiting'[q] \notin Queued(resumable')
    BY DEF WaiterInv
  <2>1. r \notin Queued(resumable)
    BY <1>1 DEF WakeInv, QueueInv
  <2>2. CASE q = p
    BY <1>2, <1>5, <1>6, <2>1, <2>2
  <2>3. CASE q # p
    <3>1. Live(q)
      BY <1>1, <1>2, <1>5 DEF Live
    <3>2. waiting'[q] = waiting[q] /\ waiting[q] \in Coro
      BY <1>6, <2>3 DEF WakeInv, TypeOK
    <3>3. /\ state[q] = "waitedOn"
          /\ frame[waiting[q]] = "suspended"
          /\ awaits[waiting[q]] = q
          /\ waiting[q] \notin Queued(resumable)
      BY <3>1, <3>2 DEF WakeInv, WaiterInv
    <3>4. waiting[q] \notin {r, c}
      BY <1>1, <1>2, <3>3
    <3> QED BY <1>2, <1>5, <1>6, <2>3, <3>2, <3>3, <3>4
  <2> QED BY <2>2, <2>3
<1> QED BY <1>7, <1>8, <1>9, <1>10, <1>11, <1>12

\* co_await of an unfinished promise, returning to the resumer.
LEMMA WakeAwaitReturn ==
    ASSUME Disciplined, WakeInv, NEW r \in Coro, NEW p \in Coro, AwaitReturn(r, p)
    PROVE  StackInv' /\ CoreInv' /\ ForestInv' /\ QueueInv' /\ AwaitInv' /\ WaiterInv'
<1>1. frame[r] = "onstack" /\ Lists(Pop, Executing \ {r})
  BY RunningFacts DEF AwaitReturn, WakeInv
<1>2. Queued(resumable') = Queued(resumable) /\ NoDuplicates(resumable')
  <2>1. CASE useSymmetricHandoff
    <3>1. Queued(resumable) \cap Done = {} /\ resumable \in Seq(Coro \cup {Null})
      BY DEF WakeInv, QueueInv, Done, TypeOK
    <3>2. Queued(resumable) = {}
      BY <2>1, <3>1, QueuedNone DEF AwaitReturn
    <3> QED BY <2>1, <3>2, QueuedEmpty DEF AwaitReturn
  <2>2. CASE ~useSymmetricHandoff
    BY <2>2 DEF AwaitReturn, WakeInv, QueueInv
  <2> QED BY <2>1, <2>2
<1>3. /\ frame' = [frame EXCEPT ![r] = "suspended"]
      /\ frame \in [Coro -> {"unborn", "onstack", "suspended", "final", "destroyed"}]
      /\ awaits' = [awaits EXCEPT ![r] = p]
      /\ awaits \in [Coro -> Coro \cup {"yield", "io", Null}]
      /\ waiting' = [waiting EXCEPT ![p] = r]
      /\ waiting \in [Coro -> Coro \cup {Null}]
      /\ state' = [state EXCEPT ![p] = "waitedOn"]
      /\ state \in [Coro -> {"init", "waitedOn", "finished"}]
      /\ state[p] = "init"
      /\ UNCHANGED <<owner, params, refs, slot, pending>>
  BY DEF AwaitReturn, WakeInv, TypeOK
<1>4. Live(p) /\ owner[p] = r /\ waiting[p] = Null /\ r # Null
  BY CoroAssumption DEF AwaitReturn, MayAwait, WakeInv, CoreInv
<1>5. StackInv'
  <2>1. Executing' = Executing \ {r}
    BY <1>1, <1>3 DEF Executing
  <2> QED BY <1>1, <2>1 DEF StackInv, AwaitReturn
<1>6. CoreInv' /\ ForestInv'
  BY <1>1, <1>3, <1>4 DEF WakeInv, CoreInv, ForestInv, Live
<1>7. QueueInv'
  BY <1>1, <1>2, <1>3 DEF WakeInv, QueueInv
<1>8. AwaitInv'
  BY <1>1, <1>2, <1>3, <1>4 DEF WakeInv, AwaitInv, Awaited, QueueInv, Live
<1>9. WaiterInv'
  BY <1>1, <1>2, <1>3, <1>4 DEF WakeInv, WaiterInv, QueueInv, Live
<1> QED BY <1>5, <1>6, <1>7, <1>8, <1>9

----------------------------------------------------------------------------
(* Steps that destroy frames                                               *)

\* A coroutine and the promise it waits for are destroyed together, because
\* the promise is held in the coroutine's frame; and whatever is destroyed
\* while queued is cancelled.
LEMMA DestroyFacts ==
    ASSUME WakeInv, NEW D \in SUBSET Coro, NEW roots, IsForest(D, roots),
           \A p \in roots : owner[p] \in Coro => frame[owner[p]] # "suspended"
    PROVE  /\ \A p \in Coro : Live(p) /\ p \notin D /\ waiting[p] # Null => waiting[p] \notin D
           /\ \A c \in Coro : frame[c] = "suspended" /\ c \notin D => awaits[c] \notin D
           /\ Queued(resumable) \cap D \subseteq Cancelled(D)
           /\ \A c \in Coro : Live(c) /\ c \notin D => owner[c] \notin D
<1>1. \A c \in Coro : Live(c) /\ c \notin D => owner[c] \notin D
  BY DEF IsForest
<1>2. ASSUME NEW p \in Coro, Live(p), p \notin D, waiting[p] # Null
      PROVE  waiting[p] \notin D
  <2>1. waiting[p] \in Coro /\ frame[waiting[p]] = "suspended" /\ awaits[waiting[p]] = p
    BY <1>2 DEF WakeInv, WaiterInv, TypeOK
  <2>2. owner[p] = waiting[p]
    BY <2>1, NameAssumption DEF WakeInv, AwaitInv, Awaited
  <2> QED BY <1>1, <1>2, <2>2
<1>3. ASSUME NEW c \in Coro, frame[c] = "suspended", c \notin D, awaits[c] \in D
      PROVE  FALSE
  <2>1. Live(awaits[c]) /\ owner[awaits[c]] = c
    BY <1>3, NameAssumption DEF WakeInv, AwaitInv, Awaited
  <2> QED BY <1>3, <2>1 DEF IsForest
<1>4. ASSUME NEW c \in Queued(resumable), c \in D
      PROVE  c \in Cancelled(D)
  <2>1. frame[c] = "suspended"
    BY DEF WakeInv, QueueInv
  <2> QED BY <1>4, <2>1 DEF WakeInv, CoreInv, Live, Cancelled
<1> QED BY <1>1, <1>2, <1>3, <1>4

\* ~Promise: a tree of frames goes, and its wake-ups with it.  Shared by a
\* drop and by the end of runMain.
LEMMA WakeDestroy ==
    ASSUME WakeInv, NEW D \in SUBSET Coro, NEW roots, IsForest(D, roots),
           \A p \in roots : owner[p] \in Coro => frame[owner[p]] # "suspended",
           \A d \in D : frame[d] # "onstack",
           resumable' = CancelAll(resumable, Cancelled(D)),
           pending' = pending \ D,
           frame' = Destroyed(D),
           UNCHANGED <<owner, params, refs, state, waiting, slot, awaits, stack>>
    PROVE  StackInv' /\ CoreInv' /\ ForestInv' /\ QueueInv' /\ AwaitInv' /\ WaiterInv'
<1>1. /\ \A p \in Coro : Live(p) /\ p \notin D /\ waiting[p] # Null => waiting[p] \notin D
      /\ \A c \in Coro : frame[c] = "suspended" /\ c \notin D => awaits[c] \notin D
      /\ Queued(resumable) \cap D \subseteq Cancelled(D)
      /\ \A c \in Coro : Live(c) /\ c \notin D => owner[c] \notin D
  BY DestroyFacts
<1>2. /\ Queued(resumable') = Queued(resumable) \ Cancelled(D)
      /\ NoDuplicates(resumable')
  <2>1. Cancelled(D) \in SUBSET Coro
    BY DEF Cancelled
  <2>2. resumable \in Seq(Coro \cup {Null}) /\ NoDuplicates(resumable)
    BY DEF WakeInv, TypeOK, QueueInv
  <2> QED BY <2>1, <2>2, QueuedCancel
<1>3. Queued(resumable') = Queued(resumable) \ D
  BY <1>1, <1>2 DEF Cancelled
<1>4. \A c \in Coro : frame'[c] = IF c \in D THEN "destroyed" ELSE frame[c]
  BY DEF Destroyed
<1>5. \A c \in Coro : Live(c)' <=> Live(c) /\ c \notin D
  BY <1>4 DEF Live
<1>6. StackInv'
  <2>1. Executing' = Executing
    BY <1>4 DEF Executing
  <2> QED BY <2>1 DEF WakeInv, StackInv
<1>7. CoreInv'
  BY <1>4, <1>5 DEF WakeInv, CoreInv
<1>8. ForestInv'
  BY <1>1, <1>4, <1>5, CoroAssumption DEF WakeInv, ForestInv
<1>9. QueueInv'
  <2>1. pending \subseteq Coro /\ Queued(resumable) \subseteq Coro
    BY DEF WakeInv, TypeOK, Queued
  <2> QED BY <1>2, <1>3, <1>4, <2>1 DEF WakeInv, QueueInv
<1>10. AwaitInv'
  BY <1>1, <1>3, <1>4, <1>5 DEF WakeInv, AwaitInv, Awaited
<1>11. WaiterInv'
  <2>1. waiting \in [Coro -> Coro \cup {Null}]
    BY DEF WakeInv, TypeOK
  <2> QED BY <1>1, <1>3, <1>4, <1>5, <2>1 DEF WakeInv, WaiterInv
<1> QED BY <1>6, <1>7, <1>8, <1>9, <1>10, <1>11

\* Dropping a promise.
LEMMA WakeDrop ==
    ASSUME Disciplined, WakeInv, NEW r \in Coro, NEW p \in Coro,
           NEW D \in SUBSET Coro, Drop(r, p, D)
    PROVE  StackInv' /\ CoreInv' /\ ForestInv' /\ QueueInv' /\ AwaitInv' /\ WaiterInv'
<1>1. frame[r] = "onstack" /\ owner[p] = r
  BY RunningFacts DEF Drop, WakeInv
<1>2. \A q \in {p} : owner[q] \in Coro => frame[owner[q]] # "suspended"
  BY <1>1
<1>3. \A d \in D : frame[d] # "onstack"
  BY DEF Drop, MayDestroy, Disciplined
<1> QED BY <1>2, <1>3, WakeDestroy DEF Drop, coreVars

\* The end of runMain: main's promise is destroyed when the loop has ended.
LEMMA WakeRunMainReturns ==
    ASSUME WakeInv, NEW D \in SUBSET Coro, RunMainReturns(D)
    PROVE  StackInv' /\ CoreInv' /\ ForestInv' /\ QueueInv' /\ AwaitInv' /\ WaiterInv'
<1>1. owner[Main] \notin Coro
  BY NameAssumption DEF WakeInv, ForestInv
<1>2. \A q \in {Main} : owner[q] \in Coro => frame[owner[q]] # "suspended"
  BY <1>1
<1>3. stack = <<>>
  BY DEF RunMainReturns, WakeInv, LoopInv
<1>4. \A d \in D : frame[d] # "onstack"
  BY <1>3 DEF WakeInv, StackInv, Lists, Executing
<1> QED BY <1>2, <1>4, WakeDestroy DEF RunMainReturns, coreVars

\* The end of a coroutine: its waiter, if any, is queued, its locals go.
LEMMA WakeReturn ==
    ASSUME Disciplined, WakeInv, NEW r \in Coro, NEW result \in {"value", "exc"},
           NEW D \in SUBSET Coro, Return(r, result, D)
    PROVE  StackInv' /\ CoreInv' /\ ForestInv' /\ QueueInv' /\ AwaitInv' /\ WaiterInv'
<1> DEFINE w == waiting[r]
<1>1. frame[r] = "onstack" /\ Lists(Pop, Executing \ {r}) /\ Live(r) /\ state[r] # "finished"
  BY RunningFacts DEF Return, WakeInv, CoreInv, Live
<1>2. r \notin D /\ \A d \in D : frame[d] # "onstack"
  BY <1>1 DEF Return, MayDestroy, Disciplined
<1>3. /\ \A p \in Coro : Live(p) /\ p \notin D /\ waiting[p] # Null => waiting[p] \notin D
      /\ \A c \in Coro : frame[c] = "suspended" /\ c \notin D => awaits[c] \notin D
      /\ Queued(resumable) \cap D \subseteq Cancelled(D)
      /\ \A c \in Coro : Live(c) /\ c \notin D => owner[c] \notin D
  <2>1. \A p \in Held(r) \ params : owner[p] \in Coro => frame[owner[p]] # "suspended"
    BY <1>1 DEF Held
  <2> QED BY <2>1, DestroyFacts DEF Return
<1>4. /\ waiting' = [waiting EXCEPT ![r] = Null]
      /\ waiting \in [Coro -> Coro \cup {Null}]
      /\ state' = [state EXCEPT ![r] = "finished"]
      /\ state \in [Coro -> {"init", "waitedOn", "finished"}]
      /\ slot' = [slot EXCEPT ![r] = result]
      /\ slot \in [Coro -> {"none", "value", "exc"}]
      /\ pending' = pending \ D
      /\ UNCHANGED <<owner, params, refs, awaits>>
  BY DEF Return, Stored, Cleared, WakeInv, TypeOK
<1>5. \A c \in Coro : frame'[c] = IF c \in D THEN "destroyed"
                                ELSE IF c = r THEN "final" ELSE frame[c]
  BY <1>2 DEF Return, Destroyed, WakeInv, TypeOK
<1>6. \A c \in Coro : Live(c)' <=> Live(c) /\ c \notin D
  BY <1>1, <1>5 DEF Live
<1>7. w # Null => /\ w \in Coro \ (D \cup {r})
                  /\ w \notin Queued(resumable)
                  /\ frame[w] = "suspended"
                  /\ awaits[w] = r
                  /\ owner[r] = w
  <2>1. w # Null => /\ w \in Coro
                    /\ w \notin Queued(resumable)
                    /\ frame[w] = "suspended"
                    /\ awaits[w] = r
    BY <1>1, <1>4 DEF WakeInv, WaiterInv
  <2>2. w # Null => owner[r] = w
    BY <2>1, NameAssumption DEF WakeInv, AwaitInv, Awaited
  <2> QED BY <1>1, <1>2, <1>3, <2>1, <2>2
<1>8. /\ Queued(Woken(r)) = Queued(resumable) \cup ({w} \ {Null})
      /\ NoDuplicates(Woken(r))
      /\ Woken(r) \in Seq(Coro \cup {Null})
  <2>1. resumable \in Seq(Coro \cup {Null}) /\ NoDuplicates(resumable)
    BY DEF WakeInv, TypeOK, QueueInv
  <2>2. CASE w = Null
    BY <2>1, <2>2 DEF Woken
  <2>3. CASE w # Null
    <3>1. Woken(r) = Enqueue(resumable, w)
      BY <2>3 DEF Woken
    <3>2. Enqueue(resumable, w) \in Seq(Coro \cup {Null})
      BY <1>7, <2>1, <2>3 DEF Enqueue
    <3> QED BY <1>7, <2>1, <2>3, <3>1, <3>2, QueuedEnqueue
  <2> QED BY <2>2, <2>3
<1> HIDE DEF w
<1>9. /\ Queued(resumable') = (Queued(resumable) \ D) \cup ({w} \ {Null})
      /\ NoDuplicates(resumable')
  <2>1. Cancelled(D) \in SUBSET Coro /\ Cancelled(D) \subseteq D
    BY DEF Cancelled
  <2>2. /\ Queued(resumable') = Queued(Woken(r)) \ Cancelled(D)
        /\ NoDuplicates(resumable')
    BY <1>8, <2>1, QueuedCancel DEF Return
  <2> QED BY <1>3, <1>7, <1>8, <2>1, <2>2
<1>10. StackInv'
  <2>1. Executing' = Executing \ {r}
    BY <1>2, <1>5 DEF Executing
  <2> QED BY <1>1, <2>1 DEF StackInv, Return
<1>11. CoreInv'
  BY <1>1, <1>2, <1>4, <1>5, <1>6 DEF WakeInv, CoreInv
<1>12. ForestInv'
  BY <1>3, <1>4, <1>5, <1>6, CoroAssumption DEF WakeInv, ForestInv
<1>13. QueueInv'
  <2>1. pending \subseteq Coro /\ Queued(resumable) \subseteq Coro
    BY DEF WakeInv, TypeOK, Queued
  <2>2. r \notin pending \cup Queued(resumable)
    BY <1>1 DEF WakeInv, QueueInv
  <2>3. w # Null => w \notin pending
    BY <1>7, NameAssumption DEF WakeInv, QueueInv
  <2>4. \A c \in Queued(resumable') : frame'[c] = "suspended"
    BY <1>5, <1>7, <1>9, <2>1, <2>2 DEF WakeInv, QueueInv
  <2>5. \A c \in pending' :
          frame'[c] = "suspended" /\ awaits'[c] = "io" /\ c \notin Queued(resumable')
    BY <1>4, <1>5, <1>9, <2>1, <2>2, <2>3 DEF WakeInv, QueueInv
  <2> QED BY <1>9, <2>4, <2>5 DEF QueueInv
<1>14. AwaitInv'
  <2> SUFFICES ASSUME NEW c \in Coro, frame'[c] = "suspended"
               PROVE  Awaited(c)'
    BY DEF AwaitInv
  <2>1. c \notin D /\ c # r /\ frame[c] = "suspended" /\ Awaited(c) /\ awaits[c] \notin D
    BY <1>3, <1>5 DEF WakeInv, AwaitInv
  <2>2. CASE c = w
    <3>1. w # Null
      BY <2>2, CoroAssumption
    <3> QED BY <1>1, <1>2, <1>4, <1>6, <1>7, <1>9, <2>2, <3>1 DEF Awaited
  <2>3. CASE c # w
    <3>1. c \in Queued(resumable') <=> c \in Queued(resumable)
      BY <1>9, <2>1, <2>3
    <3>2. awaits[c] # r
      BY <1>1, <2>1, <2>3, NameAssumption DEF Awaited, w
    <3> QED BY <1>4, <1>6, <2>1, <3>1, <3>2 DEF Awaited
  <2> QED BY <2>2, <2>3
<1>15. WaiterInv'
  <2> SUFFICES ASSUME NEW p \in Coro, Live(p)', waiting'[p] # Null
               PROVE  /\ state'[p] = "waitedOn"
                      /\ frame'[waiting'[p]] = "suspended"
                      /\ awaits'[waiting'[p]] = p
                      /\ waiting'[p] \notin Queued(resumable')
    BY DEF WaiterInv
  <2>1. p # r /\ waiting'[p] = waiting[p] /\ Live(p) /\ p \notin D
    BY <1>4, <1>6
  <2>2. /\ waiting[p] \in Coro
        /\ state[p] = "waitedOn"
        /\ frame[waiting[p]] = "suspended"
        /\ awaits[waiting[p]] = p
        /\ waiting[p] \notin Queued(resumable)
        /\ waiting[p] \notin D
    BY <1>3, <1>4, <2>1 DEF WakeInv, WaiterInv
  <2>3. waiting[p] # r /\ waiting[p] # w
    BY <1>1, <1>7, <2>1, <2>2, CoroAssumption
  <2> QED BY <1>4, <1>5, <1>9, <2>1, <2>2, <2>3
<1> QED BY <1>10, <1>11, <1>12, <1>13, <1>14, <1>15

----------------------------------------------------------------------------
(* The theorems                                                            *)

\* Every step of a disciplined program keeps the invariant.
LEMMA WakeInductive ==
    ASSUME Disciplined, WakeInv, [Next]_vars
    PROVE  WakeInv'
<1>a. TypeOK' /\ LoopInv'
  BY TypeInductive, LoopInductive DEF WakeInv
<1>b. StackInv' /\ CoreInv' /\ ForestInv' /\ QueueInv' /\ AwaitInv' /\ WaiterInv'
  <2>1. CASE CoroStep
    <3> PICK r \in Coro :
          \/ \E c \in Coro, moved \in SUBSET Coro, lent \in Lendable : Call(r, c, moved, lent)
          \/ \E p \in Coro : AwaitReady(r, p)
          \/ \E p, c \in Coro, i \in 1 .. Len(resumable) : AwaitHandOff(r, p, i, c)
          \/ \E p \in Coro : AwaitReturn(r, p)
          \/ Yield(r)
          \/ AwaitIo(r)
          \/ \E result \in {"value", "exc"}, D \in SUBSET Coro : Return(r, result, D)
          \/ \E p \in Coro, D \in SUBSET Coro : Drop(r, p, D)
      BY <2>1 DEF CoroStep
    <3> QED BY WakeCall, WakeAwaitReady, WakeAwaitHandOff, WakeAwaitReturn, WakeYield,
               WakeAwaitIo, WakeReturn, WakeDrop
  <2>2. ASSUME NEW c \in Coro, NEW i \in 1 .. Len(resumable), RunNext(i, c)
        PROVE  StackInv' /\ CoreInv' /\ ForestInv' /\ QueueInv' /\ AwaitInv' /\ WaiterInv'
    BY <2>2, WakeRunNext
  <2>3. ASSUME NEW D \in SUBSET Coro, RunMainReturns(D)
        PROVE  StackInv' /\ CoreInv' /\ ForestInv' /\ QueueInv' /\ AwaitInv' /\ WaiterInv'
    BY <2>3, WakeRunMainReturns
  <2>4. ASSUME NEW c \in Coro, Callback(c)
        PROVE  StackInv' /\ CoreInv' /\ ForestInv' /\ QueueInv' /\ AwaitInv' /\ WaiterInv'
    BY <2>4, WakeCallback
  <2>5. ASSUME UNCHANGED <<frame, owner, params, refs, state, waiting, slot, awaits, pending, stack>>,
               Queued(resumable') = Queued(resumable), NoDuplicates(resumable')
        PROVE  StackInv' /\ CoreInv' /\ ForestInv' /\ QueueInv' /\ AwaitInv' /\ WaiterInv'
    <3>1. StackInv' /\ CoreInv' /\ ForestInv'
      BY <2>5 DEF WakeInv, StackInv, Executing, CoreInv, ForestInv, Live
    <3>2. QueueInv' /\ WaiterInv'
      BY <2>5 DEF WakeInv, QueueInv, WaiterInv, Live
    <3>3. AwaitInv'
      BY <2>5 DEF WakeInv, AwaitInv, Awaited, Live
    <3> QED BY <3>1, <3>2, <3>3
  <2>6. CASE RunAllEnds
    <3>1. Queued(resumable) \cap Done = {} /\ resumable \in Seq(Coro \cup {Null})
      BY DEF WakeInv, QueueInv, Done, TypeOK
    <3>2. Queued(resumable) = {}
      BY <2>6, <3>1, QueuedNone DEF RunAllEnds
    <3>3. Queued(resumable') = Queued(resumable) /\ NoDuplicates(resumable')
      BY <2>6, <3>2, QueuedEmpty DEF RunAllEnds
    <3> QED BY <2>5, <2>6, <3>3 DEF RunAllEnds, coroVars, frameVars, coreVars
  <2>7. CASE Turn \/ RunEnds \/ UvSkip \/ UvPoll \/ UvReturn \/ UNCHANGED vars
    <3>1. UNCHANGED <<frame, owner, params, refs, state, waiting, slot, awaits, pending,
                      resumable, stack>>
      BY <2>7 DEF Turn, RunEnds, UvSkip, UvPoll, UvReturn, vars, coroVars, frameVars, coreVars
    <3>2. NoDuplicates(resumable)
      BY DEF WakeInv, QueueInv
    <3> QED BY <2>5, <3>1, <3>2
  <2> QED BY <2>1, <2>2, <2>3, <2>4, <2>6, <2>7 DEF Next, LoopStep, Terminated
<1> QED BY <1>a, <1>b DEF WakeInv

\* The invariant holds throughout.
THEOREM WakeInvariant == ASSUME Disciplined PROVE Spec => []WakeInv
<1>1. WakeInv /\ [Next]_vars => WakeInv'
  BY WakeInductive
<1> QED BY <1>1, WakeInit, PTL DEF Spec

\* Whatever the scheduler resumes is a suspended coroutine (scheduler.cc:24),
\* whose co_await finds its result (promise.h:149), for any number of
\* coroutines.
THEOREM ResumeSafety ==
    ASSUME Disciplined PROVE Spec => []ResumeIsSafe
<1>1. WakeInv => ResumeIsSafe
  <2> SUFFICES ASSUME WakeInv PROVE ReadyIsSuspended /\ ReadyHasResult
    BY DEF ResumeIsSafe
  <2>1. ReadyIsSuspended
    BY DEF WakeInv, QueueInv, ReadyIsSuspended
  <2>2. ASSUME NEW c \in Queued(resumable)
        PROVE  \/ awaits[c] = "yield"
               \/ awaits[c] = "io" /\ c \notin pending
               \/ /\ awaits[c] \in Coro
                  /\ Live(awaits[c])
                  /\ state[awaits[c]] = "finished"
                  /\ slot[awaits[c]] # "none"
    <3>1. c \in Coro /\ frame[c] = "suspended" /\ c \notin pending
      BY DEF WakeInv, QueueInv, TypeOK, Queued
    <3>2. Awaited(c)
      BY <3>1 DEF WakeInv, AwaitInv
    <3> QED BY <3>1, <3>2 DEF Awaited
  <2> QED BY <2>1, <2>2 DEF ReadyHasResult
<1> QED BY <1>1, WakeInvariant, PTL

\* No wake-up is lost, none is duplicated, and no registered waiter dangles
\* (promise_core.h:100), for any number of coroutines.
THEOREM WakeupSafety ==
    ASSUME Disciplined PROVE Spec => []WakeupsAreExact
<1>1. WakeInv => WakeupsAreExact
  <2> SUFFICES ASSUME WakeInv PROVE OneWakeup /\ WaiterAwaits /\ OwnerLives
    BY DEF WakeupsAreExact
  <2>1. WaiterAwaits /\ OwnerLives
    BY DEF WakeInv, WaiterInv, ForestInv, WaiterAwaits, OwnerLives
  <2>2. ASSUME NEW c \in Coro, frame[c] = "suspended"
        PROVE  \/ /\ c \in Queued(resumable)
                  /\ c \notin pending
                  /\ \A p \in Coro : Live(p) => waiting[p] # c
               \/ /\ c \notin Queued(resumable)
                  /\ c \in pending
                  /\ \A p \in Coro : Live(p) => waiting[p] # c
               \/ /\ c \notin Queued(resumable) \cup pending
                  /\ \A p \in Coro : Live(p) => (waiting[p] = c <=> awaits[c] = p)
                  /\ awaits[c] \in Coro /\ Live(awaits[c])
    <3>1. Awaited(c)
      BY <2>2 DEF WakeInv, AwaitInv
    <3>2. c \in pending => awaits[c] = "io" /\ c \notin Queued(resumable)
      BY DEF WakeInv, QueueInv
    <3>3. \A p \in Coro : Live(p) /\ waiting[p] = c =>
                           awaits[c] = p /\ c \notin Queued(resumable)
      BY CoroAssumption DEF WakeInv, WaiterInv
    <3> QED BY <3>1, <3>2, <3>3, NameAssumption DEF Awaited
  <2> QED BY <2>1, <2>2 DEF OneWakeup, WakeInv, QueueInv
<1> QED BY <1>1, WakeInvariant, PTL

----------------------------------------------------------------------------
(* The end of runMain                                                      *)

\* Ownership is a tree: among any live coroutines there is one that is held by none
\* of them, and one that holds none of them.
LiveSets == {S \in SUBSET Coro : S # {} /\ \A c \in S : Live(c)}

TreeInv ==
    /\ \A S \in LiveSets : \E c \in S : owner[c] \notin S
    /\ \A S \in LiveSets : \E c \in S : \A d \in S : owner[d] # c

\* Main lives until runMain drops it, and keeps its result, which nobody awaits.
MainInv ==
    /\ phase # "closed" => Live(Main)
    /\ frame[Main] = "final" => slot[Main] # "none"

ExitInv == TreeInv /\ MainInv /\ ExitWithResult

\* A step other than a call creates no frame and moves no promise.
KeepsOwners == owner' = owner /\ \A c \in Coro : Live(c)' => Live(c)

\* Main does not go, and its result stays or is stored.
KeepsMain ==
    /\ Live(Main) => Live(Main)'
    /\ slot[Main] # "none" => slot'[Main] # "none"
    /\ frame'[Main] = "final" => frame[Main] = "final" \/ slot'[Main] # "none"

\* Nobody but runMain holds main.
LEMMA MainIsHeld ==
    ASSUME WakeInv
    PROVE  /\ Main \in Coro /\ owner[Main] \notin Coro
           /\ \A D \in SUBSET Coro, roots \in SUBSET Coro :
                IsForest(D, roots) /\ (\A p \in roots : owner[p] \in Coro) => Main \notin D
           /\ \A c \in Coro : frame[c] = "suspended" => awaits[c] # Main
<1>1. Main \in Coro /\ owner[Main] = "runMain" /\ "runMain" \notin Coro
  BY CoroAssumption, NameAssumption DEF WakeInv, ForestInv
<1>2. ASSUME NEW D \in SUBSET Coro, NEW roots \in SUBSET Coro, IsForest(D, roots),
             \A p \in roots : owner[p] \in Coro
      PROVE  Main \notin D
  BY <1>1, <1>2 DEF IsForest
<1>3. ASSUME NEW c \in Coro, frame[c] = "suspended" PROVE awaits[c] # Main
  <2>1. Awaited(c)
    BY <1>3 DEF WakeInv, AwaitInv
  <2> QED BY <1>1, <2>1, NameAssumption DEF Awaited
<1> QED BY <1>1, <1>2, <1>3

\* What the running coroutine does, apart from calls
LEMMA CoroStepKeeps ==
    ASSUME Disciplined, WakeInv, NEW r \in Coro,
           \/ \E p \in Coro : AwaitReady(r, p)
           \/ \E p, c \in Coro, i \in 1 .. Len(resumable) : AwaitHandOff(r, p, i, c)
           \/ \E p \in Coro : AwaitReturn(r, p)
           \/ Yield(r)
           \/ AwaitIo(r)
           \/ \E result \in {"value", "exc"}, D \in SUBSET Coro : Return(r, result, D)
           \/ \E p \in Coro, D \in SUBSET Coro : Drop(r, p, D)
    PROVE  KeepsOwners /\ KeepsMain /\ phase' = phase
<1>1. /\ Main \in Coro /\ owner[Main] \notin Coro
      /\ frame \in [Coro -> {"unborn", "onstack", "suspended", "final", "destroyed"}]
      /\ slot \in [Coro -> {"none", "value", "exc"}] /\ refs[r] = {}
  BY MainIsHeld DEF WakeInv, TypeOK, CoreInv
<1>2. frame[r] = "onstack"
  BY RunningFacts DEF WakeInv, AwaitReady, AwaitHandOff, AwaitReturn, Yield, AwaitIo, Return, Drop
<1>3. ASSUME NEW p \in Coro, AwaitReady(r, p)
      PROVE  KeepsOwners /\ KeepsMain /\ phase' = phase
  <2>1. p # Main
    BY <1>1, <1>3 DEF AwaitReady, MayAwait
  <2>2. owner' = owner /\ frame' = frame /\ slot' = Taken(p) /\ phase' = phase
    BY <1>3 DEF AwaitReady, frameVars
  <2>3. slot'[Main] = slot[Main]
    BY <1>1, <2>1, <2>2 DEF Taken
  <2> QED BY <2>2, <2>3 DEF KeepsOwners, KeepsMain, Live
<1>4. ASSUME NEW p \in Coro, NEW c \in Coro, NEW i \in 1 .. Len(resumable), AwaitHandOff(r, p, i, c)
      PROVE  KeepsOwners /\ KeepsMain /\ phase' = phase
  <2>1. frame[c] = "suspended" /\ \A q \in Coro : q # awaits[c] => slot'[q] = slot[q]
    BY <1>4, ResumeFacts DEF AwaitHandOff
  <2>2. slot'[Main] = slot[Main]
    BY <1>1, <2>1, MainIsHeld
  <2>3. /\ owner' = owner /\ phase' = phase
        /\ frame' = [frame EXCEPT ![r] = "suspended", ![c] = "onstack"]
    BY <1>4 DEF AwaitHandOff
  <2>4. \A d \in Coro : Live(d)' <=> Live(d)
    BY <1>1, <1>2, <2>1, <2>3 DEF Live
  <2>5. frame'[Main] = "final" => frame[Main] = "final"
    BY <1>1, <2>3
  <2> QED BY <1>1, <2>2, <2>3, <2>4, <2>5 DEF KeepsOwners, KeepsMain
<1>5. ASSUME \/ \E p \in Coro : AwaitReturn(r, p)
             \/ Yield(r)
             \/ AwaitIo(r)
      PROVE  KeepsOwners /\ KeepsMain /\ phase' = phase
  <2>1. /\ owner' = owner /\ phase' = phase /\ slot' = slot
        /\ frame' = [frame EXCEPT ![r] = "suspended"]
    BY <1>5 DEF AwaitReturn, Yield, AwaitIo, coreVars
  <2>2. \A d \in Coro : Live(d)' <=> Live(d)
    BY <1>1, <1>2, <2>1 DEF Live
  <2>3. frame'[Main] = "final" => frame[Main] = "final"
    BY <1>1, <2>1
  <2> QED BY <1>1, <2>1, <2>2, <2>3 DEF KeepsOwners, KeepsMain
<1>6. ASSUME NEW result \in {"value", "exc"}, NEW D \in SUBSET Coro, Return(r, result, D)
      PROVE  KeepsOwners /\ KeepsMain /\ phase' = phase
  <2>1. Main \notin D
    <3>1. Held(r) \ params \in SUBSET Coro /\ \A p \in Held(r) \ params : owner[p] \in Coro
      BY DEF Held
    <3> QED BY <1>6, <3>1, MainIsHeld DEF Return
  <2>2. /\ owner' = owner /\ phase' = phase /\ slot' = [slot EXCEPT ![r] = result]
        /\ frame' = [Destroyed(D) EXCEPT ![r] = "final"]
    BY <1>6 DEF Return, Stored
  <2>3. \A d \in Coro : frame'[d] = IF d = r THEN "final" ELSE IF d \in D THEN "destroyed" ELSE frame[d]
    BY <2>2 DEF Destroyed
  <2>4. \A d \in Coro : Live(d)' => Live(d)
    BY <1>2, <2>3 DEF Live
  <2>5. Live(Main) => Live(Main)'
    BY <1>1, <2>1, <2>3 DEF Live
  <2>6. /\ slot[Main] # "none" => slot'[Main] # "none"
        /\ frame'[Main] = "final" => frame[Main] = "final" \/ slot'[Main] # "none"
    BY <1>1, <2>1, <2>2, <2>3
  <2> QED BY <2>2, <2>4, <2>5, <2>6 DEF KeepsOwners, KeepsMain
<1>7. ASSUME NEW p \in Coro, NEW D \in SUBSET Coro, Drop(r, p, D)
      PROVE  KeepsOwners /\ KeepsMain /\ phase' = phase
  <2>1. Main \notin D
    <3>1. {p} \in SUBSET Coro /\ \A q \in {p} : owner[q] \in Coro
      BY <1>7 DEF Drop
    <3> QED BY <1>7, <3>1, MainIsHeld DEF Drop
  <2>2. owner' = owner /\ phase' = phase /\ slot' = slot /\ frame' = Destroyed(D)
    BY <1>7 DEF Drop, coreVars
  <2>3. \A d \in Coro : frame'[d] = IF d \in D THEN "destroyed" ELSE frame[d]
    BY <2>2 DEF Destroyed
  <2> QED BY <1>1, <2>1, <2>2, <2>3 DEF KeepsOwners, KeepsMain, Live
<1> QED BY <1>3, <1>4, <1>5, <1>6, <1>7

\* What a step other than a call or the end of runMain keeps
LEMMA StepKeeps ==
    ASSUME Disciplined, WakeInv, [Next]_vars
    PROVE  \/ \E r, c \in Coro, moved \in SUBSET Coro, lent \in Lendable : Call(r, c, moved, lent)
           \/ \E D \in SUBSET Coro : RunMainReturns(D)
           \/ RunEnds
           \/ /\ KeepsOwners /\ KeepsMain
              /\ phase' # "closed" \/ UNCHANGED vars
              /\ phase' # "exit" \/ UNCHANGED vars
              /\ phase \notin {"exit", "closed"} \/ UNCHANGED vars
<1>1. stack # <<>> => phase \in {"main", "runAll"}
  BY DEF WakeInv, LoopInv
<1>2. CASE CoroStep
  <2> PICK r \in Coro :
        /\ Running(r)
        /\ \/ \E c \in Coro, moved \in SUBSET Coro, lent \in Lendable : Call(r, c, moved, lent)
           \/ \E p \in Coro : AwaitReady(r, p)
           \/ \E p, c \in Coro, i \in 1 .. Len(resumable) : AwaitHandOff(r, p, i, c)
           \/ \E p \in Coro : AwaitReturn(r, p)
           \/ Yield(r)
           \/ AwaitIo(r)
           \/ \E result \in {"value", "exc"}, D \in SUBSET Coro : Return(r, result, D)
           \/ \E p \in Coro, D \in SUBSET Coro : Drop(r, p, D)
    BY <1>2 DEF CoroStep
  <2>1. CASE \E c \in Coro, moved \in SUBSET Coro, lent \in Lendable : Call(r, c, moved, lent)
    BY <2>1
  <2>2. CASE ~\E c \in Coro, moved \in SUBSET Coro, lent \in Lendable : Call(r, c, moved, lent)
    <3>1. KeepsOwners /\ KeepsMain /\ phase' = phase
      BY <2>2, CoroStepKeeps
    <3>2. phase \in {"main", "runAll"}
      BY <1>1 DEF Running
    <3> QED BY <3>1, <3>2
  <2> QED BY <2>1, <2>2
<1>3. ASSUME NEW c \in Coro, NEW i \in 1 .. Len(resumable), RunNext(i, c)
      PROVE  KeepsOwners /\ KeepsMain /\ phase = "runAll" /\ phase' = "runAll"
  <2>1. frame[c] = "suspended" /\ \A q \in Coro : q # awaits[c] => slot'[q] = slot[q]
    BY <1>3, ResumeFacts DEF RunNext
  <2>2. slot'[Main] = slot[Main] /\ Main \in Coro
    BY <2>1, MainIsHeld
  <2>3. /\ owner' = owner /\ phase = "runAll" /\ phase' = phase
        /\ frame' = [frame EXCEPT ![c] = "onstack"]
        /\ frame \in [Coro -> {"unborn", "onstack", "suspended", "final", "destroyed"}]
    BY <1>3 DEF RunNext, WakeInv, TypeOK
  <2>4. \A d \in Coro : Live(d)' <=> Live(d)
    BY <2>1, <2>3 DEF Live
  <2>5. frame'[Main] = "final" => frame[Main] = "final"
    BY <2>2, <2>3
  <2> QED BY <2>2, <2>3, <2>4, <2>5 DEF KeepsOwners, KeepsMain
<1>4. CASE \/ Turn \/ UvSkip \/ UvPoll \/ UvReturn \/ RunAllEnds
           \/ \E c \in Coro : Callback(c)
  <2>1. owner' = owner /\ frame' = frame /\ slot' = slot
    BY <1>4 DEF Turn, UvSkip, UvPoll, UvReturn, RunAllEnds, Callback, coroVars, frameVars, coreVars
  <2>2. phase' \notin {"exit", "closed"} /\ phase \notin {"exit", "closed"}
    BY <1>4 DEF Turn, UvSkip, UvPoll, UvReturn, RunAllEnds, Callback
  <2> QED BY <2>1, <2>2 DEF KeepsOwners, KeepsMain, Live
<1>5. CASE Terminated \/ UNCHANGED vars
  BY <1>5 DEF Terminated, vars, KeepsOwners, KeepsMain, Live
<1> QED BY <1>2, <1>3, <1>4, <1>5 DEF Next, LoopStep
\* Removing frames leaves a tree.
LEMMA KeepsTree ==
    ASSUME TreeInv, KeepsOwners
    PROVE  TreeInv'
<1>1. LiveSets' \subseteq LiveSets
  BY DEF LiveSets, KeepsOwners
<1> QED BY <1>1 DEF TreeInv, KeepsOwners

\* A call adds a leaf below the caller, and moves some of what the caller holds
\* below the new frame.
LEMMA CallKeepsTree ==
    ASSUME WakeInv, TreeInv, NEW r \in Coro, NEW c \in Coro, NEW moved \in SUBSET Coro,
           NEW lent, Call(r, c, moved, lent)
    PROVE  TreeInv'
<1>1. frame[r] = "onstack" /\ frame[c] = "unborn" /\ r # c
  BY RunningFacts DEF Call, WakeInv
<1>2. /\ \A d \in Coro : d # c => (Live(d)' <=> Live(d))
      /\ ~Live(c)
  BY <1>1 DEF Call, Live, WakeInv, TypeOK
<1>3. /\ owner'[c] = r
      /\ \A d \in moved : owner'[d] = c /\ owner[d] = r /\ d # c
      /\ \A d \in Coro : d # c /\ d \notin moved => owner'[d] = owner[d]
  BY <1>2 DEF Call, Held
<1>4. \A d \in Coro : Live(d) => owner[d] # c
  BY <1>2, NameAssumption DEF WakeInv, ForestInv
<1>5. ASSUME NEW S \in LiveSets', c \in S, S \ {c} # {}
      PROVE  S \ {c} \in LiveSets
  BY <1>2, <1>5 DEF LiveSets
<1>6. ASSUME NEW S \in LiveSets', c \notin S
      PROVE  S \in LiveSets
  BY <1>2, <1>6 DEF LiveSets
<1>7. ASSUME NEW S \in LiveSets' PROVE S \in SUBSET Coro /\ S # {}
  BY <1>7 DEF LiveSets
<1>8. ASSUME NEW S \in LiveSets' PROVE \E x \in S : owner'[x] \notin S
  <2>1. CASE S = {c}
    BY <1>1, <1>3, <2>1
  <2>2. CASE c \in S /\ S # {c}
    <3> PICK x \in S \ {c} : owner[x] \notin S \ {c}
      BY <1>5, <1>8, <2>2 DEF TreeInv
    <3>1. x \in Coro /\ Live(x) /\ x # c
      BY <1>2, <1>7, <1>8 DEF LiveSets
    <3>2. CASE x \in moved
      BY <1>1, <1>3, <2>2, <3>2
    <3>3. CASE x \notin moved
      BY <1>3, <1>4, <3>1, <3>3
    <3> QED BY <3>2, <3>3
  <2>3. CASE c \notin S
    <3>1. CASE moved \cap S # {}
      BY <1>3, <2>3, <3>1
    <3>2. CASE moved \cap S = {}
      <4> PICK x \in S : owner[x] \notin S
        BY <1>6, <1>8, <2>3 DEF TreeInv
      <4> QED BY <1>3, <1>7, <1>8, <2>3, <3>2
    <3> QED BY <3>1, <3>2
  <2> QED BY <1>7, <1>8, <2>1, <2>2, <2>3
<1>9. ASSUME NEW S \in LiveSets' PROVE \E x \in S : \A d \in S : owner'[d] # x
  <2>1. CASE S = {c}
    BY <1>1, <1>3, <2>1
  <2>2. CASE c \in S /\ S # {c}
    <3> PICK x \in S \ {c} : \A d \in S \ {c} : owner[d] # x
      BY <1>5, <1>9, <2>2 DEF TreeInv
    <3>1. \A d \in S \ {c} : d \in Coro /\ Live(d)
      BY <1>2, <1>9 DEF LiveSets
    <3>2. CASE x = r
      <4>1. \A d \in S : owner'[d] # c
        BY <1>1, <1>3, <1>4, <3>1, <3>2
      <4> QED BY <2>2, <4>1
    <3>3. CASE x # r
      BY <1>3, <3>1, <3>3
    <3> QED BY <3>2, <3>3
  <2>3. CASE c \notin S
    <3> PICK x \in S : \A d \in S : owner[d] # x
      BY <1>6, <1>9, <2>3 DEF TreeInv
    <3> QED BY <1>3, <1>7, <1>9, <2>3
  <2> QED BY <1>7, <1>9, <2>1, <2>2, <2>3
<1> QED BY <1>8, <1>9 DEF TreeInv

\* A call neither touches main nor happens once the loop has ended.
LEMMA CallKeepsMain ==
    ASSUME WakeInv, MainInv, NEW r \in Coro, NEW c \in Coro, NEW moved \in SUBSET Coro,
           NEW lent, Call(r, c, moved, lent)
    PROVE  MainInv' /\ ExitWithResult'
<1>1. phase \in {"main", "runAll"} /\ phase' = phase
  BY DEF Call, Running, WakeInv, LoopInv
<1>2. frame[c] = "unborn" /\ Live(Main) /\ Main \in Coro
  BY <1>1, CoroAssumption DEF Call, MainInv
<1>3. frame'[Main] = frame[Main] /\ slot' = slot
  BY <1>2 DEF Call, Live, WakeInv, TypeOK, coreVars
<1> QED BY <1>1, <1>2, <1>3 DEF MainInv, ExitWithResult, Live

\* Among suspended coroutines of which none is ready and none waits for libuv,
\* a leaf would await a promise that is finished or being executed: there is
\* no such coroutine when the loop has nothing left to do.
LEMMA NobodyWaits ==
    ASSUME WakeInv, TreeInv, stack = <<>>, resumable = <<>>, pending = {}
    PROVE  \A c \in Coro : frame[c] # "suspended"
<1> DEFINE S == {c \in Coro : frame[c] = "suspended"}
<1> SUFFICES ASSUME S # {} PROVE FALSE
  OBVIOUS
<1>1. S \in LiveSets
  BY DEF LiveSets, Live
<1>2. PICK c \in S : \A d \in S : owner[d] # c
  BY <1>1 DEF TreeInv
<1>3. Queued(resumable) = {}
  BY QueuedEmpty
<1>4. Awaited(c) /\ c \in Coro /\ frame[c] = "suspended"
  BY <1>2 DEF WakeInv, AwaitInv
<1> DEFINE p == awaits[c]
<1>5. p \in Coro /\ Live(p) /\ owner[p] = c /\ waiting[p] = c
  BY <1>3, <1>4 DEF Awaited
<1>6. state[p] = "waitedOn"
  BY <1>4, <1>5, CoroAssumption DEF WakeInv, WaiterInv
<1>7. frame[p] # "final"
  BY <1>5, <1>6 DEF WakeInv, CoreInv
<1>8. frame[p] # "onstack"
  BY <1>5 DEF WakeInv, StackInv, Lists, Executing
<1>9. p \in S
  BY <1>5, <1>7, <1>8 DEF Live
<1> QED BY <1>2, <1>5, <1>9

\* Loop::run() ends with main at its final suspension.
LEMMA RunEndsExit ==
    ASSUME WakeInv, ExitInv, RunEnds
    PROVE  ExitInv'
<1>1. /\ stack = <<>> /\ resumable = <<>> /\ pending = {}
      /\ phase \in {"main", "check"} /\ phase' = "exit"
      /\ UNCHANGED <<frame, owner, slot, resumable>>
  BY DEF RunEnds, coroVars, frameVars, coreVars
<1>2. TreeInv'
  BY <1>1, KeepsTree DEF ExitInv, KeepsOwners, Live
<1>3. Live(Main) /\ Main \in Coro
  BY <1>1, CoroAssumption DEF ExitInv, MainInv
<1>4. frame[Main] # "suspended"
  BY <1>1, <1>3, NobodyWaits DEF ExitInv
<1>5. frame[Main] # "onstack"
  BY <1>1, <1>3 DEF WakeInv, StackInv, Lists, Executing
<1>6. slot[Main] # "none"
  BY <1>3, <1>4, <1>5 DEF Live, ExitInv, MainInv
<1> QED BY <1>1, <1>2, <1>3, <1>6 DEF ExitInv, MainInv, ExitWithResult, Live

\* Destroying main's promise destroys every frame: a frame that stayed would be
\* held by one that stayed.
LEMMA RunMainReturnsExit ==
    ASSUME WakeInv, ExitInv, NEW D \in SUBSET Coro, RunMainReturns(D)
    PROVE  ExitInv'
<1>1. /\ IsForest(D, {Main}) /\ frame' = Destroyed(D) /\ phase' = "closed"
      /\ owner' = owner /\ Main \in D
  BY DEF RunMainReturns, IsForest
<1>2. \A c \in Coro : frame'[c] = IF c \in D THEN "destroyed" ELSE frame[c]
  BY <1>1 DEF Destroyed
<1>3. TreeInv'
  BY <1>1, <1>2, KeepsTree DEF ExitInv, KeepsOwners, Live
<1> DEFINE S == {c \in Coro : Live(c) /\ c \notin D}
<1>4. S = {}
  <2> SUFFICES ASSUME S # {} PROVE FALSE
    OBVIOUS
  <2>1. S \in LiveSets
    BY DEF LiveSets
  <2>2. PICK c \in S : owner[c] \notin S
    BY <2>1 DEF ExitInv, TreeInv
  <2>3. owner[c] \in Coro /\ Live(owner[c])
    BY <1>1, <2>2 DEF WakeInv, ForestInv
  <2>4. owner[c] \in D
    BY <2>2, <2>3
  <2> QED BY <1>1, <2>2, <2>4 DEF IsForest
<1>5. \A c \in Coro : frame'[c] \in {"unborn", "destroyed"}
  <2>1. frame \in [Coro -> {"unborn", "onstack", "suspended", "final", "destroyed"}]
    BY DEF WakeInv, TypeOK
  <2> QED BY <1>2, <1>4, <2>1 DEF Live
<1> QED BY <1>1, <1>3, <1>5, CoroAssumption DEF ExitInv, MainInv, ExitWithResult

LEMMA ExitInit == Init => ExitInv
<1> SUFFICES ASSUME Init PROVE ExitInv
  OBVIOUS
<1>1. \A c \in Coro : Live(c) <=> c = Main
  BY CoroAssumption DEF Init, Live
<1>2. owner[Main] \notin Coro
  BY CoroAssumption, NameAssumption DEF Init
<1>3. \A S \in LiveSets : S = {Main}
  BY <1>1 DEF LiveSets
<1>4. TreeInv
  BY <1>2, <1>3, CoroAssumption DEF TreeInv
<1>5. MainInv /\ ExitWithResult
  BY <1>1, CoroAssumption DEF Init, MainInv, ExitWithResult
<1> QED BY <1>4, <1>5 DEF ExitInv

LEMMA ExitInductive ==
    ASSUME Disciplined, WakeInv, ExitInv, [Next]_vars
    PROVE  ExitInv'
<1>1. ASSUME NEW r \in Coro, NEW c \in Coro, NEW moved \in SUBSET Coro, NEW lent \in Lendable,
             Call(r, c, moved, lent)
      PROVE  ExitInv'
  <2>1. TreeInv'
    BY <1>1, CallKeepsTree DEF ExitInv
  <2>2. MainInv' /\ ExitWithResult'
    BY <1>1, CallKeepsMain DEF ExitInv
  <2> QED BY <2>1, <2>2 DEF ExitInv
<1>2. ASSUME KeepsOwners, KeepsMain, phase' \notin {"exit", "closed"}, phase \notin {"exit", "closed"}
      PROVE  ExitInv'
  <2>1. TreeInv'
    BY <1>2, KeepsTree DEF ExitInv
  <2>2. MainInv'
    BY <1>2 DEF ExitInv, MainInv, KeepsMain
  <2>3. ExitWithResult'
    BY <1>2 DEF ExitWithResult
  <2> QED BY <2>1, <2>2, <2>3 DEF ExitInv
<1>3. CASE UNCHANGED vars
  BY <1>3 DEF vars, ExitInv, TreeInv, LiveSets, MainInv, ExitWithResult, Live
<1> QED BY <1>1, <1>2, <1>3, StepKeeps, RunEndsExit, RunMainReturnsExit

\* runMain's unwrap() finds a result (run.h:47), the scheduler closes with an
\* empty deque (scheduler.cc:32), and dropping main's promise leaves no frame
\* behind: for any number of coroutines, because ownership is a tree.
THEOREM RunMainEnds == ASSUME Disciplined PROVE Spec => []ExitWithResult
<1>1. WakeInv /\ ExitInv /\ [Next]_vars => ExitInv'
  BY ExitInductive
<1>2. ExitInv => ExitWithResult
  BY DEF ExitInv
<1> QED BY <1>1, <1>2, ExitInit, WakeInvariant, PTL DEF Spec
=============================================================================
