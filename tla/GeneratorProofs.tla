--------------------------- MODULE GeneratorProofs ---------------------------
(***************************************************************************)
(* Theorems about Generator for any number of readers, any values and any  *)
(* length of a run, for programs that do not drop a next() while it is     *)
(* registered with the generator.                                          *)
(***************************************************************************)
EXTENDS Generator, SchedulerProofs

\* Whom the core knows of: the one reader that awaits is registered with it, or was
\* woken and will find a value or the end.
ReaderInv ==
    /\ waiter # Null <=> state = "waitedOn"
    /\ waiter # Null => /\ waiter \in AwaitingReaders /\ waiter \notin Queued(resumable)
                        /\ gen \in {"awaiting", "woken"}
    /\ \A r, s \in AwaitingReaders : r = s
    /\ \A r \in AwaitingReaders :
         IF r \in Queued(resumable) THEN terminated \/ slot \in T ELSE waiter = r

\* What is in the run queue
QueueInv ==
    /\ NoDuplicates(resumable)
    /\ Queued(resumable) \subseteq AwaitingReaders \cup {Gen}
    /\ Gen \in Queued(resumable) <=> gen = "woken"

\* What the generator's place says of its core
BodyInv ==
    /\ gen = "called" => state = "init" /\ Queued(resumable) = {} /\ AwaitingReaders = {}
    /\ gen = "yielded" => suspended
    /\ gen \in {"called", "awaiting", "woken"} => ~suspended /\ slot = Null
    /\ gen \in {"awaiting", "woken"} => state # "finished"
    /\ gen \in {"called", "yielded", "awaiting", "woken"} => ~terminated
    /\ gen \in {"done", "gone"} => terminated
    /\ gen \in {"gone", "replaced"} => AwaitingReaders = {}
    /\ slot = Exc => terminated

GenInv == TypeOK /\ ReaderInv /\ QueueInv /\ BodyInv

\* The coroutines whose handles the run queue holds
Handles == Readers \cup {Gen}

----------------------------------------------------------------------------
LEMMA QueueType ==
    ASSUME NEW q
    PROVE  q \in Seq(Readers \cup {Gen, Null}) <=> q \in HandleQueue(Handles)
<1>1. Readers \cup {Gen, Null} = Handles \cup {Null}
  BY DEF Handles
<1> QED BY <1>1 DEF HandleQueue

LEMMA HandlesNotNull == Null \notin Handles
BY GeneratorAssumption DEF Handles

\* When the generator runs it is called or was woken; nothing else is in the run
\* queue, and a reader that waits is registered.
LEMMA BodyRuns ==
    ASSUME GenInv, GeneratorRuns
    PROVE  /\ gen \in {"called", "woken"} /\ slot = Null /\ ~terminated /\ ~suspended
           /\ RunQueue \in HandleQueue(Handles) /\ Queued(RunQueue) = {} /\ NoDuplicates(RunQueue)
           /\ \A r \in AwaitingReaders : waiter = r
<1> USE GeneratorAssumption DEF GenInv
<1>1. resumable \in HandleQueue(Handles)
  BY QueueType DEF TypeOK
<1>2. CASE gen = "called"
  BY <1>1, <1>2 DEF RunQueue, BodyInv, QueueInv
<1>3. CASE gen # "called" /\ Alive /\ Resumed(Gen)
  <2>1. /\ Gen \in Queued(resumable) /\ Popped \in HandleQueue(Handles)
        /\ Queued(resumable) = Queued(Popped) \cup {Gen}
        /\ NoDuplicates(Popped) /\ Gen \notin Queued(Popped)
    BY <1>1, <1>3, ResumedHolds DEF Resumed, Popped, QueueInv
  <2>2. gen = "woken" /\ slot = Null /\ ~terminated /\ ~suspended
    BY <2>1 DEF QueueInv, BodyInv
  <2>3. \A r \in AwaitingReaders : r \notin Queued(resumable) /\ waiter = r
    BY <2>2 DEF ReaderInv
  <2>4. Queued(Popped) = {}
    BY <2>1, <2>3 DEF QueueInv
  <2> QED BY <1>3, <2>1, <2>2, <2>3, <2>4 DEF RunQueue
<1> QED BY <1>2, <1>3 DEF GeneratorRuns

\* PromiseCore::resume() puts the registered reader into the empty run queue.
LEMMA ResumeWakes ==
    ASSUME TypeOK, NEW queue \in HandleQueue(Handles), Queued(queue) = {}, NoDuplicates(queue),
           resume(queue)
    PROVE  /\ resumable' \in HandleQueue(Handles) /\ NoDuplicates(resumable')
           /\ Queued(resumable') = IF waiter = Null THEN {} ELSE {waiter}
<1>1. CASE waiter = Null
  BY <1>1 DEF resume
<1>2. CASE waiter # Null
  <2>1. waiter \in Handles /\ resumable' = Enqueue(queue, waiter)
    BY <1>2 DEF TypeOK, Handles, resume
  <2> QED BY <1>2, <2>1, EnqueueHolds, HandlesNotNull
<1> QED BY <1>1, <1>2

LEMMA YieldKeeps ==
    ASSUME GenInv, NEW value \in T, yield_value(value)
    PROVE  GenInv'
<1> USE GeneratorAssumption
<1>1. /\ gen \in {"called", "woken"} /\ slot = Null /\ ~terminated
      /\ RunQueue \in HandleQueue(Handles) /\ Queued(RunQueue) = {} /\ NoDuplicates(RunQueue)
      /\ \A r \in AwaitingReaders : waiter = r
  BY BodyRuns DEF yield_value
<1>2. /\ resumable' \in HandleQueue(Handles) /\ NoDuplicates(resumable')
      /\ Queued(resumable') = IF waiter = Null THEN {} ELSE {waiter}
  BY <1>1, ResumeWakes DEF yield_value, GenInv
<1>3. /\ gen' = "yielded" /\ slot' = value /\ waiter' = Null /\ state' = "finished" /\ suspended' = TRUE
      /\ terminated' = terminated /\ AwaitingReaders' = AwaitingReaders
  BY DEF yield_value, resume, suspendGenerator, AwaitingReaders
<1>4. waiter # Null => waiter \in AwaitingReaders
  BY DEF GenInv, ReaderInv
<1>5. TypeOK'
  <2>1. resumable' \in Seq(Readers \cup {Gen, Null})
    BY <1>2, QueueType
  <2> QED BY <1>3, <2>1 DEF TypeOK, GenInv, yield_value
<1>6. waiter \in Readers \cup {Null} /\ AwaitingReaders \subseteq Readers
  BY DEF GenInv, TypeOK, AwaitingReaders
<1>7. ReaderInv'
  BY <1>1, <1>2, <1>3, <1>6 DEF ReaderInv, GenInv
<1>8. QueueInv'
  BY <1>2, <1>3, <1>4, <1>6 DEF QueueInv
<1>9. BodyInv'
  BY <1>1, <1>3 DEF BodyInv
<1> QED BY <1>5, <1>7, <1>8, <1>9 DEF GenInv

LEMMA TerminatesKeeps ==
    ASSUME GenInv, NEW result \in {slot, Exc}, Terminates(result)
    PROVE  GenInv'
<1> USE GeneratorAssumption
<1>1. /\ gen \in {"called", "woken"} /\ slot = Null
      /\ RunQueue \in HandleQueue(Handles) /\ Queued(RunQueue) = {} /\ NoDuplicates(RunQueue)
      /\ \A r \in AwaitingReaders : waiter = r
  BY BodyRuns DEF Terminates
<1>2. /\ resumable' \in HandleQueue(Handles) /\ NoDuplicates(resumable')
      /\ Queued(resumable') = IF waiter = Null THEN {} ELSE {waiter}
  BY <1>1, ResumeWakes DEF Terminates, GenInv
<1>3. /\ gen' = "done" /\ slot' = result /\ waiter' = Null /\ state' = "finished"
      /\ terminated' = TRUE /\ AwaitingReaders' = AwaitingReaders
  BY DEF Terminates, resume, AwaitingReaders
<1>4. waiter # Null => waiter \in AwaitingReaders
  BY DEF GenInv, ReaderInv
<1>5. TypeOK'
  <2>1. resumable' \in Seq(Readers \cup {Gen, Null})
    BY <1>2, QueueType
  <2>2. slot' \in T \cup {Null, Exc}
    BY <1>1, <1>3
  <2> QED BY <1>3, <2>1, <2>2 DEF TypeOK, GenInv, Terminates
<1>6. waiter \in Readers \cup {Null} /\ AwaitingReaders \subseteq Readers
  BY DEF GenInv, TypeOK, AwaitingReaders
<1>7. ReaderInv'
  BY <1>1, <1>2, <1>3, <1>6 DEF ReaderInv, GenInv
<1>8. QueueInv'
  BY <1>2, <1>3, <1>4, <1>6 DEF QueueInv
<1>9. BodyInv'
  BY <1>1, <1>3 DEF BodyInv
<1> QED BY <1>5, <1>7, <1>8, <1>9 DEF GenInv

LEMMA GeneratorAwaitsKeeps ==
    ASSUME GenInv, GeneratorAwaits
    PROVE  GenInv'
<1> USE GeneratorAssumption
<1>1. /\ gen \in {"called", "woken"} /\ slot = Null /\ ~terminated /\ ~suspended
      /\ RunQueue \in HandleQueue(Handles) /\ Queued(RunQueue) = {} /\ NoDuplicates(RunQueue)
      /\ \A r \in AwaitingReaders : waiter = r
  BY BodyRuns DEF GeneratorAwaits
<1>2. /\ gen' = "awaiting" /\ resumable' = RunQueue /\ UNCHANGED coreVars
      /\ AwaitingReaders' = AwaitingReaders
  BY DEF GeneratorAwaits, AwaitingReaders
<1>3. TypeOK'
  <2>1. resumable' \in Seq(Readers \cup {Gen, Null})
    BY <1>1, <1>2, QueueType
  <2> QED BY <1>2, <2>1 DEF TypeOK, GenInv, GeneratorAwaits, coreVars
<1>4. ReaderInv'
  BY <1>1, <1>2 DEF ReaderInv, GenInv, coreVars
<1>5. QueueInv'
  BY <1>1, <1>2 DEF QueueInv
<1>6. BodyInv'
  BY <1>1, <1>2 DEF BodyInv, GenInv, coreVars
<1> QED BY <1>3, <1>4, <1>5, <1>6 DEF GenInv

LEMMA AwaitedKeeps ==
    ASSUME GenInv, AwaitedHappens
    PROVE  GenInv'
<1> USE GeneratorAssumption
<1>1. /\ gen = "awaiting" /\ gen' = "woken" /\ resumable' = Enqueue(resumable, Gen)
      /\ UNCHANGED coreVars /\ AwaitingReaders' = AwaitingReaders
  BY DEF AwaitedHappens, AwaitingReaders
<1>2. /\ resumable' \in HandleQueue(Handles) /\ NoDuplicates(resumable')
      /\ Queued(resumable') = Queued(resumable) \cup {Gen}
  <2>1. resumable \in HandleQueue(Handles) /\ Gen \in Handles
    BY QueueType DEF GenInv, TypeOK, Handles
  <2> QED BY <1>1, <2>1, EnqueueHolds, HandlesNotNull DEF GenInv, QueueInv
<1>3. TypeOK'
  <2>1. resumable' \in Seq(Readers \cup {Gen, Null})
    BY <1>2, QueueType
  <2> QED BY <1>1, <2>1 DEF TypeOK, GenInv, AwaitedHappens, coreVars
<1>4. \A r \in AwaitingReaders : r # Gen
  BY DEF AwaitingReaders
<1>5. ReaderInv'
  BY <1>1, <1>2, <1>4 DEF ReaderInv, GenInv, coreVars
<1>6. QueueInv'
  BY <1>1, <1>2 DEF QueueInv, GenInv
<1>7. BodyInv'
  BY <1>1 DEF BodyInv, GenInv, coreVars
<1> QED BY <1>3, <1>5, <1>6, <1>7 DEF GenInv

\* A read takes a value that is there, or takes nothing; what a taken-away generator
\* held is not touched.
LEMMA AwaitResumes ==
    ASSUME TypeOK, await_resume
    PROVE  /\ \/ ~Alive /\ slot' = slot /\ ret' = ret
              \/ Alive /\ slot \in {Null, Exc} /\ slot' = slot /\ ret' = "EAGAIN"
              \/ Alive /\ slot \in T /\ slot' = Null /\ ret' = slot
           /\ slot' \in {Null, slot} /\ ret' \in {"ok", "EAGAIN"} \cup T
<1> USE GeneratorAssumption
<1>1. CASE ~Alive
  BY <1>1 DEF await_resume, TypeOK
<1>2. CASE Alive /\ slot \in {Null, Exc}
  BY <1>2 DEF await_resume
<1>3. CASE Alive /\ slot \in T
  BY <1>3 DEF await_resume
<1> QED BY <1>1, <1>2, <1>3 DEF TypeOK

LEMMA ReadNowKeeps ==
    ASSUME GenInv, NEW r \in Readers, ReadNow(r)
    PROVE  GenInv'
<1> USE GeneratorAssumption
<1>1. /\ AwaitingReaders = {} /\ gen # "called"
      /\ UNCHANGED <<turnVars, state, waiter, suspended, terminated, gen, awaits, yields, reader>>
  BY DEF ReadNow, MayRead
<1>2. slot' \in {Null, slot} /\ ret' \in {"ok", "EAGAIN"} \cup T
  BY AwaitResumes DEF ReadNow, GenInv
<1>3. AwaitingReaders' = {} /\ Queued(resumable') = Queued(resumable)
  BY <1>1 DEF AwaitingReaders, turnVars
<1>4. TypeOK'
  BY <1>1, <1>2 DEF TypeOK, GenInv, turnVars
<1>5. ReaderInv'
  BY <1>1, <1>3 DEF ReaderInv, GenInv
<1>6. QueueInv'
  BY <1>1, <1>3 DEF QueueInv, GenInv, turnVars
<1>7. BodyInv'
  BY <1>1, <1>2, <1>3 DEF BodyInv, GenInv
<1> QED BY <1>4, <1>5, <1>6, <1>7 DEF GenInv

LEMMA ReadSuspendsKeeps ==
    ASSUME GenInv, NEW r \in Readers, ReadSuspends(r)
    PROVE  GenInv'
<1> USE GeneratorAssumption
<1>1. /\ AwaitingReaders = {} /\ gen \in {"yielded", "awaiting", "woken"} /\ slot = Null /\ ~terminated
      /\ waiter' = r /\ state' = "waitedOn" /\ reader' = [reader EXCEPT ![r] = "awaiting"]
      /\ UNCHANGED <<phase, slot, terminated, awaits, yields, ret>>
  BY DEF ReadSuspends, MayRead, ready, Alive, GenInv, TypeOK, BodyInv
<1>2. AwaitingReaders' = {r} /\ r # Gen /\ r \in Handles /\ r # Null
  BY <1>1 DEF AwaitingReaders, GenInv, TypeOK, Handles
<1>3. resumable \in HandleQueue(Handles) /\ r \notin Queued(resumable)
  BY <1>1, <1>2, QueueType DEF GenInv, TypeOK, QueueInv
<1>4. /\ gen' \in {"awaiting", "woken"} /\ suspended' = FALSE
      /\ resumable' \in HandleQueue(Handles) /\ NoDuplicates(resumable')
      /\ Queued(resumable') \subseteq {Gen} /\ (Gen \in Queued(resumable') <=> gen' = "woken")
  <2>1. CASE suspended
    <3>1. gen = "yielded" /\ gen' = "woken" /\ resumable' = Enqueue(resumable, Gen) /\ suspended' = FALSE
      BY <1>1, <2>1 DEF ReadSuspends, resumeGenerator, GenInv, BodyInv
    <3>2. Gen \notin Queued(resumable) /\ Queued(resumable) = {} /\ NoDuplicates(resumable)
      BY <1>1, <3>1 DEF GenInv, QueueInv
    <3> QED BY <1>3, <3>1, <3>2, EnqueueHolds, HandlesNotNull DEF Handles
  <2>2. CASE ~suspended
    <3>1. gen \in {"awaiting", "woken"} /\ UNCHANGED <<gen, resumable>> /\ suspended' = FALSE
      BY <1>1, <2>2 DEF ReadSuspends, resumeGenerator, GenInv, BodyInv
    <3> QED BY <1>1, <1>3, <3>1 DEF GenInv, QueueInv
  <2> QED BY <2>1, <2>2 DEF GenInv, TypeOK
<1>5. TypeOK'
  <2>1. resumable' \in Seq(Readers \cup {Gen, Null})
    BY <1>4, QueueType
  <2> QED BY <1>1, <1>4, <2>1 DEF TypeOK, GenInv
<1>6. ReaderInv'
  BY <1>1, <1>2, <1>4 DEF ReaderInv
<1>7. QueueInv'
  BY <1>2, <1>4 DEF QueueInv
<1>8. BodyInv'
  BY <1>1, <1>2, <1>4 DEF BodyInv
<1> QED BY <1>5, <1>6, <1>7, <1>8 DEF GenInv

\* The reader that is resumed is the only one; it is no longer registered.
LEMMA ReaderResumed ==
    ASSUME GenInv, NEW r \in Readers, reader[r] = "awaiting", Resumed(r)
    PROVE  /\ AwaitingReaders = {r} /\ waiter = Null /\ (terminated \/ slot \in T)
           /\ gen \in {"yielded", "done"}
           /\ Popped \in HandleQueue(Handles) /\ NoDuplicates(Popped) /\ Queued(Popped) = {}
<1> USE GeneratorAssumption
<1>1. resumable \in HandleQueue(Handles)
  BY QueueType DEF GenInv, TypeOK
<1>2. /\ r \in Queued(resumable) /\ Popped \in HandleQueue(Handles)
      /\ Queued(resumable) = Queued(Popped) \cup {r}
      /\ NoDuplicates(Popped) /\ r \notin Queued(Popped)
  BY <1>1, ResumedHolds DEF Resumed, Popped, GenInv, QueueInv
<1>3. AwaitingReaders = {r}
  BY DEF GenInv, ReaderInv, AwaitingReaders
<1>4. waiter = Null /\ (terminated \/ slot \in T)
  BY <1>2, <1>3 DEF GenInv, ReaderInv
<1>5. gen \in {"yielded", "done"}
  BY <1>3, <1>4 DEF GenInv, BodyInv, TypeOK
<1>6. Queued(Popped) = {}
  <2>1. Gen \notin Queued(resumable)
    BY <1>5 DEF GenInv, QueueInv
  <2> QED BY <1>2, <1>3, <2>1 DEF GenInv, QueueInv
<1> QED BY <1>2, <1>3, <1>4, <1>5, <1>6

LEMMA ReadResumesKeeps ==
    ASSUME GenInv, NEW r \in Readers, ReadResumes(r)
    PROVE  GenInv'
<1> USE GeneratorAssumption
<1>1. /\ AwaitingReaders = {r} /\ waiter = Null /\ gen \in {"yielded", "done"}
      /\ Popped \in HandleQueue(Handles) /\ NoDuplicates(Popped) /\ Queued(Popped) = {}
  BY ReaderResumed DEF ReadResumes
<1>2. /\ resumable' = Popped /\ reader' = [reader EXCEPT ![r] = "idle"]
      /\ UNCHANGED <<phase, state, waiter, suspended, terminated, gen, awaits, yields>>
  BY DEF ReadResumes
<1>3. slot' \in {Null, slot} /\ ret' \in {"ok", "EAGAIN"} \cup T
  BY AwaitResumes DEF ReadResumes, GenInv
<1>4. AwaitingReaders' = {}
  BY <1>1, <1>2 DEF AwaitingReaders, GenInv, TypeOK
<1>5. TypeOK'
  <2>1. resumable' \in Seq(Readers \cup {Gen, Null})
    BY <1>1, <1>2, QueueType
  <2> QED BY <1>2, <1>3, <2>1 DEF TypeOK, GenInv
<1>6. ReaderInv'
  BY <1>1, <1>2, <1>4 DEF ReaderInv, GenInv
<1>7. QueueInv'
  BY <1>1, <1>2, <1>4 DEF QueueInv
<1>8. BodyInv'
  BY <1>1, <1>2, <1>3, <1>4 DEF BodyInv, GenInv
<1> QED BY <1>5, <1>6, <1>7, <1>8 DEF GenInv

LEMMA DropNextKeeps ==
    ASSUME GenInv, ~DropRegistered, NEW r \in Readers, DropNext(r)
    PROVE  GenInv'
<1> USE GeneratorAssumption
<1>1. /\ reader[r] = "awaiting" /\ waiter # r /\ reader' = [reader EXCEPT ![r] = "gone"]
      /\ resumable' = CancelAll(resumable, {r}) /\ UNCHANGED <<phase, coreVars, gen, awaits, yields, ret>>
  BY DEF DropNext
<1>2. AwaitingReaders = {r} /\ waiter = Null /\ AwaitingReaders' = {}
  BY <1>1 DEF AwaitingReaders, GenInv, TypeOK, ReaderInv
<1>3. /\ resumable' \in HandleQueue(Handles) /\ NoDuplicates(resumable')
      /\ Queued(resumable') = Queued(resumable) \ {r}
  BY <1>1, QueueType, CancelHolds DEF GenInv, TypeOK, QueueInv
<1>4. TypeOK'
  <2>1. resumable' \in Seq(Readers \cup {Gen, Null})
    BY <1>3, QueueType
  <2> QED BY <1>1, <2>1 DEF TypeOK, GenInv, coreVars
<1>5. ReaderInv'
  BY <1>1, <1>2 DEF ReaderInv, GenInv, coreVars
<1>6. QueueInv'
  BY <1>1, <1>2, <1>3 DEF QueueInv, GenInv
<1>7. BodyInv'
  BY <1>1, <1>2, <1>3 DEF BodyInv, GenInv, coreVars
<1> QED BY <1>4, <1>5, <1>6, <1>7 DEF GenInv

\* The owner takes the generator away; when the core is finished the generator is
\* not in the run queue.
LEMMA TakenAwayKeeps ==
    ASSUME GenInv, cancelGenerator \/ AssignOver
    PROVE  GenInv'
<1> USE GeneratorAssumption
<1>1. /\ Alive /\ gen # "called" /\ AwaitingReaders = {} /\ gen' \in {"gone", "replaced"}
      /\ (gen' = "gone" => terminated') /\ (terminated => terminated') /\ terminated' \in BOOLEAN
      /\ UNCHANGED <<phase, slot, state, waiter, suspended, awaits, yields, reader, ret>>
  BY DEF cancelGenerator, AssignOver, coreVars, GenInv, TypeOK
<1>2. /\ resumable' \in HandleQueue(Handles) /\ NoDuplicates(resumable') /\ Queued(resumable') = {}
  <2>1. /\ resumable \in HandleQueue(Handles) /\ NoDuplicates(resumable)
        /\ Queued(resumable) \subseteq {Gen}
    BY <1>1, QueueType DEF GenInv, TypeOK, QueueInv
  <2>2. CASE resumable' = CancelAll(resumable, {Gen})
    BY <2>1, <2>2, CancelHolds
  <2>3. CASE state = "finished" /\ resumable' = resumable
    <3>1. gen # "woken"
      BY <2>3 DEF GenInv, BodyInv
    <3> QED BY <2>1, <2>3, <3>1 DEF GenInv, QueueInv
  <2> QED BY <2>2, <2>3 DEF cancelGenerator, AssignOver, Cancelled
<1>3. AwaitingReaders' = {}
  BY <1>1 DEF AwaitingReaders
<1>4. TypeOK'
  <2>1. resumable' \in Seq(Readers \cup {Gen, Null})
    BY <1>2, QueueType
  <2> QED BY <1>1, <2>1 DEF TypeOK, GenInv
<1>5. ReaderInv'
  BY <1>1, <1>3 DEF ReaderInv, GenInv
<1>6. QueueInv'
  BY <1>1, <1>2 DEF QueueInv
<1>7. BodyInv'
  BY <1>1, <1>3 DEF BodyInv, GenInv
<1> QED BY <1>4, <1>5, <1>6, <1>7 DEF GenInv

LEMMA TurnsKeep ==
    ASSUME GenInv, TakeTurns
    PROVE  GenInv'
<1>1. /\ Queued(resumable') = Queued(resumable) /\ NoDuplicates(resumable')
      /\ resumable' \in Seq(Readers \cup {Gen, Null}) /\ phase' \in {"run", "uv"}
      /\ UNCHANGED <<coreVars, gen, awaits, yields, reader, ret>>
  <2>1. CASE UvRun
    <3>1. Queued(resumable) = {} /\ resumable' = <<>>
      BY <2>1, NoNextQueued DEF UvRun
    <3>2. <<>> \in HandleQueue(Handles) /\ Queued(<<>>) = {} /\ NoDuplicates(<<>>)
      BY EmptyHolds
    <3> QED BY <2>1, <3>1, <3>2, QueueType DEF TakeTurns, UvRun
  <2>2. CASE RunAll
    BY <2>2 DEF TakeTurns, RunAll, GenInv, TypeOK, QueueInv
  <2> QED BY <2>1, <2>2 DEF TakeTurns, Turn
<1>2. AwaitingReaders' = AwaitingReaders
  BY <1>1 DEF AwaitingReaders
<1>3. TypeOK'
  BY <1>1 DEF TypeOK, GenInv, coreVars
<1>4. ReaderInv'
  BY <1>1, <1>2 DEF ReaderInv, GenInv, coreVars
<1>5. QueueInv'
  BY <1>1, <1>2 DEF QueueInv, GenInv
<1>6. BodyInv'
  BY <1>1, <1>2 DEF BodyInv, GenInv, coreVars
<1> QED BY <1>3, <1>4, <1>5, <1>6 DEF GenInv

----------------------------------------------------------------------------
LEMMA GeneratorInit == Init => GenInv
<1> SUFFICES ASSUME Init PROVE GenInv
  OBVIOUS
<1> USE GeneratorAssumption DEF Init, TurnInit
<1>1. <<>> \in HandleQueue(Handles) /\ Queued(<<>>) = {} /\ NoDuplicates(<<>>)
  BY EmptyHolds
<1>2. TypeOK
  <2>1. resumable \in Seq(Readers \cup {Gen, Null})
    BY <1>1, QueueType
  <2>2. awaits \in 0 .. MaxAwaits /\ yields \in 0 .. MaxYields
    OBVIOUS
  <2>3. reader \in [Readers -> {"idle", "awaiting", "gone"}]
    OBVIOUS
  <2>4. suspended \in BOOLEAN /\ terminated \in BOOLEAN
    OBVIOUS
  <2>5. slot \in T \cup {Null, Exc} /\ waiter \in Readers \cup {Null} /\ ret \in {"ok", "EAGAIN"} \cup T
    OBVIOUS
  <2>6. phase \in {"run", "uv"} /\ state \in {"init", "waitedOn", "finished"}
    OBVIOUS
  <2> QED BY <2>1, <2>2, <2>3, <2>4, <2>5, <2>6 DEF TypeOK
<1>3. AwaitingReaders = {}
  BY DEF AwaitingReaders
<1> QED BY <1>1, <1>2, <1>3 DEF GenInv, ReaderInv, QueueInv, BodyInv

LEMMA GeneratorInductive ==
    ASSUME ~DropRegistered
    PROVE  GenInv /\ [Next]_vars => GenInv'
<1> SUFFICES ASSUME GenInv, [Next]_vars PROVE GenInv'
  OBVIOUS
<1>1. CASE return_void \/ unhandled_exception
  BY <1>1, TerminatesKeeps DEF return_void, unhandled_exception
<1>2. CASE UNCHANGED vars
  BY <1>2 DEF vars, turnVars, coreVars, GenInv, TypeOK, ReaderInv, QueueInv, BodyInv, AwaitingReaders
<1> QED BY <1>1, <1>2, YieldKeeps, GeneratorAwaitsKeeps, AwaitedKeeps, ReadNowKeeps, ReadSuspendsKeeps,
           ReadResumesKeeps, DropNextKeeps, TakenAwayKeeps, TurnsKeep DEF Next

(* The core, the generator and its readers keep their types.                *)
THEOREM GeneratorTypes ==
    ASSUME ~DropRegistered
    PROVE  Spec => []TypeOK
<1>1. GenInv => TypeOK
  BY DEF GenInv
<1> QED BY <1>1, GeneratorInit, GeneratorInductive, PTL DEF Spec

(* Only coroutines that wait to be resumed are in the run queue, each once: *)
(* neither a reader nor the generator is resumed twice or after its frame   *)
(* is gone, also when the owner cancels or assigns over the MultiPromise.   *)
THEOREM GeneratorQueueSound ==
    ASSUME ~DropRegistered
    PROVE  Spec => []QueuedAreSuspended
<1>1. ASSUME GenInv PROVE QueuedAreSuspended
  BY <1>1 DEF GenInv, QueueInv, QueuedAreSuspended, QueueIsSound
<1> QED BY <1>1, GeneratorInit, GeneratorInductive, PTL DEF Spec

(* A read may begin whenever the program is allowed to read, without        *)
(* tripping an assertion of await_suspend or setHandle, and the reader that *)
(* waits is in the run queue or registered with a generator on its way.     *)
THEOREM GeneratorServesReads ==
    ASSUME ~DropRegistered
    PROVE  Spec => []ReadsAreServed
<1>1. ASSUME GenInv PROVE ReadsAreServed
  <2>1. AwaitAllowed
    BY <1>1 DEF AwaitAllowed, MayRead, GenInv, ReaderInv
  <2>2. ASSUME NEW r \in AwaitingReaders, r \notin Queued(resumable)
        PROVE  waiter = r /\ ~suspended /\ gen \in {"awaiting", "woken"}
    <3>1. waiter = r /\ r # Null
      BY <1>1, <2>2, GeneratorAssumption DEF GenInv, ReaderInv, AwaitingReaders
    <3> QED BY <1>1, <3>1 DEF GenInv, ReaderInv, BodyInv
  <2> QED BY <2>1, <2>2 DEF ReadsAreServed, ReaderNotStranded
<1> QED BY <1>1, GeneratorInit, GeneratorInductive, PTL DEF Spec

(* A read ends without a value only if the generator has ended: a reader    *)
(* that was woken for a value finds it.                                     *)
THEOREM EndIsTheEnd ==
    ASSUME ~DropRegistered
    PROVE  Spec => EndOnlyAtEnd
<1>1. ASSUME GenInv, NEW r \in Readers, ReadNow(r), ret' = "EAGAIN"
      PROVE  terminated
  <2>1. CASE ~Alive
    BY <1>1, <2>1 DEF ReadNow, MayRead, Alive, GenInv, BodyInv
  <2>2. CASE Alive /\ slot \in {Null, Exc}
    BY <1>1, <2>2 DEF ReadNow, ready, GenInv, BodyInv
  <2>3. CASE Alive /\ slot \in T
    BY <1>1, <2>3, AwaitResumes, GeneratorAssumption DEF ReadNow, GenInv
  <2> QED BY <1>1, <2>1, <2>2, <2>3 DEF GenInv, TypeOK
<1>2. ASSUME GenInv, NEW r \in Readers, ReadResumes(r), ret' = "EAGAIN"
      PROVE  terminated
  <2>1. gen \in {"yielded", "done"} /\ (terminated \/ slot \in T)
    BY <1>2, ReaderResumed DEF ReadResumes
  <2>2. CASE slot \in T
    BY <1>2, <2>1, <2>2, AwaitResumes, GeneratorAssumption DEF ReadResumes, GenInv, Alive
  <2> QED BY <2>1, <2>2
<1>3. GenInv /\ [Next]_vars
        => [\A r \in Readers : (ReadNow(r) \/ ReadResumes(r)) /\ ret' = "EAGAIN" => terminated]_vars
  BY <1>1, <1>2
<1> QED BY <1>3, GeneratorInit, GeneratorInductive, PTL DEF Spec, EndOnlyAtEnd

(* The slot and the answers of yield and read are those of a first-in       *)
(* first-out queue with one place: each value is read once and in order,    *)
(* and none is overwritten.                                                 *)
THEOREM GeneratorImplementsFifo ==
    ASSUME ~DropRegistered
    PROVE  Spec => ImplementsFifo
<1> USE GeneratorAssumption
<1> DEFINE unread == IF slot \in {Null, Exc} THEN <<>> ELSE <<slot>>
<1>1. Init => Values!Init
  BY DEF Init, Values!Init
<1>2. ASSUME GenInv, [Next]_vars PROVE [Values!Next]_Values!vars
  <2>1. ASSUME NEW value \in T, yield_value(value) PROVE Values!Next
    <3>1. slot = Null /\ slot' = value /\ ret' = "ok"
      BY <1>2, <2>1, BodyRuns DEF yield_value
    <3>2. unread = <<>> /\ unread' = <<value>>
      BY <3>1
    <3>3. Values!Put(value)
      BY <3>1, <3>2 DEF Values!Put
    <3> QED BY <3>3 DEF Values!Next
  <2>2. ASSUME await_resume PROVE [Values!Next]_Values!vars
    <3>1. CASE ~Alive /\ slot' = slot /\ ret' = ret
      BY <3>1 DEF Values!vars
    <3>2. CASE slot \in {Null, Exc} /\ slot' = slot /\ ret' = "EAGAIN"
      BY <3>2 DEF Values!Next, Values!Get
    <3>3. CASE slot \in T /\ slot' = Null /\ ret' = slot
      <4>1. unread = <<slot>> /\ unread' = <<>>
        BY <3>3
      <4>2. unread # <<>> /\ Head(unread) = slot /\ Tail(unread) = <<>>
        BY <4>1
      <4> QED BY <3>3, <4>1, <4>2 DEF Values!Next, Values!Get
    <3> QED BY <1>2, <2>2, <3>1, <3>2, <3>3, AwaitResumes DEF GenInv
  <2>3. CASE return_void \/ unhandled_exception
    <3>1. slot = Null /\ slot' \in {Null, Exc} /\ ret' = ret
      BY <1>2, <2>3, BodyRuns DEF return_void, unhandled_exception, Terminates
    <3> QED BY <3>1 DEF Values!vars
  <2>4. CASE slot' = slot /\ ret' = ret
    BY <2>4 DEF Values!vars
  <2>5. CASE GeneratorAwaits \/ AwaitedHappens \/ cancelGenerator \/ AssignOver \/ TakeTurns \/ UNCHANGED vars
    <3>1. slot' = slot /\ ret' = ret
      BY <2>5 DEF GeneratorAwaits, AwaitedHappens, cancelGenerator, AssignOver, TakeTurns, vars, coreVars
    <3> QED BY <2>4, <3>1
  <2>6. ASSUME NEW r \in Readers, ReadSuspends(r) \/ DropNext(r) PROVE [Values!Next]_Values!vars
    <3>1. slot' = slot /\ ret' = ret
      BY <2>6 DEF ReadSuspends, DropNext, coreVars
    <3> QED BY <2>4, <3>1
  <2>7. ASSUME NEW r \in Readers, ReadNow(r) \/ ReadResumes(r) PROVE [Values!Next]_Values!vars
    BY <2>2, <2>7 DEF ReadNow, ReadResumes
  <2> QED BY <1>2, <2>1, <2>3, <2>5, <2>6, <2>7 DEF Next
<1> QED BY <1>1, <1>2, GeneratorInit, GeneratorInductive, PTL DEF Spec, ImplementsFifo, Values!Spec
=============================================================================
