----------------------------- MODULE SocketProofs -----------------------------
(***************************************************************************)
(* Streams, listening sockets, UDP sockets and Curl: the pointers between  *)
(* handle, requests, awaiters and coroutines agree, for any number of      *)
(* calls, whatever peers, libuv and libcurl do, in the programs that keep  *)
(* to what StreamUse and UdpUse ask of them; and what this means for all   *)
(* components together.                                                    *)
(***************************************************************************)
EXTENDS Components, ComponentProofs

----------------------------------------------------------------------------
(* Stream                                                                  *)

CallStates == {"new", "suspended", "woken", "done", "gone"}

StreamStates ==
    [is: {"stream"}, open: BOOLEAN, uv: {"open", "closing", "freed"}, reading: BOOLEAN,
     data: Reads \cup {Null}, reader: Reads \cup {Null}, writer: Writes \cup {Null},
     call: [Calls -> CallStates], req: [Requests -> {"none", "uv", "leaked", "freed"}],
     link: [Requests -> BOOLEAN]]

\* reader_ is the read that is under way and the handle's data the awaiter of one
\* that is suspended; reading goes on for it, on an open stream.
ReadsOk(st) ==
    /\ \A r \in Reads : st.call[r] \in {"suspended", "woken"} <=> st.reader = r
    /\ \A r \in Reads : st.call[r] = "suspended" <=> st.data = r
    /\ st.reading <=> st.data # Null
    /\ st.data # Null => st.open

\* writer_ is under way; a request leads to its awaiter while the call is suspended,
\* and libuv has it, unless it refused a shutdown.
WritesOk(st) ==
    /\ st.writer # Null => st.call[st.writer] \in {"suspended", "woken"}
    /\ \A c \in Requests : st.link[c] <=> st.call[c] = "suspended"
    /\ \A c \in Requests : st.call[c] = "suspended" =>
          st.req[c] = "uv" \/ (c \in Shutdowns /\ st.req[c] = "leaked")

StreamQueueInv ==
    /\ resumable \in HandleQueue(Calls)
    /\ NoDuplicates(resumable)
    /\ \A c \in Queued(resumable) : s.call[c] \in {"woken", "done"}

StreamInv == s \in StreamStates /\ ReadsOk(s) /\ WritesOk(s) /\ StreamQueueInv

\* The program keeps the promise of a finished call as Stream's comment says.
StreamUse == "drop early" \notin Relaxed

LEMMA StreamInitHolds == StreamInit => StreamInv
<1> SUFFICES ASSUME StreamInit PROVE StreamInv
  OBVIOUS
<1> USE StreamAssumption
<1>1. resumable \in HandleQueue(Calls) /\ Queued(resumable) = {} /\ NoDuplicates(resumable)
  BY EmptyHolds DEF StreamInit, TurnInit
<1>2. s \in StreamStates
  BY DEF StreamInit, StreamStates, CallStates
<1>3. /\ s.reading = FALSE /\ s.data = Null /\ s.reader = Null /\ s.writer = Null
      /\ \A c \in Calls : s.call[c] = "new"
      /\ \A c \in Requests : s.link[c] = FALSE
  BY DEF StreamInit
<1> QED BY <1>1, <1>2, <1>3 DEF StreamInv, ReadsOk, WritesOk, StreamQueueInv, Calls, Requests

----------------------------------------------------------------------------
(* The ends of the calls                                                   *)

\* What ~InStreamAwaiter_ changes
LEMMA ReadOverIs ==
    ASSUME NEW st \in StreamStates, NEW r \in Reads, NEW how \in CallStates,
           NEW o, o = ReadOver(st, r, how)
    PROVE  /\ o \in StreamStates /\ o.call = [st.call EXCEPT ![r] = how]
           /\ o.reading = (st.reading /\ ~st.open) /\ o.data = IF st.open THEN Null ELSE st.data
           /\ o.reader = Null /\ o.writer = st.writer /\ o.open = st.open
           /\ o.req = st.req /\ o.link = st.link
<1>1. o.reading = (st.reading /\ ~st.open) /\ o.reading \in BOOLEAN
  BY DEF ReadOver, StreamStates
<1>2. o.data = (IF st.open THEN Null ELSE st.data) /\ o.data \in Reads \cup {Null}
  BY DEF ReadOver, StreamStates
<1>3. /\ o.call = [st.call EXCEPT ![r] = how] /\ o.reader = Null /\ o.writer = st.writer
      /\ o.open = st.open /\ o.req = st.req /\ o.link = st.link
  BY DEF ReadOver, StreamStates
<1>4. o \in StreamStates
  <2>1. CASE st.open
    <3>1. (st.reading /\ ~st.open) = FALSE
      BY <2>1
    <3>2. o = [st EXCEPT !.call[r] = how, !.reading = FALSE, !.data = Null, !.reader = Null]
      BY <2>1, <3>1 DEF ReadOver
    <3>3. [st EXCEPT !.call[r] = how, !.reading = FALSE, !.data = Null, !.reader = Null] \in StreamStates
      BY DEF StreamStates, Calls
    <3> QED BY <3>2, <3>3
  <2>2. CASE ~st.open
    <3>1. (st.reading /\ ~st.open) = st.reading
      BY <2>2 DEF StreamStates
    <3>2. o = [st EXCEPT !.call[r] = how, !.reading = st.reading, !.data = st.data, !.reader = Null]
      BY <2>2, <3>1 DEF ReadOver
    <3>3. o = [st EXCEPT !.call[r] = how, !.reader = Null]
      BY <3>2 DEF StreamStates
    <3>4. [st EXCEPT !.call[r] = how, !.reader = Null] \in StreamStates
      BY DEF StreamStates, Calls
    <3> QED BY <3>3, <3>4
  <2> QED BY <2>1, <2>2
<1> QED BY <1>1, <1>2, <1>3, <1>4

\* A change of the read r alone leaves the requests as they are.
LEMMA ReadApart ==
    ASSUME NEW st \in StreamStates, WritesOk(st), NEW r \in Reads, NEW how, NEW o,
           o.call = [st.call EXCEPT ![r] = how], o.writer = st.writer, o.req = st.req,
           o.link = st.link
    PROVE  WritesOk(o)
<1> USE StreamAssumption
<1>1. \A c \in Requests : o.call[c] = st.call[c]
  BY DEF StreamStates, Requests, Calls
<1>2. st.writer # Null => st.writer \in Requests
  BY DEF StreamStates, Requests
<1> QED BY <1>1, <1>2 DEF WritesOk

LEMMA ReadOverOk ==
    ASSUME NEW st \in StreamStates, ReadsOk(st), WritesOk(st), NEW r \in Reads,
           st.reader \in {r, Null}, NEW how \in {"done", "gone"}, NEW o, o = ReadOver(st, r, how)
    PROVE  /\ o \in StreamStates /\ ReadsOk(o) /\ WritesOk(o)
           /\ o.call = [st.call EXCEPT ![r] = how]
<1> USE StreamAssumption
<1>1. how \in CallStates
  BY DEF CallStates
<1>2. /\ o \in StreamStates /\ o.call = [st.call EXCEPT ![r] = how]
      /\ o.reading = (st.reading /\ ~st.open) /\ o.data = IF st.open THEN Null ELSE st.data
      /\ o.reader = Null /\ o.writer = st.writer /\ o.open = st.open
      /\ o.req = st.req /\ o.link = st.link
  BY <1>1, ReadOverIs
<1>3. /\ o.call[r] = how /\ \A q \in Reads \ {r} : o.call[q] = st.call[q]
  BY <1>2 DEF StreamStates, Calls
<1>4. \A q \in Reads : o.call[q] \notin {"suspended", "woken"}
  BY <1>3 DEF ReadsOk
<1>5. o.data = Null /\ o.reading = FALSE
  <2>1. CASE st.open
    BY <1>2, <2>1
  <2>2. CASE ~st.open
    BY <1>2, <2>2 DEF ReadsOk, StreamStates
  <2> QED BY <2>1, <2>2
<1>6. ReadsOk(o)
  BY <1>2, <1>4, <1>5 DEF ReadsOk
<1> QED BY <1>2, <1>6, ReadApart

\* A write or shutdown ends: its request leads nowhere, and writer_ to nobody or
\* to another write.
LEMMA RequestOverOk ==
    ASSUME NEW st \in StreamStates, ReadsOk(st), WritesOk(st), NEW w \in Requests,
           NEW how \in {"done", "gone"}, NEW o,
           \/ w \in Writes /\ o = WriteOver(st, w, how)
           \/ w \in Shutdowns /\ o = ShutdownOver(st, w, how)
    PROVE  /\ o \in StreamStates /\ ReadsOk(o) /\ WritesOk(o)
           /\ o.call = [st.call EXCEPT ![w] = how]
<1> USE StreamAssumption
<1> DEFINE link == st.link[w] /\ st.call[w] # "suspended"
<1>1. link = FALSE
  BY DEF WritesOk
<1>2. \E writer \in {Null, st.writer} :
         /\ o = [st EXCEPT !.call[w] = how, !.writer = writer, !.link[w] = link]
         /\ w \in Writes => writer = Null
  <2>1. CASE w \in Writes /\ o = WriteOver(st, w, how)
    BY <2>1 DEF WriteOver
  <2>2. CASE w \in Shutdowns /\ o = ShutdownOver(st, w, how)
    <3>1. o = [st EXCEPT !.call[w] = how, !.writer = st.writer, !.link[w] = link]
      BY <2>2 DEF ShutdownOver, StreamStates
    <3> QED BY <2>2, <3>1
  <2> QED BY <2>1, <2>2
<1>3. PICK writer \in {Null, st.writer} :
         /\ o = [st EXCEPT !.call[w] = how, !.writer = writer, !.link[w] = FALSE]
         /\ w \in Writes => writer = Null
  BY <1>1, <1>2
<1>4. o \in StreamStates
  BY <1>3 DEF StreamStates, CallStates, Calls, Requests
<1>5. /\ o.call = [st.call EXCEPT ![w] = how] /\ o.reading = st.reading /\ o.data = st.data
      /\ o.reader = st.reader /\ o.writer = writer /\ o.open = st.open
      /\ o.req = st.req /\ o.link = [st.link EXCEPT ![w] = FALSE]
  BY <1>3 DEF StreamStates
<1>6. /\ o.call[w] = how /\ o.link[w] = FALSE
      /\ \A c \in Calls \ {w} : o.call[c] = st.call[c]
      /\ \A c \in Requests \ {w} : o.link[c] = st.link[c]
  BY <1>5 DEF StreamStates, Calls, Requests
<1>7. w \notin Reads /\ Reads \subseteq Calls /\ Requests \subseteq Calls /\ Writes \subseteq Calls
  BY DEF Requests, Calls
<1>8. ReadsOk(o)
  BY <1>5, <1>6, <1>7 DEF ReadsOk
<1>9. writer # Null => writer \in Writes \ {w} /\ writer = st.writer
  BY <1>3 DEF StreamStates
<1>10. WritesOk(o)
  BY <1>5, <1>6, <1>7, <1>9 DEF WritesOk
<1> QED BY <1>4, <1>5, <1>8, <1>10

LEMMA OverOk ==
    ASSUME NEW st \in StreamStates, ReadsOk(st), WritesOk(st), NEW c \in Calls,
           c \in Reads => st.reader \in {c, Null}, NEW how \in {"done", "gone"}
    PROVE  LET o == Over(st, c, how)
           IN  o \in StreamStates /\ ReadsOk(o) /\ WritesOk(o) /\ o.call = [st.call EXCEPT ![c] = how]
<1> USE StreamAssumption
<1>1. CASE c \in Reads
  <2>1. Over(st, c, how) = ReadOver(st, c, how)
    BY <1>1 DEF Over
  <2> QED BY <1>1, <2>1, ReadOverOk
<1>2. CASE c \in Writes
  <2>1. Over(st, c, how) = WriteOver(st, c, how) /\ c \in Requests
    BY <1>2 DEF Over, Requests
  <2> QED BY <1>2, <2>1, RequestOverOk
<1>3. CASE c \in Shutdowns
  <2>1. Over(st, c, how) = ShutdownOver(st, c, how) /\ c \in Requests
    BY <1>3 DEF Over, Requests
  <2> QED BY <1>3, <2>1, RequestOverOk
<1> QED BY <1>1, <1>2, <1>3 DEF Calls

----------------------------------------------------------------------------
(* Calls                                                                   *)

\* A step of the program that takes the call c to another state
LEMMA CalledHolds ==
    ASSUME StreamInv, NEW c \in Calls, s.call[c] = "new", resumable' = resumable,
           s' \in StreamStates, NEW how, s'.call = [s.call EXCEPT ![c] = how]
    PROVE  StreamQueueInv'
<1>1. c \notin Queued(resumable)
  BY DEF StreamInv, StreamQueueInv
<1>2. \A d \in Calls \ {c} : s'.call[d] = s.call[d]
  BY DEF StreamInv, StreamStates
<1> QED BY <1>1, <1>2, QueuedType DEF StreamInv, StreamQueueInv

LEMMA ReadHolds ==
    ASSUME StreamInv, NEW r \in Reads, NEW fails \in BOOLEAN, Read(r, fails)
    PROVE  StreamInv'
<1> USE StreamAssumption
<1>1. /\ s.open /\ s.call[r] = "new" /\ resumable' = resumable
      /\ \A q \in Reads : s.call[q] \notin {"suspended", "woken"}
      /\ s' = IF fails THEN ReadOver(s, r, "done") ELSE AwaitRead(s, r)
  BY DEF Read, MayCall, Becomes
<1>2. s.reader = Null /\ r \in Calls
  BY <1>1 DEF StreamInv, StreamStates, ReadsOk, Calls
<1>3. CASE fails
  <2>1. s' = ReadOver(s, r, "done")
    BY <1>1, <1>3
  <2>2. /\ s' \in StreamStates /\ ReadsOk(s') /\ WritesOk(s')
        /\ s'.call = [s.call EXCEPT ![r] = "done"]
    BY <1>2, <2>1, ReadOverOk DEF StreamInv
  <2>3. StreamQueueInv'
    BY <1>1, <1>2, <2>2, CalledHolds
  <2> QED BY <2>2, <2>3 DEF StreamInv, ReadsOk, WritesOk
<1>4. CASE ~fails
  <2>1. s' = [s EXCEPT !.call[r] = "suspended", !.data = r, !.reader = r, !.reading = TRUE]
    BY <1>1, <1>4 DEF AwaitRead
  <2>2. /\ s' \in StreamStates
        /\ s'.call = [s.call EXCEPT ![r] = "suspended"] /\ s'.data = r /\ s'.reader = r
        /\ s'.reading = TRUE /\ s'.open = s.open /\ s'.writer = s.writer /\ s'.req = s.req
        /\ s'.link = s.link
    BY <2>1 DEF StreamInv, StreamStates, Calls, CallStates
  <2>3. s'.call[r] = "suspended" /\ \A q \in Reads \ {r} : s'.call[q] = s.call[q]
    BY <2>2 DEF StreamInv, StreamStates, Calls
  <2>4. ReadsOk(s')
    <3>1. s'.open /\ s'.reading /\ r # Null
      BY <1>1, <2>2
    <3> QED BY <1>1, <2>2, <2>3, <3>1 DEF ReadsOk
  <2>5. WritesOk(s')
    BY <2>2, ReadApart DEF StreamInv
  <2>6. StreamQueueInv'
    BY <1>1, <1>2, <2>2, CalledHolds
  <2> QED BY <2>2, <2>4, <2>5, <2>6 DEF StreamInv, ReadsOk, WritesOk
<1> QED BY <1>3, <1>4

\* A request is made: libuv has it, or has refused it.
LEMMA RequestedHolds ==
    ASSUME StreamInv, NEW w \in Requests, s.call[w] = "new", resumable' = resumable,
           NEW req \in {"uv", "leaked"}, NEW writer \in {s.writer, w},
           writer = w => w \in Writes, req = "leaked" => w \in Shutdowns,
           s' = [s EXCEPT !.call[w] = "suspended", !.link[w] = TRUE, !.req[w] = req,
                          !.writer = writer]
    PROVE  StreamInv'
<1> USE StreamAssumption
<1>1. w \in Calls /\ w \notin Reads /\ Reads \subseteq Calls /\ Requests \subseteq Calls
  BY DEF Requests, Calls
<1>2. writer \in Writes \cup {Null}
  BY DEF StreamInv, StreamStates
<1>3. s' \in StreamStates
  BY <1>1, <1>2 DEF StreamInv, StreamStates, CallStates
<1>4. /\ s'.call = [s.call EXCEPT ![w] = "suspended"] /\ s'.link = [s.link EXCEPT ![w] = TRUE]
      /\ s'.req = [s.req EXCEPT ![w] = req] /\ s'.writer = writer /\ s'.open = s.open
      /\ s'.data = s.data /\ s'.reader = s.reader /\ s'.reading = s.reading
  BY DEF StreamInv, StreamStates
<1>5. /\ s'.call[w] = "suspended" /\ s'.link[w] = TRUE /\ s'.req[w] = req
      /\ \A c \in Calls \ {w} : s'.call[c] = s.call[c]
      /\ \A c \in Requests \ {w} : s'.link[c] = s.link[c] /\ s'.req[c] = s.req[c]
  BY <1>1, <1>4 DEF StreamInv, StreamStates
<1>6. ReadsOk(s')
  BY <1>1, <1>4, <1>5 DEF StreamInv, ReadsOk
<1>7. WritesOk(s')
  <2>1. writer # Null => s'.call[writer] \in {"suspended", "woken"}
    <3>1. CASE writer = w
      BY <1>5, <3>1
    <3>2. CASE writer # w /\ writer # Null
      <4>1. writer = s.writer /\ writer \in Calls \ {w}
        BY <1>2, <3>2 DEF Calls
      <4> QED BY <1>5, <3>2, <4>1 DEF StreamInv, WritesOk
    <3> QED BY <3>1, <3>2
  <2>2. \A c \in Requests : s'.link[c] <=> s'.call[c] = "suspended"
    BY <1>1, <1>5 DEF StreamInv, WritesOk
  <2>3. \A c \in Requests : s'.call[c] = "suspended" =>
          s'.req[c] = "uv" \/ (c \in Shutdowns /\ s'.req[c] = "leaked")
    BY <1>1, <1>5 DEF StreamInv, WritesOk
  <2> QED BY <1>4, <2>1, <2>2, <2>3 DEF WritesOk
<1>8. StreamQueueInv'
  BY <1>1, <1>3, <1>4, CalledHolds
<1> QED BY <1>3, <1>6, <1>7, <1>8 DEF StreamInv, ReadsOk, WritesOk

LEMMA WriteHolds ==
    ASSUME StreamInv, NEW w \in Writes, NEW fails \in BOOLEAN, Write(w, fails)
    PROVE  StreamInv'
<1> USE StreamAssumption
<1> DEFINE leaked == [s EXCEPT !.req[w] = "leaked"]
<1>1. /\ s.call[w] = "new" /\ resumable' = resumable
      /\ s' = IF fails THEN WriteOver(leaked, w, "done")
              ELSE AwaitWrite([s EXCEPT !.req[w] = "uv", !.link[w] = TRUE], w)
  BY DEF Write, MayCall, Becomes
<1>2. w \in Requests /\ w \in Calls
  BY DEF Requests, Calls
<1>3. CASE fails
  <2>1. /\ leaked \in StreamStates /\ leaked.call = s.call /\ leaked.link = s.link
        /\ leaked.req = [s.req EXCEPT ![w] = "leaked"] /\ leaked.writer = s.writer
        /\ leaked.open = s.open /\ leaked.data = s.data /\ leaked.reader = s.reader
        /\ leaked.reading = s.reading
    BY <1>2 DEF StreamInv, StreamStates
  <2>2. s' = WriteOver(leaked, w, "done")
    BY <1>1, <1>3
  <2> HIDE DEF leaked
  <2>3. ReadsOk(leaked)
    BY <2>1 DEF StreamInv, ReadsOk
  <2>4. WritesOk(leaked)
    <3>1. \A c \in Requests \ {w} : leaked.req[c] = s.req[c]
      BY <2>1 DEF StreamInv, StreamStates
    <3> QED BY <1>1, <2>1, <3>1 DEF StreamInv, WritesOk
  <2>5. /\ s' \in StreamStates /\ ReadsOk(s') /\ WritesOk(s')
        /\ s'.call = [leaked.call EXCEPT ![w] = "done"]
    <3>1. \/ w \in Writes /\ s' = WriteOver(leaked, w, "done")
          \/ w \in Shutdowns /\ s' = ShutdownOver(leaked, w, "done")
      BY <2>2
    <3> QED BY <1>2, <2>1, <2>3, <2>4, <3>1, RequestOverOk
  <2>6. StreamQueueInv'
    BY <1>1, <1>2, <2>1, <2>5, CalledHolds
  <2> QED BY <2>5, <2>6 DEF StreamInv, ReadsOk, WritesOk
<1>4. CASE ~fails
  <2>1. s' = AwaitWrite([s EXCEPT !.req[w] = "uv", !.link[w] = TRUE], w)
    BY <1>1, <1>4
  <2>2. s' = [s EXCEPT !.call[w] = "suspended", !.link[w] = TRUE, !.req[w] = "uv", !.writer = w]
    BY <2>1 DEF AwaitWrite, StreamInv, StreamStates
  <2> QED BY <1>1, <1>2, <2>2, RequestedHolds
<1> QED BY <1>3, <1>4

LEMMA ShutdownHolds ==
    ASSUME StreamInv, NEW h \in Shutdowns, NEW fails \in BOOLEAN, Shutdown(h, fails)
    PROVE  StreamInv'
<1> DEFINE req == IF fails THEN "leaked" ELSE "uv"
<1>1. /\ s.call[h] = "new" /\ resumable' = resumable /\ h \in Requests
      /\ s' = [s EXCEPT !.call[h] = "suspended", !.link[h] = TRUE, !.req[h] = req]
  BY DEF Shutdown, MayCall, Becomes, Requests
<1>2. req \in {"uv", "leaked"}
  OBVIOUS
<1> HIDE DEF req
<1>3. s' = [s EXCEPT !.call[h] = "suspended", !.link[h] = TRUE, !.req[h] = req, !.writer = s.writer]
  BY <1>1 DEF StreamInv, StreamStates
<1>4. s.writer # h
  BY StreamAssumption DEF StreamInv, StreamStates
<1> QED BY <1>1, <1>2, <1>3, <1>4, RequestedHolds

\* The scheduler has popped the call c.
LEMMA CallPopped ==
    ASSUME StreamInv, NEW c \in Calls, Resumed(c)
    PROVE  /\ Popped \in HandleQueue(Calls) /\ NoDuplicates(Popped)
           /\ c \in Queued(resumable) /\ Queued(Popped) = Queued(resumable) \ {c}
<1>1. /\ c \in Queued(resumable) /\ Popped \in HandleQueue(Calls) /\ NoDuplicates(Popped)
      /\ Queued(resumable) = Queued(Popped) \cup {c} /\ c \notin Queued(Popped)
  BY ResumedHolds DEF Resumed, Popped, StreamInv, StreamQueueInv
<1> QED BY <1>1

\* A read that is under way is the registered reader.
LEMMA ReaderIs ==
    ASSUME StreamInv, NEW c \in Calls, s.call[c] \in {"suspended", "woken"}
    PROVE  c \in Reads => s.reader \in {c, Null}
BY DEF StreamInv, ReadsOk

\* The call c, under way until now, ends and leaves the run queue.
LEMMA CallOverHolds ==
    ASSUME StreamInv, NEW c \in Calls, s.call[c] \in {"suspended", "woken"},
           NEW how \in {"done", "gone"}, s' = Over(s, c, how),
           resumable' \in HandleQueue(Calls), NoDuplicates(resumable'),
           Queued(resumable') = Queued(resumable) \ {c}
    PROVE  StreamInv'
<1>1. /\ s' \in StreamStates /\ ReadsOk(s') /\ WritesOk(s')
      /\ s'.call = [s.call EXCEPT ![c] = how]
  BY ReaderIs, OverOk DEF StreamInv
<1>2. \A d \in Calls \ {c} : s'.call[d] = s.call[d]
  BY <1>1 DEF StreamInv, StreamStates
<1>3. StreamQueueInv'
  BY <1>2, QueuedType DEF StreamInv, StreamQueueInv
<1> QED BY <1>1, <1>3 DEF StreamInv, ReadsOk, WritesOk

LEMMA ResumesHolds ==
    ASSUME StreamInv, NEW c \in Calls, CallResumes(c) \/ SkipDone(c)
    PROVE  StreamInv'
<1>1. /\ Popped \in HandleQueue(Calls) /\ NoDuplicates(Popped)
      /\ Queued(Popped) = Queued(resumable) \ {c} /\ resumable' = Popped
  BY CallPopped DEF CallResumes, SkipDone, Becomes
<1>2. CASE CallResumes(c)
  <2>1. s.call[c] = "woken" /\ s' = Over(s, c, "done")
    BY <1>2 DEF CallResumes, Becomes
  <2> QED BY <1>1, <2>1, CallOverHolds
<1>3. CASE SkipDone(c)
  <2>1. s' = s
    BY <1>3 DEF SkipDone, Becomes
  <2> QED BY <1>1, <2>1 DEF StreamInv, ReadsOk, WritesOk, StreamQueueInv
<1> QED BY <1>2, <1>3

LEMMA DropCallHolds ==
    ASSUME StreamInv, StreamUse, NEW c \in Calls, DropCall(c)
    PROVE  StreamInv'
<1> USE StreamAssumption
<1>1. CASE s.call[c] = "done"
  <2>1. /\ resumable' = resumable /\ s' = [s EXCEPT !.call[c] = "gone"]
        /\ c \notin Queued(resumable)
    BY <1>1 DEF DropCall, Becomes, StreamUse
  <2>2. s' \in StreamStates
    BY <2>1 DEF StreamInv, StreamStates, CallStates
  <2>3. /\ s'.call = [s.call EXCEPT ![c] = "gone"] /\ s'.link = s.link
        /\ s'.req = s.req /\ s'.writer = s.writer /\ s'.open = s.open
        /\ s'.data = s.data /\ s'.reader = s.reader /\ s'.reading = s.reading
    BY <2>1 DEF StreamInv, StreamStates
  <2>4. s'.call[c] = "gone" /\ \A d \in Calls \ {c} : s'.call[d] = s.call[d]
    BY <2>3 DEF StreamInv, StreamStates
  <2>5. ReadsOk(s')
    BY <1>1, <2>3, <2>4 DEF StreamInv, ReadsOk, Calls
  <2>6. WritesOk(s')
    <3>1. s.writer # Null => s.writer \in Calls \ {c}
      BY <1>1 DEF StreamInv, WritesOk, StreamStates, Calls
    <3> QED BY <1>1, <2>3, <2>4, <3>1 DEF StreamInv, WritesOk, Calls, Requests
  <2>7. StreamQueueInv'
    BY <2>1, <2>4, QueuedType DEF StreamInv, StreamQueueInv
  <2> QED BY <2>2, <2>5, <2>6, <2>7 DEF StreamInv, ReadsOk, WritesOk
<1>2. CASE s.call[c] # "done"
  <2>1. /\ s.call[c] \in {"suspended", "woken"} /\ s' = Over(s, c, "gone")
        /\ resumable' = CancelAll(resumable, {c})
    BY <1>2 DEF DropCall, Becomes, Dropped
  <2>2. /\ resumable' \in HandleQueue(Calls) /\ NoDuplicates(resumable')
        /\ Queued(resumable') = Queued(resumable) \ {c}
    BY <2>1, CancelHolds DEF StreamInv, StreamQueueInv
  <2> QED BY <2>1, <2>2, CallOverHolds
<1> QED BY <1>1, <1>2

LEMMA StreamCloseHolds ==
    ASSUME StreamInv, StreamClose
    PROVE  StreamInv'
<1> USE StreamAssumption
<1> DEFINE st == [s EXCEPT !.open = FALSE, !.uv = "closing", !.reading = FALSE, !.data = Null]
           o == Over(st, st.reader, "done")
<1>1. resumable' = resumable /\ s' = Over(o, st.writer, "done")
  BY DEF StreamClose, Becomes, CloseResumes
<1>2. /\ st \in StreamStates /\ st.open = FALSE /\ st.reading = FALSE /\ st.data = Null
      /\ st.reader = s.reader /\ st.writer = s.writer /\ st.call = s.call
      /\ st.req = s.req /\ st.link = s.link
  BY DEF StreamInv, StreamStates
<1> HIDE DEF st
<1>3. WritesOk(st)
  BY <1>2 DEF StreamInv, WritesOk
<1>4. /\ o \in StreamStates /\ ReadsOk(o) /\ WritesOk(o) /\ o.writer = s.writer
      /\ \A c \in Calls : o.call[c] \in {s.call[c], "done"}
  <2>1. CASE s.reader = Null
    <3>1. o = st
      BY <1>2, <2>1 DEF Over
    <3>2. ReadsOk(st)
      BY <1>2, <2>1 DEF StreamInv, ReadsOk
    <3> QED BY <1>2, <1>3, <3>1, <3>2
  <2>2. CASE s.reader # Null
    <3> DEFINE r == s.reader
    <3>1. r \in Reads /\ "done" \in CallStates
      BY <2>2 DEF StreamInv, StreamStates, CallStates
    <3>2. o = ReadOver(st, r, "done")
      BY <1>2, <3>1 DEF Over
    <3> HIDE DEF o, r
    <3>3. /\ o \in StreamStates /\ o.call = [st.call EXCEPT ![r] = "done"]
          /\ o.reading = (st.reading /\ ~st.open) /\ o.data = IF st.open THEN Null ELSE st.data
          /\ o.reader = Null /\ o.writer = st.writer /\ o.open = st.open
          /\ o.req = st.req /\ o.link = st.link
      BY <1>2, <3>1, <3>2, ReadOverIs
    <3>4. o.reading = FALSE /\ o.data = Null
      BY <1>2, <3>3
    <3>5. o.call[r] = "done" /\ \A c \in Calls \ {r} : o.call[c] = s.call[c]
      BY <1>2, <3>1, <3>3 DEF StreamStates, Calls
    <3>6. \A q \in Reads : o.call[q] \notin {"suspended", "woken"}
      BY <3>5 DEF StreamInv, ReadsOk, Calls, r
    <3>7. ReadsOk(o)
      BY <3>3, <3>4, <3>6 DEF ReadsOk
    <3>8. WritesOk(o)
      BY <1>2, <1>3, <3>1, <3>3, ReadApart
    <3> QED BY <1>2, <3>3, <3>5, <3>7, <3>8
  <2> QED BY <2>1, <2>2
<1> HIDE DEF o
<1>5. /\ s' \in StreamStates /\ ReadsOk(s') /\ WritesOk(s')
      /\ \A c \in Calls : s'.call[c] \in {s.call[c], "done"}
  <2>1. CASE s.writer = Null
    <3>1. s' = o
      BY <1>1, <1>2, <2>1 DEF Over
    <3> QED BY <1>4, <3>1
  <2>2. CASE s.writer # Null
    <3> DEFINE w == s.writer
    <3>1. w \in Calls /\ w \notin Reads /\ s' = Over(o, w, "done")
      BY <1>1, <1>2, <2>2 DEF StreamInv, StreamStates, Calls
    <3> HIDE DEF w
    <3>2. /\ s' \in StreamStates /\ ReadsOk(s') /\ WritesOk(s')
          /\ s'.call = [o.call EXCEPT ![w] = "done"]
      BY <1>4, <3>1, OverOk
    <3>3. \A c \in Calls : s'.call[c] \in {o.call[c], "done"}
      BY <1>4, <3>1, <3>2 DEF StreamStates
    <3> QED BY <1>4, <3>2, <3>3
  <2> QED BY <2>1, <2>2
<1>6. StreamQueueInv'
  BY <1>1, <1>5, QueuedType DEF StreamInv, StreamQueueInv
<1> QED BY <1>5, <1>6 DEF StreamInv, ReadsOk, WritesOk

----------------------------------------------------------------------------
(* Callbacks                                                               *)

\* A callback wakes the call c.
LEMMA CallWoken ==
    ASSUME StreamInv, NEW c \in Calls, s.call[c] = "suspended",
           resumable' = Enqueue(resumable, c), s'.call = [s.call EXCEPT ![c] = "woken"]
    PROVE  StreamQueueInv'
<1>1. c \notin Queued(resumable) /\ Null \notin Calls
  BY StreamAssumption DEF StreamInv, StreamQueueInv, Calls
<1>2. /\ resumable' \in HandleQueue(Calls) /\ NoDuplicates(resumable')
      /\ Queued(resumable') = Queued(resumable) \cup {c}
  BY <1>1, EnqueueHolds DEF StreamInv, StreamQueueInv
<1>3. s'.call[c] = "woken" /\ \A d \in Calls \ {c} : s'.call[d] = s.call[d]
  BY DEF StreamInv, StreamStates
<1> QED BY <1>2, <1>3, QueuedType DEF StreamInv, StreamQueueInv

LEMMA OnReadHolds ==
    ASSUME StreamInv, onInStreamRead
    PROVE  StreamInv'
<1> USE StreamAssumption
<1> DEFINE r == s.data
<1>1. r \in Reads /\ s.call[r] = "suspended" /\ r \in Calls /\ r # Null
  BY DEF onInStreamRead, StreamInv, ReadsOk, StreamStates, Calls
<1>2. /\ resumable' = Enqueue(resumable, r)
      /\ s' = [s EXCEPT !.reading = FALSE, !.data = Null, !.call = [s.call EXCEPT ![r] = "woken"]]
  BY <1>1 DEF onInStreamRead, Becomes, Readied
<1>3. s.reader = r /\ \A q \in Reads \ {r} : s.call[q] \notin {"suspended", "woken"}
  BY <1>1 DEF StreamInv, ReadsOk
<1> HIDE DEF r
<1>4. s' \in StreamStates
  BY <1>1, <1>2 DEF StreamInv, StreamStates, CallStates
<1>5. /\ s'.call = [s.call EXCEPT ![r] = "woken"] /\ s'.data = Null /\ s'.reading = FALSE
      /\ s'.reader = s.reader /\ s'.open = s.open /\ s'.writer = s.writer
      /\ s'.req = s.req /\ s'.link = s.link
  BY <1>1, <1>2 DEF StreamInv, StreamStates
<1>6. s'.call[r] = "woken" /\ \A q \in Reads \ {r} : s'.call[q] = s.call[q]
  BY <1>1, <1>5 DEF StreamInv, StreamStates, Calls
<1>7. ReadsOk(s')
  BY <1>1, <1>3, <1>5, <1>6 DEF ReadsOk
<1>8. WritesOk(s')
  BY <1>1, <1>5, ReadApart DEF StreamInv
<1>9. StreamQueueInv'
  BY <1>1, <1>2, <1>5, CallWoken
<1> QED BY <1>4, <1>7, <1>8, <1>9 DEF StreamInv, ReadsOk, WritesOk

LEMMA OnRequestHolds ==
    ASSUME StreamInv, NEW c \in Requests, onRequestDone(c)
    PROVE  StreamInv'
<1> USE StreamAssumption
<1>1. c \in Calls /\ c \notin Reads /\ Reads \subseteq Calls /\ Requests \subseteq Calls
  BY DEF Requests, Calls
<1>2. CASE s.link[c]
  <2>1. /\ s.call[c] = "suspended" /\ resumable' = Enqueue(resumable, c)
        /\ s' = [s EXCEPT !.req[c] = "freed", !.link[c] = FALSE, !.call[c] = "woken"]
    BY <1>2 DEF onRequestDone, Becomes, Readied, StreamInv, WritesOk
  <2>2. s' \in StreamStates
    BY <1>1, <2>1 DEF StreamInv, StreamStates, CallStates
  <2>3. /\ s'.call = [s.call EXCEPT ![c] = "woken"] /\ s'.link = [s.link EXCEPT ![c] = FALSE]
        /\ s'.req = [s.req EXCEPT ![c] = "freed"] /\ s'.writer = s.writer /\ s'.open = s.open
        /\ s'.data = s.data /\ s'.reader = s.reader /\ s'.reading = s.reading
    BY <2>1 DEF StreamInv, StreamStates
  <2>4. /\ s'.call[c] = "woken" /\ s'.link[c] = FALSE
        /\ \A d \in Calls \ {c} : s'.call[d] = s.call[d]
        /\ \A d \in Requests \ {c} : s'.link[d] = s.link[d] /\ s'.req[d] = s.req[d]
    BY <1>1, <2>3 DEF StreamInv, StreamStates
  <2>5. ReadsOk(s')
    BY <1>1, <2>3, <2>4 DEF StreamInv, ReadsOk
  <2>6. WritesOk(s')
    <3>1. s.writer # Null => s.writer \in Calls
      BY DEF StreamInv, StreamStates, Calls
    <3> QED BY <1>1, <2>3, <2>4, <3>1 DEF StreamInv, WritesOk
  <2>7. StreamQueueInv'
    BY <1>1, <2>1, <2>3, CallWoken
  <2> QED BY <2>2, <2>5, <2>6, <2>7 DEF StreamInv, ReadsOk, WritesOk
<1>3. CASE ~s.link[c]
  <2>1. /\ s.call[c] # "suspended" /\ resumable' = resumable
        /\ s' = [s EXCEPT !.req[c] = "freed"]
    BY <1>3 DEF onRequestDone, Becomes, StreamInv, WritesOk
  <2>2. s' \in StreamStates
    BY <2>1 DEF StreamInv, StreamStates
  <2>3. /\ s'.call = s.call /\ s'.link = s.link
        /\ s'.req = [s.req EXCEPT ![c] = "freed"] /\ s'.writer = s.writer /\ s'.open = s.open
        /\ s'.data = s.data /\ s'.reader = s.reader /\ s'.reading = s.reading
    BY <2>1 DEF StreamInv, StreamStates
  <2>4. \A d \in Requests \ {c} : s'.req[d] = s.req[d]
    BY <2>3 DEF StreamInv, StreamStates
  <2>5. ReadsOk(s')
    BY <2>3 DEF StreamInv, ReadsOk
  <2>6. WritesOk(s')
    BY <2>1, <2>3, <2>4 DEF StreamInv, WritesOk
  <2> QED BY <2>1, <2>2, <2>3, <2>5, <2>6 DEF StreamInv, ReadsOk, WritesOk, StreamQueueInv
<1> QED BY <1>2, <1>3

LEMMA OnClosedHolds ==
    ASSUME StreamInv, onStreamClosed
    PROVE  StreamInv'
<1>1. s' = [s EXCEPT !.uv = "freed"] /\ resumable' = resumable
  BY DEF onStreamClosed, Becomes
<1>2. s' \in StreamStates
  BY <1>1 DEF StreamInv, StreamStates
<1>3. /\ s'.call = s.call /\ s'.link = s.link /\ s'.req = s.req /\ s'.writer = s.writer
      /\ s'.open = s.open /\ s'.data = s.data /\ s'.reader = s.reader /\ s'.reading = s.reading
  BY <1>1 DEF StreamInv, StreamStates
<1> QED BY <1>1, <1>2, <1>3 DEF StreamInv, ReadsOk, WritesOk, StreamQueueInv

----------------------------------------------------------------------------
(* The theorems                                                            *)

LEMMA StreamInductive ==
    ASSUME StreamUse
    PROVE  StreamInv /\ [StreamNext \/ TakeTurns]_vars => StreamInv'
<1> SUFFICES ASSUME StreamInv, [StreamNext \/ TakeTurns]_vars PROVE StreamInv'
  OBVIOUS
<1>1. CASE StreamNext
  BY <1>1, ReadHolds, WriteHolds, ShutdownHolds, ResumesHolds, DropCallHolds, StreamCloseHolds,
     OnReadHolds, OnRequestHolds, OnClosedHolds DEF StreamNext
<1>2. CASE TakeTurns
  <2>1. CASE UvRun
    <3>1. Queued(resumable) = {} /\ resumable' = <<>>
      BY <2>1, NoNextQueued DEF UvRun
    <3>2. <<>> \in HandleQueue(Calls) /\ Queued(<<>>) = {} /\ NoDuplicates(<<>>)
      BY EmptyHolds
    <3> QED BY <1>2, <3>1, <3>2 DEF TakeTurns, StreamInv, ReadsOk, WritesOk, StreamQueueInv
  <2>2. CASE RunAll
    BY <1>2, <2>2 DEF TakeTurns, RunAll, StreamInv, ReadsOk, WritesOk, StreamQueueInv
  <2> QED BY <1>2, <2>1, <2>2 DEF TakeTurns, Turn
<1>3. CASE UNCHANGED vars
  BY <1>3 DEF vars, turnVars, StreamInv, ReadsOk, WritesOk, StreamQueueInv
<1> QED BY <1>1, <1>2, <1>3

\* The stream, libuv's requests, the awaiters and the coroutines agree about who
\* waits for whom, wherever close(), callbacks, failures and drops fall: whoever is
\* suspended will be woken, a callback finds an awaiter that exists, and close()
\* resumes no coroutine that has ended (src/uvco/stream.cc).
THEOREM StreamAgrees ==
    ASSUME StreamUse
    PROVE  StreamSpec => []StreamPointersAgree
<1>1. StreamInv => StreamPointersAgree
  <2> SUFFICES ASSUME StreamInv PROVE StreamPointersAgree
    OBVIOUS
  <2> USE StreamAssumption
  <2>1. SuspendedIsServed
    <3> SUFFICES ASSUME NEW c \in Calls, s.call[c] = "suspended"
                 PROVE  IF c \in Reads
                        THEN s.open /\ s.reading /\ s.data = c /\ s.reader = c
                        ELSE s.link[c] /\ (s.req[c] = "uv" \/ (c \in Shutdowns /\ s.req[c] = "leaked"))
      BY DEF SuspendedIsServed
    <3>1. CASE c \in Reads
      BY <3>1 DEF StreamInv, ReadsOk
    <3>2. CASE c \notin Reads
      BY <3>2 DEF StreamInv, WritesOk, Calls, Requests
    <3> QED BY <3>1, <3>2
  <2>2. StreamCallbackFindsAwaiter
    BY DEF StreamCallbackFindsAwaiter, StreamInv, ReadsOk, WritesOk, StreamStates
  <2>3. CloseResumesLiving
    BY DEF CloseResumesLiving, StreamInv, ReadsOk, WritesOk, StreamStates
  <2> QED BY <2>1, <2>2, <2>3 DEF StreamPointersAgree
<1> QED BY <1>1, StreamInitHolds, StreamInductive, PTL DEF StreamSpec

\* Each coroutine in the run queue is there once and has a frame, also after
\* close() ran it to its end while it was queued (stream.cc:170-184).
THEOREM StreamQueuesLiving ==
    ASSUME StreamUse
    PROVE  StreamSpec => []StreamQueueSound
<1>1. StreamInv => StreamQueueSound
  BY QueuedType DEF StreamInv, StreamQueueInv, StreamQueueSound, QueueIsSound
<1> QED BY <1>1, StreamInitHolds, StreamInductive, PTL DEF StreamSpec

----------------------------------------------------------------------------
(* StreamServer                                                            *)

ListenerStates == {"new", "waiting", "woken", "yielded", "asked", "done", "failed", "gone"}

\* The entries of accepted_
Items == Nat

ServerStates ==
    [is: {"server"}, open: BOOLEAN, uv: {"open", "closing", "freed"}, listening: BOOLEAN,
     data: Listeners \cup {Null}, listener: [Listeners -> ListenerStates],
     accepted: Seq(Items), it: Nat, capacity: Nat, moved: BOOLEAN, stopped: BOOLEAN, arrived: Nat,
     taken: Seq(Items), lost: Nat, fault: {"none", "handle freed", "iterator"}]

Listens(st, u) == st.listener[u] \in {"waiting", "woken", "yielded", "asked"}

\* The handle of an open server leads to the one listener there is.  A listener
\* may outlive close(): it may even begin to wait then, but never with a
\* connection left over.
ListenInv(st) ==
    /\ \A u, v \in Listeners : Listens(st, u) /\ Listens(st, v) => u = v
    /\ st.open => st.uv = "open" /\ ~st.stopped /\ \A u \in Listeners : Listens(st, u) <=> st.data = u
    /\ st.data # Null => st.open
    /\ \A u \in Listeners :
         /\ Listens(st, u) => st.listening
         /\ st.listener[u] = "waiting" => st.accepted = <<>>
    /\ st.it <= Len(st.accepted)
    /\ st.fault = "none"

\* The run queue holds exactly the listeners that are on their way.
ServerQueueInv ==
    /\ resumable \in HandleQueue(Listeners)
    /\ NoDuplicates(resumable)
    /\ \A u \in Listeners : u \in Queued(resumable) <=> s.listener[u] \in {"woken", "asked"}

ServerInv == s \in ServerStates /\ ListenInv(s) /\ ServerQueueInv

\* Memory that is gone was used: the model ends here.
ServerBroke == s.is = "server" /\ s.fault # "none"

LEMMA ServerInitHolds == ServerInit => ServerInv
<1> SUFFICES ASSUME ServerInit PROVE ServerInv
  OBVIOUS
<1> USE ServerAssumption
<1>1. resumable \in HandleQueue(Listeners) /\ Queued(resumable) = {} /\ NoDuplicates(resumable)
  BY EmptyHolds DEF ServerInit, TurnInit
<1>2. s \in ServerStates
  BY DEF ServerInit, ServerStates, ListenerStates
<1>3. /\ s.open = TRUE /\ s.uv = "open" /\ s.stopped = FALSE /\ s.data = Null /\ s.accepted = <<>>
      /\ s.it = 0 /\ s.fault = "none" /\ \A u \in Listeners : s.listener[u] = "new"
  BY DEF ServerInit
<1>4. ListenInv(s)
  BY <1>3 DEF ListenInv, Listens
<1> QED BY <1>1, <1>2, <1>3, <1>4 DEF ServerInv, ServerQueueInv

LEMMA ServerFields ==
    ASSUME NEW st \in ServerStates
    PROVE  /\ st.accepted \in Seq(Items) /\ st.taken \in Seq(Items) /\ st.it \in Nat
           /\ st.lost \in Nat /\ st.arrived \in Nat /\ st.capacity \in Nat
           /\ Len(st.accepted) \in Nat
<1>1. st.accepted \in Seq(Items) /\ st.taken \in Seq(Items)
  BY DEF ServerStates
<1>2. st.it \in Nat /\ st.lost \in Nat /\ st.arrived \in Nat /\ st.capacity \in Nat
  BY DEF ServerStates
<1> QED BY <1>1, <1>2

\* The only listener, if any, is u.
LastListener(st, u) ==
    /\ \A v \in Listeners \ {u} : ~Listens(st, v)
    /\ st.fault = "none"

OpenOk(st) == st.open => st.uv = "open" /\ ~st.stopped

\* From st to o the listener u moves, and no other one.
Moves(st, o, u, how) ==
    o.listener[u] = how /\ \A v \in Listeners \ {u} : o.listener[v] = st.listener[v]

\* ~ConnectionAwaiter_
LEMMA ListenerOverOk ==
    ASSUME NEW st \in ServerStates, NEW u \in Listeners, NEW how \in {"done", "failed", "gone"},
           LastListener(st, u), NEW o, o = ListenerOver(st, u, how)
    PROVE  /\ o \in ServerStates /\ o.data = Null /\ o.open = st.open /\ o.taken = st.taken
           /\ o.accepted = <<>> /\ o.it = 0 /\ (st.uv # "freed" => o.fault = "none")
           /\ Moves(st, o, u, how) /\ \A v \in Listeners : ~Listens(o, v)
           /\ OpenOk(st) /\ o.fault = "none" => ListenInv(o)
<1> USE ServerAssumption
<1> DEFINE closed == Cardinality({i \in st.it + 1 .. Len(st.accepted) : st.accepted[i] # Failed})
<1>1. closed \in Nat
  <2> DEFINE all == st.it + 1 .. Len(st.accepted)
             some == {i \in all : st.accepted[i] # Failed}
  <2>1. IsFiniteSet(all)
    <3>1. st.it + 1 \in Int /\ Len(st.accepted) \in Int
      BY ServerFields
    <3> QED BY <3>1, FS_Interval
  <2>2. some \in SUBSET all
    OBVIOUS
  <2>3. IsFiniteSet(some)
    BY <2>1, <2>2, FS_Subset
  <2> QED BY <2>3, FS_CardinalityType
<1> DEFINE fault == IF st.uv = "freed" THEN "handle freed" ELSE st.fault
<1>8. fault \in {"none", "handle freed", "iterator"} /\ (st.uv # "freed" => fault = "none")
  BY DEF LastListener
<1> HIDE DEF closed
<1> DEFINE r == [st EXCEPT !.listener[u] = how, !.data = Null, !.lost = st.lost + closed,
                           !.accepted = <<>>, !.it = 0, !.fault = fault]
<1>2. o = r
  BY DEF ListenerOver, closed
<1> HIDE DEF fault
<1>3. r \in ServerStates
  <2> DEFINE lost == st.lost + closed
  <2>1. lost \in Nat /\ <<>> \in Seq(Items) /\ 0 \in Nat
    BY <1>1, ServerFields
  <2> HIDE DEF lost
  <2>2. [st EXCEPT !.listener[u] = how, !.data = Null, !.lost = lost, !.accepted = <<>>, !.it = 0,
                   !.fault = fault] \in ServerStates
    BY <1>8, <2>1 DEF ServerStates, ListenerStates
  <2> QED BY <2>2 DEF lost
<1>4. /\ r.listener = [st.listener EXCEPT ![u] = how] /\ r.data = Null /\ r.accepted = <<>>
      /\ r.it = 0 /\ r.fault = fault /\ r.open = st.open /\ r.uv = st.uv
      /\ r.stopped = st.stopped /\ r.taken = st.taken
  BY DEF ServerStates
<1> HIDE DEF r
<1>5. r.listener[u] = how /\ \A v \in Listeners \ {u} : r.listener[v] = st.listener[v]
  BY <1>4 DEF ServerStates
<1>6. \A v \in Listeners : ~Listens(r, v)
  BY <1>5 DEF Listens, LastListener
<1>7. ASSUME OpenOk(st), r.fault = "none" PROVE ListenInv(r)
  <2>1. r.open => r.uv = "open" /\ ~r.stopped
    BY <1>4, <1>7 DEF OpenOk
  <2>2. Len(<<>>) = 0
    OBVIOUS
  <2> QED BY <1>4, <1>6, <1>7, <2>1, <2>2 DEF ListenInv, Listens
<1> QED BY <1>2, <1>3, <1>4, <1>5, <1>6, <1>7, <1>8 DEF Moves

\* The for loop, also on a closed server
LEMMA YieldOk ==
    ASSUME NEW st \in ServerStates, ListenInv(st), NEW u \in Listeners, Listens(st, u),
           NEW o, o = YieldConnections(st, u)
    PROVE  /\ o \in ServerStates /\ (o.fault = "none" => ListenInv(o))
           /\ \E how \in {"waiting", "failed", "yielded"} : Moves(st, o, u, how)
<1> USE ServerAssumption
<1>1. /\ st.open => st.data = u /\ st.uv = "open" /\ ~st.stopped
      /\ st.data # Null => st.open
      /\ st.listening /\ st.fault = "none"
      /\ st.it <= Len(st.accepted) /\ \A v \in Listeners \ {u} : ~Listens(st, v)
  BY DEF ListenInv
<1>2. st.it \in Nat /\ Len(st.accepted) \in Nat /\ st.accepted \in Seq(Items)
  BY ServerFields
<1>3. CASE st.it = Len(st.accepted)
  <2>1. o = [st EXCEPT !.accepted = <<>>, !.it = 0, !.listener[u] = "waiting"]
    BY <1>3 DEF YieldConnections, Cleared, AwaitConnection, ServerStates
  <2>2. o \in ServerStates
    <3>1. <<>> \in Seq(Items) /\ 0 \in Nat
      OBVIOUS
    <3>2. [st EXCEPT !.accepted = <<>>, !.it = 0, !.listener[u] = "waiting"] \in ServerStates
      BY <3>1 DEF ServerStates, ListenerStates
    <3> QED BY <2>1, <3>2
  <2>3. /\ o.listener = [st.listener EXCEPT ![u] = "waiting"] /\ o.data = st.data
        /\ o.accepted = <<>> /\ o.it = 0 /\ o.fault = st.fault /\ o.open = st.open /\ o.uv = st.uv
        /\ o.stopped = st.stopped /\ o.listening = st.listening
    BY <2>1 DEF ServerStates
  <2>4. o.listener[u] = "waiting" /\ \A v \in Listeners \ {u} : o.listener[v] = st.listener[v]
    BY <2>3 DEF ServerStates
  <2>5. Listens(o, u) /\ \A v \in Listeners \ {u} : ~Listens(o, v)
    BY <1>1, <2>4 DEF Listens
  <2>6. \A v \in Listeners \ {u} : o.listener[v] # "waiting"
    BY <2>5 DEF Listens
  <2>7. /\ o.open => o.data = u /\ o.uv = "open" /\ ~o.stopped
        /\ o.data # Null => o.open
        /\ o.listening
    BY <1>1, <2>3
  <2>8. Len(<<>>) = 0
    OBVIOUS
  <2>9. ListenInv(o)
    BY <1>1, <2>3, <2>4, <2>5, <2>6, <2>7, <2>8 DEF ListenInv
  <2> QED BY <2>2, <2>3, <2>4, <2>9 DEF Moves
<1>4. CASE st.it # Len(st.accepted)
  <2> DEFINE next == st.accepted[st.it + 1]
             rest == [st EXCEPT !.it = st.it + 1]
  <2>1. o = IF next = Failed THEN ListenerOver(rest, u, "failed")
            ELSE [rest EXCEPT !.listener[u] = "yielded", !.taken = Append(rest.taken, next)]
    BY <1>4 DEF YieldConnections
  <2>2. next \in Items /\ st.it + 1 <= Len(st.accepted) /\ st.it + 1 \in Nat
    BY <1>1, <1>2, <1>4
  <2>7. rest \in ServerStates
    <3> DEFINE it == st.it + 1
    <3>1. it \in Nat
      BY <2>2
    <3> HIDE DEF it
    <3>2. [st EXCEPT !.it = it] \in ServerStates
      BY <3>1 DEF ServerStates
    <3> QED BY <3>2 DEF it
  <2>3. /\ rest \in ServerStates /\ rest.listener = st.listener /\ rest.uv = st.uv
        /\ rest.fault = st.fault /\ rest.open = st.open /\ rest.stopped = st.stopped
        /\ rest.it = st.it + 1 /\ rest.data = st.data /\ rest.accepted = st.accepted
        /\ rest.listening = st.listening /\ rest.taken = st.taken
    BY <2>7 DEF ServerStates
  <2> HIDE DEF next, rest
  <2>4. \A v \in Listeners \ {u} : ~Listens(rest, v)
    BY <1>1, <2>3 DEF Listens
  <2>5. CASE next = Failed
    <3>1. o = ListenerOver(rest, u, "failed")
      BY <2>1, <2>5
    <3>2. LastListener(rest, u) /\ OpenOk(rest)
      BY <1>1, <2>3, <2>4 DEF LastListener, OpenOk
    <3>3. /\ o \in ServerStates /\ (o.fault = "none" => ListenInv(o))
          /\ Moves(rest, o, u, "failed")
      BY <2>7, <3>1, <3>2, ListenerOverOk
    <3>4. Moves(st, o, u, "failed")
      BY <2>3, <3>3 DEF Moves
    <3> QED BY <2>3, <3>3, <3>4
  <2>6. CASE next # Failed
    <3> DEFINE taken == Append(rest.taken, next)
    <3>1. o = [rest EXCEPT !.listener[u] = "yielded", !.taken = taken]
      BY <2>1, <2>6
    <3>2. taken \in Seq(Items)
      BY <2>2, <2>3, ServerFields
    <3> HIDE DEF taken
    <3>3. [rest EXCEPT !.listener[u] = "yielded", !.taken = taken] \in ServerStates
      BY <2>3, <3>2 DEF ServerStates, ListenerStates
    <3>10. /\ o.listener = [rest.listener EXCEPT ![u] = "yielded"] /\ o.data = rest.data
           /\ o.accepted = rest.accepted /\ o.it = rest.it /\ o.fault = rest.fault
           /\ o.open = rest.open /\ o.uv = rest.uv /\ o.stopped = rest.stopped
           /\ o.listening = rest.listening
      BY <2>7, <3>1 DEF ServerStates
    <3>4. /\ o.listener = [st.listener EXCEPT ![u] = "yielded"] /\ o.data = st.data
          /\ o.accepted = st.accepted /\ o.it = st.it + 1 /\ o.fault = st.fault /\ o.open = st.open
          /\ o.uv = st.uv /\ o.stopped = st.stopped /\ o.listening = st.listening
      BY <2>3, <3>10
    <3>5. o.listener[u] = "yielded" /\ \A v \in Listeners \ {u} : o.listener[v] = st.listener[v]
      BY <3>4 DEF ServerStates
    <3>6. Listens(o, u) /\ \A v \in Listeners \ {u} : ~Listens(o, v)
      BY <1>1, <3>5 DEF Listens
    <3>7. \A v \in Listeners : o.listener[v] # "waiting"
      BY <3>5, <3>6 DEF Listens
    <3>8. /\ o.open => o.data = u /\ o.uv = "open" /\ ~o.stopped
          /\ o.data # Null => o.open
          /\ o.listening
      BY <1>1, <3>4
    <3>9. ListenInv(o)
      BY <1>1, <2>2, <3>4, <3>6, <3>7, <3>8 DEF ListenInv
    <3>11. Moves(st, o, u, "yielded")
      BY <3>5 DEF Moves
    <3> QED BY <3>1, <3>3, <3>4, <3>9, <3>11
  <2> QED BY <2>5, <2>6
<1> QED BY <1>3, <1>4

----------------------------------------------------------------------------
\* A step of the program on the listener u, which was not in the run queue
LEMMA ListenerMoves ==
    ASSUME ServerInv, NEW u \in Listeners, NEW how,
           Moves(s, s', u, how),
           resumable' \in HandleQueue(Listeners), NoDuplicates(resumable'),
           how \in {"woken", "asked"} => Queued(resumable') = Queued(resumable) \cup {u},
           how \notin {"woken", "asked"} => Queued(resumable') = Queued(resumable) \ {u}
    PROVE  ServerQueueInv'
<1>1. s'.listener[u] = how /\ \A v \in Listeners \ {u} : s'.listener[v] = s.listener[v]
  BY DEF Moves
<1>2. \A v \in Listeners : v \in Queued(resumable') <=> s'.listener[v] \in {"woken", "asked"}
  BY <1>1 DEF ServerInv, ServerQueueInv
<1> QED BY <1>2 DEF ServerQueueInv

LEMMA ListenHolds ==
    ASSUME ServerInv, NEW u \in Listeners, NEW fails \in BOOLEAN, Listen(u, fails)
    PROVE  ServerInv'
<1> USE ServerAssumption
<1> DEFINE st == [s EXCEPT !.accepted = <<>>, !.it = 0, !.capacity = Reserved, !.moved = FALSE,
                           !.stopped = FALSE, !.data = u]
<1>1. /\ Running /\ UNCHANGED phase /\ s.open /\ s.listener[u] = "new"
      /\ \A v \in Listeners : ~Listens(s, v)
      /\ resumable' = resumable
      /\ s' = IF fails THEN ListenerOver(st, u, "failed")
              ELSE AwaitConnection([st EXCEPT !.listening = TRUE], u)
  BY DEF Listen, Becomes, Listening, Listens
<1>2. st \in ServerStates
  <2>1. <<>> \in Seq(Items) /\ 0 \in Nat
    OBVIOUS
  <2> QED BY <2>1 DEF ServerInv, ServerStates
<1>3. /\ st.accepted = <<>> /\ st.it = 0 /\ st.stopped = FALSE /\ st.data = u
      /\ st.listener = s.listener /\ st.open = s.open /\ st.uv = s.uv /\ st.fault = s.fault
  BY DEF ServerInv, ServerStates
<1>4. s.uv = "open" /\ s.fault = "none"
  BY <1>1 DEF ServerInv, ListenInv
<1>5. u \notin Queued(resumable) /\ Queued(resumable) = Queued(resumable) \ {u}
      /\ resumable \in HandleQueue(Listeners) /\ NoDuplicates(resumable)
  BY <1>1 DEF ServerInv, ServerQueueInv
<1> HIDE DEF st
<1>6. CASE fails
  <2>1. s' = ListenerOver(st, u, "failed")
    BY <1>1, <1>6
  <2>2. LastListener(st, u) /\ OpenOk(st)
    BY <1>1, <1>3, <1>4 DEF Listens, LastListener, OpenOk
  <2>3. /\ s' \in ServerStates /\ ListenInv(s') /\ Moves(st, s', u, "failed")
    BY <1>2, <1>3, <1>4, <2>1, <2>2, ListenerOverOk
  <2>4. Moves(s, s', u, "failed")
    BY <1>3, <2>3 DEF Moves
  <2>5. ServerQueueInv'
    BY <1>1, <1>5, <2>4, ListenerMoves
  <2> QED BY <1>1, <2>3, <2>5 DEF ServerInv, ListenInv, Listens
<1>7. CASE ~fails
  <2>1. s' = AwaitConnection([st EXCEPT !.listening = TRUE], u)
    BY <1>1, <1>7
  <2>2. s' = [st EXCEPT !.listening = TRUE, !.listener[u] = "waiting"]
    BY <1>2, <2>1 DEF AwaitConnection, ServerStates
  <2>3. [st EXCEPT !.listening = TRUE, !.listener[u] = "waiting"] \in ServerStates
    BY <1>2 DEF ServerStates, ListenerStates
  <2>4. /\ s'.accepted = st.accepted /\ s'.it = st.it /\ s'.stopped = st.stopped /\ s'.data = st.data
        /\ s'.listener = [st.listener EXCEPT ![u] = "waiting"] /\ s'.open = st.open /\ s'.uv = st.uv
        /\ s'.fault = st.fault /\ s'.listening = TRUE
    BY <1>2, <2>2 DEF ServerStates
  <2>5. s'.listener[u] = "waiting" /\ \A v \in Listeners \ {u} : s'.listener[v] = s.listener[v]
    <3>1. s'.listener = [s.listener EXCEPT ![u] = "waiting"]
      BY <1>3, <2>4
    <3> QED BY <3>1 DEF ServerInv, ServerStates
  <2>6. Listens(s', u) /\ \A v \in Listeners \ {u} : ~Listens(s', v)
    BY <1>1, <2>5 DEF Listens
  <2>7. \A v \in Listeners \ {u} : s'.listener[v] # "waiting"
    BY <2>6 DEF Listens
  <2>8. s'.open /\ s'.listening /\ ~s'.stopped
    BY <1>1, <1>3, <2>4
  <2>9. Len(<<>>) = 0
    OBVIOUS
  <2>10. ListenInv(s')
    BY <1>3, <1>4, <2>4, <2>5, <2>6, <2>7, <2>8, <2>9 DEF ListenInv
  <2>11. ServerQueueInv'
    <3>1. Moves(s, s', u, "waiting")
      BY <2>5 DEF Moves
    <3> QED BY <1>1, <1>5, <3>1, ListenerMoves
  <2> QED BY <1>1, <2>2, <2>3, <2>10, <2>11 DEF ServerInv, ListenInv, Listens
<1> QED BY <1>6, <1>7

LEMMA AskConnectionHolds ==
    ASSUME ServerInv, NEW u \in Listeners, AskConnection(u)
    PROVE  ServerInv'
<1> USE ServerAssumption
<1>1. /\ Running /\ UNCHANGED phase /\ s.open /\ s.listener[u] = "yielded"
      /\ resumable' = Enqueue(resumable, u) /\ s' = [s EXCEPT !.listener[u] = "asked"]
  BY DEF AskConnection, Becomes, Readied
<1>2. /\ resumable' \in HandleQueue(Listeners) /\ NoDuplicates(resumable')
      /\ Queued(resumable') = Queued(resumable) \cup {u}
  <2>1. u \notin Queued(resumable)
    BY <1>1 DEF ServerInv, ServerQueueInv
  <2> QED BY <1>1, <2>1, EnqueueHolds DEF ServerInv, ServerQueueInv
<1>3. s' \in ServerStates
  BY <1>1 DEF ServerInv, ServerStates, ListenerStates
<1>4. /\ s'.accepted = s.accepted /\ s'.it = s.it /\ s'.stopped = s.stopped /\ s'.data = s.data
      /\ s'.listener = [s.listener EXCEPT ![u] = "asked"] /\ s'.open = s.open /\ s'.uv = s.uv
      /\ s'.fault = s.fault /\ s'.listening = s.listening
  BY <1>1 DEF ServerInv, ServerStates
<1>5. s'.listener[u] = "asked" /\ \A v \in Listeners \ {u} : s'.listener[v] = s.listener[v]
  BY <1>4 DEF ServerInv, ServerStates
<1>6. \A v \in Listeners : Listens(s', v) <=> Listens(s, v)
  BY <1>1, <1>5 DEF Listens
<1>7. s'.open
  BY <1>1, <1>4
<1>8. ListenInv(s')
  BY <1>4, <1>5, <1>6, <1>7 DEF ServerInv, ListenInv
<1>9. ServerQueueInv'
  <2>1. Moves(s, s', u, "asked")
    BY <1>5 DEF Moves
  <2> QED BY <1>1, <1>2, <2>1, ListenerMoves
<1> QED BY <1>1, <1>3, <1>8, <1>9 DEF ServerInv, ListenInv, Listens

LEMMA ListenerEndsHolds ==
    ASSUME ServerInv, NEW u \in Listeners, Listens(s, u),
           NEW how \in {"done", "failed", "gone"}, s' = ListenerOver(s, u, how),
           resumable' \in HandleQueue(Listeners), NoDuplicates(resumable'),
           Queued(resumable') = Queued(resumable) \ {u}
    PROVE  s' \in ServerStates /\ (ServerInv' \/ ServerBroke')
<1>1. LastListener(s, u) /\ OpenOk(s)
  BY DEF ServerInv, ListenInv, LastListener, OpenOk
<1>2. /\ s' \in ServerStates /\ (s'.fault = "none" => ListenInv(s')) /\ Moves(s, s', u, how)
  BY <1>1, ListenerOverOk DEF ServerInv
<1>3. ServerQueueInv'
  BY <1>2, ListenerMoves
<1>4. s'.is = "server"
  BY <1>2 DEF ServerStates
<1> QED BY <1>2, <1>3, <1>4 DEF ServerInv, ServerBroke, ListenInv, Listens

LEMMA ListenerResumesHolds ==
    ASSUME ServerInv, NEW u \in Listeners, ListenerResumes(u)
    PROVE  s' \in ServerStates /\ (ServerInv' \/ ServerBroke')
<1>1. /\ Popped \in HandleQueue(Listeners) /\ NoDuplicates(Popped)
      /\ Queued(resumable) = Queued(Popped) \cup {u} /\ u \notin Queued(Popped)
  BY ResumedHolds DEF ListenerResumes, Resumed, Popped, ServerInv, ServerQueueInv
<1>2. /\ Queued(Popped) = Queued(resumable) \ {u} /\ s.listener[u] \in {"woken", "asked"}
  BY <1>1 DEF ServerInv, ServerQueueInv
<1>3. resumable' = Popped /\ Listens(s, u)
  BY <1>2 DEF ListenerResumes, Becomes, Listens
<1>4. CASE s.listener[u] = "woken" /\ s.stopped
  <2>1. s' = ListenerOver(s, u, "done")
    BY <1>4 DEF ListenerResumes, Becomes, ConnectionAwaitResume
  <2> QED BY <1>1, <1>2, <1>3, <2>1, ListenerEndsHolds
<1>5. CASE s.listener[u] # "woken" /\ s.moved
  <2>1. s' = [s EXCEPT !.fault = "iterator"]
    BY <1>5 DEF ListenerResumes, Becomes
  <2> QED BY <2>1 DEF ServerInv, ServerStates, ServerBroke
<1>6. CASE ~(s.listener[u] = "woken" /\ s.stopped) /\ ~(s.listener[u] # "woken" /\ s.moved)
  <2>1. s' = YieldConnections(s, u)
    BY <1>6 DEF ListenerResumes, Becomes, ConnectionAwaitResume
  <2>3. /\ s' \in ServerStates /\ (s'.fault = "none" => ListenInv(s'))
        /\ \E how \in {"waiting", "failed", "yielded"} : Moves(s, s', u, how)
    BY <1>3, <2>1, YieldOk DEF ServerInv
  <2>4. PICK how \in {"waiting", "failed", "yielded"} : Moves(s, s', u, how)
    BY <2>3
  <2>5. ServerQueueInv'
    BY <1>1, <1>2, <1>3, <2>4, ListenerMoves
  <2>6. s'.is = "server"
    BY <2>3 DEF ServerStates
  <2> QED BY <2>3, <2>5, <2>6 DEF ServerInv, ServerBroke, ListenInv, Listens
<1> QED BY <1>4, <1>5, <1>6

LEMMA DropListenerHolds ==
    ASSUME ServerInv, NEW u \in Listeners, DropListener(u)
    PROVE  s' \in ServerStates /\ (ServerInv' \/ ServerBroke')
<1>1. /\ Listens(s, u) /\ resumable' = CancelAll(resumable, {u})
      /\ s' = ListenerOver(s, u, "gone")
  BY DEF DropListener, Becomes, Dropped, Listening, Listens
<1>2. /\ resumable' \in HandleQueue(Listeners) /\ NoDuplicates(resumable')
      /\ Queued(resumable') = Queued(resumable) \ {u}
  BY <1>1, CancelHolds DEF ServerInv, ServerQueueInv
<1> QED BY <1>1, <1>2, ListenerEndsHolds

LEMMA ServerCloseHolds ==
    ASSUME ServerInv, ServerClose
    PROVE  ServerInv'
<1> USE ServerAssumption
<1>1. /\ s.open /\ resumable' = resumable
      /\ s' = [Stop(s) EXCEPT !.open = FALSE, !.uv = "closing", !.data = Null]
  BY DEF ServerClose, Becomes
<1>2. /\ s.uv = "open" /\ s.fault = "none" /\ s \in ServerStates
      /\ \A u \in Listeners : Listens(s, u) <=> s.data = u
  BY <1>1 DEF ServerInv, ListenInv
<1>3. ASSUME NEW st \in ServerStates, Stop(s) = st
      PROVE  /\ s' \in ServerStates /\ s'.open = FALSE /\ s'.uv = "closing" /\ s'.data = Null
             /\ s'.listener = st.listener /\ s'.accepted = st.accepted /\ s'.it = st.it
             /\ s'.stopped = st.stopped /\ s'.listening = st.listening /\ s'.fault = st.fault
  BY <1>1, <1>3 DEF ServerStates
<1>4. CASE s.data = Null
  <2>1. Stop(s) = s
    BY <1>4 DEF Stop
  <2>2. \A u \in Listeners : ~Listens(s, u)
    BY <1>2, <1>4
  <2>3. \A u \in Listeners : ~Listens(s', u)
    BY <1>2, <1>3, <2>1, <2>2 DEF Listens
  <2>4. ListenInv(s')
    BY <1>2, <1>3, <2>1, <2>3 DEF ServerInv, ListenInv, Listens
  <2>5. ServerQueueInv'
    BY <1>1, <1>2, <1>3, <2>1 DEF ServerInv, ServerQueueInv
  <2> QED BY <1>1, <1>2, <1>3, <2>1, <2>4, <2>5 DEF ServerInv
<1>5. CASE s.data # Null
  <2> DEFINE u == s.data
             told == [s EXCEPT !.stopped = TRUE]
  <2>1. u \in Listeners
    BY <1>2, <1>5 DEF ServerStates
  <2>2. Listens(s, u) /\ \A v \in Listeners \ {u} : ~Listens(s, v)
    BY <1>2, <2>1
  <2>3. /\ told \in ServerStates /\ told.stopped = TRUE /\ told.listener = s.listener
        /\ told.uv = s.uv /\ told.fault = s.fault /\ told.accepted = s.accepted /\ told.it = s.it
        /\ told.listening = s.listening
    BY <1>2 DEF ServerStates
  <2>4. Stop(s) = IF s.listener[u] = "waiting" THEN ConnectionAwaitResume(told, u) ELSE told
    BY <1>5 DEF Stop
  <2> HIDE DEF u, told
  <2>5. CASE s.listener[u] = "waiting"
    <3> DEFINE o == ListenerOver(told, u, "done")
    <3>1. Stop(s) = o
      BY <2>3, <2>4, <2>5 DEF ConnectionAwaitResume
    <3>2. LastListener(told, u)
      BY <1>2, <2>2, <2>3 DEF LastListener, Listens
    <3>3. /\ o \in ServerStates /\ o.accepted = <<>> /\ o.it = 0 /\ o.fault = "none"
          /\ Moves(told, o, u, "done") /\ \A v \in Listeners : ~Listens(o, v)
      BY <1>2, <2>1, <2>3, <3>2, ListenerOverOk
    <3> HIDE DEF o
    <3>4. \A v \in Listeners : ~Listens(s', v)
      BY <1>3, <3>1, <3>3 DEF Listens
    <3>5. Len(<<>>) = 0
      OBVIOUS
    <3>8. /\ s'.open = FALSE /\ s'.data = Null /\ s'.accepted = <<>> /\ s'.it = 0
          /\ s'.fault = "none"
      BY <1>3, <3>1, <3>3
    <3>6. ListenInv(s')
      BY <3>4, <3>5, <3>8 DEF ListenInv, Listens
    <3>7. ServerQueueInv'
      <4>1. Moves(s, s', u, "done")
        BY <1>3, <2>3, <3>1, <3>3 DEF Moves
      <4>2. u \notin Queued(resumable) /\ Queued(resumable) = Queued(resumable) \ {u}
            /\ resumable \in HandleQueue(Listeners) /\ NoDuplicates(resumable)
        BY <2>1, <2>5 DEF ServerInv, ServerQueueInv
      <4> QED BY <1>1, <2>1, <4>1, <4>2, ListenerMoves
    <3> QED BY <1>1, <1>3, <3>1, <3>3, <3>6, <3>7 DEF ServerInv
  <2>6. CASE s.listener[u] # "waiting"
    <3>1. Stop(s) = told
      BY <2>4, <2>6
    <3>2. /\ s' \in ServerStates /\ s'.open = FALSE /\ s'.uv = "closing" /\ s'.data = Null
          /\ s'.listener = s.listener /\ s'.accepted = s.accepted /\ s'.it = s.it
          /\ s'.stopped = TRUE /\ s'.listening = s.listening /\ s'.fault = s.fault
      BY <1>3, <2>3, <3>1
    <3>3. \A v \in Listeners : Listens(s', v) <=> Listens(s, v)
      BY <3>2 DEF Listens
    <3>4. \A v \in Listeners : s.listener[v] # "waiting"
      BY <2>2, <2>6 DEF Listens
    <3>5. ListenInv(s')
      BY <3>2, <3>3, <3>4 DEF ServerInv, ListenInv
    <3>6. ServerQueueInv'
      BY <1>1, <3>2 DEF ServerInv, ServerQueueInv
    <3> QED BY <1>1, <3>2, <3>5, <3>6 DEF ServerInv
  <2> QED BY <2>5, <2>6
<1> QED BY <1>4, <1>5

----------------------------------------------------------------------------
(* Callbacks                                                               *)

LEMMA OnNewConnectionHolds ==
    ASSUME ServerInv, NEW item \in Items, onNewConnection(item)
    PROVE  ServerInv'
<1> USE ServerAssumption
<1> DEFINE u == s.data
           st == [s EXCEPT !.arrived = s.arrived + 1]
           full == Len(s.accepted) = s.capacity
<1>1. /\ s.uv = "open" /\ s \in ServerStates
      /\ resumable' = IF u # Null /\ s.listener[u] = "waiting" THEN Readied(u) ELSE resumable
      /\ s' = IF u = Null THEN st
              ELSE [st EXCEPT
                      !.accepted = Append(st.accepted, item),
                      !.capacity = IF full THEN 2 * st.capacity ELSE st.capacity,
                      !.moved = st.moved \/ (full /\ s.listener[u] = "yielded"),
                      !.listener[u] = IF st.listener[u] = "waiting" THEN "woken" ELSE st.listener[u]]
  BY DEF onNewConnection, Becomes, ServerInv
<1>2. /\ st \in ServerStates /\ st.listener = s.listener /\ st.open = s.open /\ st.uv = s.uv
      /\ st.listening = s.listening /\ st.data = s.data /\ st.accepted = s.accepted /\ st.it = s.it
      /\ st.stopped = s.stopped /\ st.fault = s.fault /\ st.capacity = s.capacity
  <2> DEFINE n == s.arrived + 1
  <2>1. n \in Nat
    BY <1>1, ServerFields
  <2> HIDE DEF n
  <2>2. [s EXCEPT !.arrived = n] \in ServerStates
    BY <1>1, <2>1 DEF ServerStates
  <2>3. st \in ServerStates
    BY <2>2 DEF n
  <2> QED BY <1>1, <2>3 DEF ServerStates
<1>3. full \in BOOLEAN
  OBVIOUS
<1> HIDE DEF st, full
<1>4. CASE u = Null
  <2>1. s' = st /\ resumable' = resumable
    BY <1>1, <1>4
  <2>2. ListenInv(s')
    BY <1>2, <2>1 DEF ServerInv, ListenInv, Listens
  <2>3. ServerQueueInv'
    BY <1>1, <1>2, <2>1 DEF ServerInv, ServerQueueInv
  <2> QED BY <1>2, <2>1, <2>2, <2>3 DEF ServerInv
<1>5. CASE u # Null
  <2> DEFINE accepted == Append(st.accepted, item)
             capacity == IF full THEN 2 * st.capacity ELSE st.capacity
             moved == st.moved \/ (full /\ s.listener[u] = "yielded")
             how == IF st.listener[u] = "waiting" THEN "woken" ELSE st.listener[u]
  <2>1. /\ u \in Listeners /\ s.open /\ Listens(s, u) /\ ~s.stopped /\ s.listening
        /\ \A v \in Listeners \ {u} : ~Listens(s, v)
    BY <1>1, <1>5 DEF ServerInv, ListenInv, ServerStates
  <2>3. /\ resumable' = IF s.listener[u] = "waiting" THEN Readied(u) ELSE resumable
        /\ s' = [st EXCEPT !.accepted = accepted, !.capacity = capacity, !.moved = moved,
                           !.listener[u] = how]
    BY <1>1, <1>5
  <2>4. accepted \in Seq(Items) /\ Len(accepted) = Len(s.accepted) + 1 /\ capacity \in Nat
    BY <1>2, ServerFields
  <2>5. how \in {"woken", "yielded", "asked"} /\ how \in ListenerStates
    BY <1>2, <2>1 DEF Listens, ListenerStates
  <2>6. moved \in BOOLEAN
    BY <1>2, <1>3 DEF ServerStates
  <2> HIDE DEF accepted, capacity, moved, u
  <2>14. how \in {"woken", "asked"} <=> s.listener[u] \in {"waiting", "woken", "asked"}
    BY <1>2, <2>1 DEF Listens
  <2> HIDE DEF how
  <2>7. s' \in ServerStates
    BY <1>2, <2>1, <2>3, <2>4, <2>5, <2>6 DEF ServerStates
  <2>8. /\ s'.listener = [st.listener EXCEPT ![u] = how] /\ s'.open = st.open /\ s'.uv = st.uv
        /\ s'.listening = st.listening /\ s'.data = st.data /\ s'.accepted = accepted
        /\ s'.it = st.it /\ s'.stopped = st.stopped /\ s'.fault = st.fault
    BY <1>2, <2>3 DEF ServerStates
  <2>9. s'.listener[u] = how /\ \A v \in Listeners \ {u} : s'.listener[v] = s.listener[v]
    <3>1. s'.listener = [s.listener EXCEPT ![u] = how]
      BY <1>2, <2>8
    <3>2. s.listener \in [Listeners -> ListenerStates]
      BY <1>1 DEF ServerStates
    <3> QED BY <2>1, <3>1, <3>2
  <2>10. \A v \in Listeners : Listens(s', v) <=> Listens(s, v)
    BY <2>1, <2>5, <2>9 DEF Listens
  <2>11. \A v \in Listeners : s'.listener[v] # "waiting"
    BY <2>1, <2>5, <2>9 DEF Listens
  <2>12. s'.it <= Len(s'.accepted)
    BY <1>1, <1>2, <2>4, <2>8, ServerFields DEF ServerInv, ListenInv
  <2>13. ListenInv(s')
    BY <1>2, <2>1, <2>8, <2>10, <2>11, <2>12 DEF ServerInv, ListenInv
  <2>15. /\ resumable' \in HandleQueue(Listeners) /\ NoDuplicates(resumable')
         /\ Queued(resumable') = IF s.listener[u] = "waiting" THEN Queued(resumable) \cup {u}
                                 ELSE Queued(resumable)
    <3>1. CASE s.listener[u] = "waiting"
      <4>1. u \notin Queued(resumable) /\ resumable' = Enqueue(resumable, u)
        BY <2>1, <2>3, <3>1 DEF ServerInv, ServerQueueInv, Readied
      <4> QED BY <2>1, <3>1, <4>1, EnqueueHolds DEF ServerInv, ServerQueueInv
    <3>2. CASE s.listener[u] # "waiting"
      BY <2>3, <3>2 DEF ServerInv, ServerQueueInv
    <3> QED BY <3>1, <3>2
  <2>16. \A v \in Listeners : v \in Queued(resumable') <=> s'.listener[v] \in {"woken", "asked"}
    BY <2>1, <2>9, <2>14, <2>15 DEF ServerInv, ServerQueueInv
  <2> QED BY <2>7, <2>13, <2>15, <2>16 DEF ServerInv, ServerQueueInv
<1> QED BY <1>4, <1>5

LEMMA OnServerClosedHolds ==
    ASSUME ServerInv, onServerClosed
    PROVE  ServerInv'
<1>1. s.uv = "closing" /\ s' = [s EXCEPT !.uv = "freed"] /\ resumable' = resumable
  BY DEF onServerClosed, Becomes
<1>2. ~s.open
  BY <1>1 DEF ServerInv, ListenInv
<1>3. s' \in ServerStates
  BY <1>1 DEF ServerInv, ServerStates
<1>4. /\ s'.listener = s.listener /\ s'.open = s.open /\ s'.listening = s.listening /\ s'.data = s.data
      /\ s'.accepted = s.accepted /\ s'.it = s.it /\ s'.stopped = s.stopped /\ s'.fault = s.fault
  BY <1>1 DEF ServerInv, ServerStates
<1>6. ListenInv(s')
  BY <1>2, <1>4 DEF ServerInv, ListenInv, Listens
<1> QED BY <1>1, <1>3, <1>4, <1>6 DEF ServerInv, ServerQueueInv

----------------------------------------------------------------------------
(* The theorems                                                            *)

LEMMA ServerStep ==
    ASSUME ServerInv, [ServerNext \/ TakeTurns]_vars
    PROVE  s' \in ServerStates /\ (ServerInv' \/ ServerBroke')
<1>1. CASE \E u \in Listeners, fails \in BOOLEAN : Listen(u, fails)
  BY <1>1, ListenHolds DEF ServerInv
<1>2. CASE \E u \in Listeners : AskConnection(u) \/ ListenerResumes(u) \/ DropListener(u)
  BY <1>2, AskConnectionHolds, ListenerResumesHolds, DropListenerHolds DEF ServerInv
<1>3. CASE ServerClose
  BY <1>3, ServerCloseHolds DEF ServerInv
<1>4. CASE onNewConnection(Failed) \/ onNewConnection(s.arrived + 1)
  <2>1. Failed \in Items /\ s.arrived + 1 \in Items
    BY ServerFields DEF ServerInv, Failed, Items
  <2> QED BY <1>4, <2>1, OnNewConnectionHolds DEF ServerInv
<1>5. CASE onServerClosed
  BY <1>5, OnServerClosedHolds DEF ServerInv
<1>6. CASE TakeTurns
  <2>1. /\ s' = s /\ resumable' \in HandleQueue(Listeners) /\ Queued(resumable') = Queued(resumable)
        /\ NoDuplicates(resumable')
    BY <1>6, TurnsHold DEF ServerInv, ServerQueueInv
  <2> QED BY <2>1 DEF ServerInv, ListenInv, Listens, ServerQueueInv
<1>7. CASE UNCHANGED vars
  BY <1>7 DEF vars, turnVars, ServerInv, ListenInv, Listens, ServerQueueInv
<1> QED BY <1>1, <1>2, <1>3, <1>4, <1>5, <1>6, <1>7 DEF ServerNext

\* After a fault the server takes no step.
LEMMA ServerBrokeStays ==
    ASSUME ServerBroke, [ServerNext \/ TakeTurns]_vars
    PROVE  ServerBroke'
<1>1. ~ServerNext
  BY DEF ServerBroke, ServerNext, IsServer, Listen, AskConnection, ListenerResumes, DropListener,
         ServerClose, onNewConnection, onServerClosed
<1>2. s' = s
  BY <1>1 DEF TakeTurns, vars
<1> QED BY <1>2 DEF ServerBroke

LEMMA ServerInductive ==
    (ServerInv \/ ServerBroke) /\ [ServerNext \/ TakeTurns]_vars => (ServerInv \/ ServerBroke)'
BY ServerStep, ServerBrokeStays

\* A listener that waits on an open server is woken by the next connection or by
\* close(), for the handle leads to it; and the handle never leads the callback to
\* an awaiter that is gone, in whatever order listening, arrivals, errors, drops and
\* close() come, for any number of them (stream_server_base_impl.cc:86-115, 123-141).
THEOREM ServerListens == ServerSpec => []ListenerServed
<1>1. ServerInv \/ ServerBroke => ListenerServed
  <2> SUFFICES ASSUME ServerInv PROVE ListenerServed
    BY DEF ServerBroke, ListenerServed, IsServer
  <2>1. \A u \in Listeners : Listening(u) <=> Listens(s, u)
    BY DEF Listening, Listens
  <2>2. s.data \in Listeners \cup {Null}
    BY DEF ServerInv, ServerStates
  <2>3. ASSUME NEW u \in Listeners, s.listener[u] = "waiting", s.open
        PROVE  s.listening /\ s.data = u /\ ~s.stopped /\ s.accepted = <<>>
    <3>1. Listens(s, u)
      BY <2>3 DEF Listens
    <3> QED BY <2>3, <3>1 DEF ServerInv, ListenInv
  <2>4. ASSUME s.data # Null
        PROVE  s.open /\ Listening(s.data)
    BY <2>1, <2>2, <2>4 DEF ServerInv, ListenInv
  <2> QED BY <2>3, <2>4 DEF ListenerServed
<1> QED BY <1>1, ServerInitHolds, ServerInductive, PTL DEF ServerSpec

\* Each listener in the run queue is there once and is suspended.
THEOREM ServerQueuesSuspended == ServerSpec => []ServerQueueSound
<1>1. ServerInv \/ ServerBroke => ServerQueueSound
  BY QueuedType DEF ServerInv, ServerBroke, IsServer, ServerQueueInv, ServerQueueSound, QueueIsSound
<1> QED BY <1>1, ServerInitHolds, ServerInductive, PTL DEF ServerSpec

----------------------------------------------------------------------------
(* The connections of a server                                             *)

\* What was yielded, and what is still to be yielded, are in the order of arrival.
ArrivalInv(st) ==
    /\ \A i \in 1 .. Len(st.taken) : st.taken[i] # Failed /\ st.taken[i] <= st.arrived
    /\ \A i, j \in 1 .. Len(st.taken) : i < j => st.taken[i] < st.taken[j]
    /\ \A i \in st.it + 1 .. Len(st.accepted) : st.accepted[i] <= st.arrived
    /\ \A i, j \in st.it + 1 .. Len(st.accepted) :
          i < j /\ st.accepted[i] # Failed /\ st.accepted[j] # Failed => st.accepted[i] < st.accepted[j]
    /\ \A i \in 1 .. Len(st.taken), j \in st.it + 1 .. Len(st.accepted) :
          st.accepted[j] # Failed => st.taken[i] < st.accepted[j]

\* What a step may do with the connections: nothing; it forgets those that were not
\* yielded; it yields the next one; another one, or an error, arrives; or it
\* arrives while nobody listens.
KeepsList(a, b) ==
    b.taken = a.taken /\ b.accepted = a.accepted /\ b.it = a.it /\ b.arrived = a.arrived
ForgetsList(a, b) ==
    b.taken = a.taken /\ b.accepted = <<>> /\ b.it = 0 /\ b.arrived = a.arrived
YieldsNext(a, b) ==
    /\ a.it < Len(a.accepted) /\ a.accepted[a.it + 1] # Failed
    /\ b.taken = Append(a.taken, a.accepted[a.it + 1])
    /\ b.accepted = a.accepted /\ b.it = a.it + 1 /\ b.arrived = a.arrived
AcceptsItem(a, b, item) ==
    b.taken = a.taken /\ b.accepted = Append(a.accepted, item) /\ b.it = a.it /\ b.arrived = a.arrived + 1
IgnoresItem(a, b) ==
    b.taken = a.taken /\ b.accepted = a.accepted /\ b.it = a.it /\ b.arrived = a.arrived + 1

ListStep(a, b) ==
    \/ KeepsList(a, b) \/ ForgetsList(a, b) \/ YieldsNext(a, b) \/ IgnoresItem(a, b)
    \/ AcceptsItem(a, b, Failed) \/ AcceptsItem(a, b, a.arrived + 1)

LEMMA ListStepOrders ==
    ASSUME NEW a \in ServerStates, NEW b \in ServerStates, a.it <= Len(a.accepted),
           ArrivalInv(a), ListStep(a, b)
    PROVE  ArrivalInv(b)
<1>1. /\ a.accepted \in Seq(Nat) /\ a.taken \in Seq(Nat) /\ a.it \in Nat /\ a.arrived \in Nat
      /\ Len(a.accepted) \in Nat /\ Len(a.taken) \in Nat
      /\ \A i \in 1 .. Len(a.accepted) : a.accepted[i] \in Nat
      /\ \A i \in 1 .. Len(a.taken) : a.taken[i] \in Nat
  <2>1. a.accepted \in Seq(Nat) /\ a.taken \in Seq(Nat) /\ a.it \in Nat /\ a.arrived \in Nat
    BY ServerFields DEF Items
  <2> QED BY <2>1
<1>2. CASE KeepsList(a, b)
  BY <1>2 DEF KeepsList, ArrivalInv
<1>3. CASE ForgetsList(a, b)
  <2>1. Len(<<>>) = 0
    OBVIOUS
  <2>2. b.it + 1 .. Len(b.accepted) = {}
    BY <1>3, <2>1 DEF ForgetsList
  <2> QED BY <1>3, <2>2 DEF ForgetsList, ArrivalInv
<1>4. CASE YieldsNext(a, b)
  <2> DEFINE x == a.accepted[a.it + 1]
  <2>1. /\ x \in Nat /\ x # Failed /\ x <= a.arrived
        /\ \A i \in 1 .. Len(a.taken) : a.taken[i] < x
        /\ \A j \in a.it + 2 .. Len(a.accepted) : a.accepted[j] # Failed => x < a.accepted[j]
    <3>1. a.it + 1 \in a.it + 1 .. Len(a.accepted) /\ a.it + 1 \in 1 .. Len(a.accepted) /\ x # Failed
      BY <1>1, <1>4 DEF YieldsNext
    <3>2. x \in Nat /\ x <= a.arrived /\ \A i \in 1 .. Len(a.taken) : a.taken[i] < x
      BY <1>1, <3>1 DEF ArrivalInv
    <3>3. \A j \in a.it + 2 .. Len(a.accepted) : j \in a.it + 1 .. Len(a.accepted) /\ a.it + 1 < j
      BY <1>1
    <3>4. \A j \in a.it + 2 .. Len(a.accepted) : a.accepted[j] # Failed => x < a.accepted[j]
      BY <3>1, <3>3 DEF ArrivalInv
    <3> QED BY <3>1, <3>2, <3>4
  <2> HIDE DEF x
  <2>2. /\ Len(b.taken) = Len(a.taken) + 1 /\ b.taken[Len(a.taken) + 1] = x
        /\ \A i \in 1 .. Len(a.taken) : b.taken[i] = a.taken[i]
    <3>1. b.taken = Append(a.taken, x)
      BY <1>4 DEF YieldsNext, x
    <3> QED BY <1>1, <2>1, <3>1
  <2>3. b.accepted = a.accepted /\ b.it = a.it + 1 /\ b.arrived = a.arrived
    BY <1>4 DEF YieldsNext
  <2>4. \A i \in 1 .. Len(b.taken) : i \in 1 .. Len(a.taken) \/ i = Len(a.taken) + 1
    BY <1>1, <2>2
  <2>5. \A i \in 1 .. Len(b.taken) : b.taken[i] # Failed /\ b.taken[i] <= b.arrived
    BY <2>1, <2>2, <2>3, <2>4 DEF ArrivalInv
  <2>6. ASSUME NEW i \in 1 .. Len(b.taken), NEW j \in 1 .. Len(b.taken), i < j
        PROVE  b.taken[i] < b.taken[j]
    <3>1. i \in 1 .. Len(a.taken)
      BY <1>1, <2>2, <2>6
    <3>2. CASE j \in 1 .. Len(a.taken)
      BY <2>2, <2>6, <3>1, <3>2 DEF ArrivalInv
    <3>3. CASE j = Len(a.taken) + 1
      BY <2>1, <2>2, <3>1, <3>3
    <3> QED BY <2>4, <3>2, <3>3
  <2>7. \A j \in b.it + 1 .. Len(b.accepted) :
          j \in a.it + 1 .. Len(a.accepted) /\ j \in a.it + 2 .. Len(a.accepted)
    BY <1>1, <2>3
  <2>8. \A i \in 1 .. Len(b.taken), j \in b.it + 1 .. Len(b.accepted) :
          b.accepted[j] # Failed => b.taken[i] < b.accepted[j]
    BY <2>1, <2>2, <2>3, <2>4, <2>7 DEF ArrivalInv
  <2> QED BY <2>3, <2>5, <2>6, <2>7, <2>8 DEF ArrivalInv
<1>5. CASE IgnoresItem(a, b)
  <2>1. \A n \in Nat : n <= a.arrived => n <= b.arrived
    BY <1>1, <1>5 DEF IgnoresItem
  <2>2. \A i \in a.it + 1 .. Len(a.accepted) : a.accepted[i] \in Nat
    BY <1>1
  <2> QED BY <1>1, <1>5, <2>1, <2>2 DEF IgnoresItem, ArrivalInv
<1>6. ASSUME NEW item \in {Failed, a.arrived + 1}, AcceptsItem(a, b, item) PROVE ArrivalInv(b)
  <2>1. item \in Nat /\ item <= a.arrived + 1 /\ (item # Failed => item = a.arrived + 1)
    BY <1>1 DEF Failed
  <2>2. /\ Len(b.accepted) = Len(a.accepted) + 1 /\ b.accepted[Len(a.accepted) + 1] = item
        /\ \A i \in 1 .. Len(a.accepted) : b.accepted[i] = a.accepted[i]
    <3>1. b.accepted = Append(a.accepted, item)
      BY <1>6 DEF AcceptsItem
    <3> QED BY <1>1, <2>1, <3>1
  <2>3. b.taken = a.taken /\ b.it = a.it /\ b.arrived = a.arrived + 1
    BY <1>6 DEF AcceptsItem
  <2>4. ASSUME NEW j \in b.it + 1 .. Len(b.accepted)
        PROVE  \/ j \in a.it + 1 .. Len(a.accepted) /\ b.accepted[j] = a.accepted[j]
                  /\ a.accepted[j] \in Nat /\ a.accepted[j] <= a.arrived
               \/ j = Len(a.accepted) + 1 /\ b.accepted[j] = item
    BY <1>1, <2>2, <2>3 DEF ArrivalInv
  <2>5. \A i \in 1 .. Len(b.taken) : b.taken[i] # Failed /\ b.taken[i] <= b.arrived
    <3>1. \A x \in Nat : x <= a.arrived => x <= b.arrived
      BY <1>1, <2>3
    <3>2. \A i \in 1 .. Len(a.taken) : a.taken[i] \in Nat /\ a.taken[i] # Failed /\ a.taken[i] <= a.arrived
      BY <1>1 DEF ArrivalInv
    <3>3. \A i \in 1 .. Len(a.taken) : a.taken[i] # Failed /\ a.taken[i] <= b.arrived
      BY <3>1, <3>2
    <3> QED BY <2>3, <3>3
  <2>6. \A j \in b.it + 1 .. Len(b.accepted) : b.accepted[j] <= b.arrived
    <3>1. \A x \in Nat : x <= a.arrived => x <= b.arrived
      BY <1>1, <2>3
    <3>2. item <= b.arrived
      BY <2>1, <2>3
    <3> QED BY <2>4, <3>1, <3>2
  <2>7. ASSUME NEW i \in b.it + 1 .. Len(b.accepted), NEW j \in b.it + 1 .. Len(b.accepted),
               i < j, b.accepted[i] # Failed, b.accepted[j] # Failed
        PROVE  b.accepted[i] < b.accepted[j]
    <3>1. i \in a.it + 1 .. Len(a.accepted) /\ b.accepted[i] = a.accepted[i] /\ a.accepted[i] \in Nat
          /\ a.accepted[i] <= a.arrived
      BY <1>1, <2>2, <2>3, <2>4, <2>7
    <3>2. CASE j \in a.it + 1 .. Len(a.accepted) /\ b.accepted[j] = a.accepted[j]
      BY <2>7, <3>1, <3>2 DEF ArrivalInv
    <3>3. CASE j = Len(a.accepted) + 1 /\ b.accepted[j] = item
      BY <1>1, <2>1, <2>7, <3>1, <3>3
    <3> QED BY <2>4, <3>2, <3>3
  <2>8. ASSUME NEW i \in 1 .. Len(b.taken), NEW j \in b.it + 1 .. Len(b.accepted), b.accepted[j] # Failed
        PROVE  b.taken[i] < b.accepted[j]
    <3>1. i \in 1 .. Len(a.taken) /\ b.taken[i] = a.taken[i] /\ a.taken[i] \in Nat
          /\ a.taken[i] <= a.arrived
      BY <1>1, <2>3 DEF ArrivalInv
    <3>2. CASE j \in a.it + 1 .. Len(a.accepted) /\ b.accepted[j] = a.accepted[j]
      BY <2>8, <3>1, <3>2 DEF ArrivalInv
    <3>3. CASE j = Len(a.accepted) + 1 /\ b.accepted[j] = item
      BY <1>1, <2>1, <2>8, <3>1, <3>3
    <3> QED BY <2>4, <3>2, <3>3
  <2> QED BY <2>3, <2>5, <2>6, <2>7, <2>8, <1>1 DEF ArrivalInv
<1> QED BY <1>2, <1>3, <1>4, <1>5, <1>6 DEF ListStep

\* ~ConnectionAwaiter_ forgets, the for loop yields, or clears the list.
LEMMA OverForgets ==
    ASSUME NEW st \in ServerStates, NEW u \in Listeners, NEW how
    PROVE  ForgetsList(st, ListenerOver(st, u, how))
BY DEF ServerStates, ListenerOver, ForgetsList

LEMMA YieldMoves ==
    ASSUME NEW st \in ServerStates, NEW u \in Listeners, st.it <= Len(st.accepted)
    PROVE  ListStep(st, YieldConnections(st, u))
<1> DEFINE o == YieldConnections(st, u)
           next == st.accepted[st.it + 1]
           rest == [st EXCEPT !.it = st.it + 1]
<1>1. CASE st.it = Len(st.accepted)
  <2>1. ForgetsList(st, o)
    BY <1>1 DEF YieldConnections, Cleared, AwaitConnection, ForgetsList, ServerStates
  <2> QED BY <2>1 DEF ListStep
<1>2. CASE st.it # Len(st.accepted) /\ next = Failed
  <2>1. rest \in ServerStates /\ rest.taken = st.taken /\ rest.arrived = st.arrived
    <3> DEFINE it == st.it + 1
    <3>1. it \in Nat
      BY ServerFields
    <3> HIDE DEF it
    <3>2. [st EXCEPT !.it = it] \in ServerStates /\ [st EXCEPT !.it = it].taken = st.taken
          /\ [st EXCEPT !.it = it].arrived = st.arrived
      BY <3>1 DEF ServerStates
    <3> QED BY <3>2 DEF it
  <2>2. o = ListenerOver(rest, u, "failed")
    BY <1>2 DEF YieldConnections
  <2>3. ForgetsList(rest, o)
    BY <2>1, <2>2, OverForgets
  <2> QED BY <2>1, <2>3 DEF ForgetsList, ListStep
<1>3. CASE st.it # Len(st.accepted) /\ next # Failed
  <2>1. o = [rest EXCEPT !.listener[u] = "yielded", !.taken = Append(rest.taken, next)]
    BY <1>3 DEF YieldConnections
  <2>2. /\ o.taken = Append(st.taken, next) /\ o.accepted = st.accepted /\ o.it = st.it + 1
        /\ o.arrived = st.arrived
    BY <2>1 DEF ServerStates
  <2>3. st.it < Len(st.accepted)
    BY <1>3, ServerFields
  <2> QED BY <1>3, <2>2, <2>3 DEF YieldsNext, ListStep
<1> QED BY <1>1, <1>2, <1>3

LEMMA ServerListSteps ==
    ASSUME ServerInv, [ServerNext \/ TakeTurns]_vars
    PROVE  ListStep(s, s')
<1>1. s \in ServerStates /\ s.it <= Len(s.accepted)
  BY DEF ServerInv, ListenInv
<1>2. ASSUME NEW u \in Listeners, NEW fails \in BOOLEAN, Listen(u, fails) PROVE ListStep(s, s')
  <2> DEFINE st == [s EXCEPT !.accepted = <<>>, !.it = 0, !.capacity = Reserved, !.moved = FALSE,
                             !.stopped = FALSE, !.data = u]
  <2>1. st \in ServerStates
    <3>1. <<>> \in Seq(Items) /\ 0 \in Nat
      OBVIOUS
    <3> QED BY <1>1, <3>1, ServerAssumption DEF ServerStates
  <2>2. ForgetsList(s, st)
    BY <1>1 DEF ServerStates, ForgetsList
  <2>3. s' = IF fails THEN ListenerOver(st, u, "failed")
             ELSE AwaitConnection([st EXCEPT !.listening = TRUE], u)
    BY <1>2 DEF Listen, Becomes
  <2> HIDE DEF st
  <2>4. CASE fails
    <3>1. ForgetsList(st, s')
      BY <2>1, <2>3, <2>4, OverForgets
    <3> QED BY <2>2, <3>1 DEF ForgetsList, ListStep
  <2>5. CASE ~fails
    <3>1. KeepsList(st, s')
      BY <2>1, <2>3, <2>5 DEF AwaitConnection, KeepsList, ServerStates
    <3> QED BY <2>2, <3>1 DEF KeepsList, ForgetsList, ListStep
  <2> QED BY <2>4, <2>5
<1>3. ASSUME NEW u \in Listeners, AskConnection(u) PROVE ListStep(s, s')
  <2>1. KeepsList(s, s')
    BY <1>1, <1>3 DEF AskConnection, Becomes, KeepsList, ServerStates
  <2> QED BY <2>1 DEF ListStep
<1>4. ASSUME NEW u \in Listeners, ListenerResumes(u) PROVE ListStep(s, s')
  <2>1. \/ s' = ListenerOver(s, u, "done") \/ s' = YieldConnections(s, u)
        \/ s' = [s EXCEPT !.fault = "iterator"]
    BY <1>4 DEF ListenerResumes, Becomes, ConnectionAwaitResume
  <2>2. ASSUME s' = [s EXCEPT !.fault = "iterator"] PROVE KeepsList(s, s')
    BY <1>1, <2>2 DEF KeepsList, ServerStates
  <2> QED BY <1>1, <2>1, <2>2, OverForgets, YieldMoves DEF ListStep
<1>5. ASSUME NEW u \in Listeners, DropListener(u) PROVE ListStep(s, s')
  <2>1. s' = ListenerOver(s, u, "gone")
    BY <1>5 DEF DropListener, Becomes
  <2> QED BY <1>1, <2>1, OverForgets DEF ListStep
<1>6. CASE ServerClose
  <2> DEFINE st == Stop(s)
  <2>1. s' = [st EXCEPT !.open = FALSE, !.uv = "closing", !.data = Null]
    BY <1>6 DEF ServerClose, Becomes
  <2>2. CASE s.data = Null \/ s.listener[s.data] # "waiting"
    <3>1. st = s \/ st = [s EXCEPT !.stopped = TRUE]
      BY <2>2 DEF Stop
    <3>2. KeepsList(s, s')
      BY <1>1, <2>1, <3>1 DEF KeepsList, ServerStates
    <3> QED BY <3>2 DEF ListStep
  <2>3. CASE s.data # Null /\ s.listener[s.data] = "waiting"
    <3> DEFINE told == [s EXCEPT !.stopped = TRUE]
               u == s.data
    <3>1. told \in ServerStates /\ told.stopped = TRUE /\ KeepsList(s, told) /\ u \in Listeners
      BY <1>1, <2>3 DEF ServerStates, KeepsList
    <3>2. st = ListenerOver(told, u, "done")
      BY <2>3, <3>1 DEF Stop, ConnectionAwaitResume
    <3>3. LastListener(told, u)
      <4>1. told.listener = s.listener /\ told.uv = s.uv /\ told.fault = s.fault
        BY <1>1 DEF ServerStates
      <4>2. Listens(s, u)
        BY <2>3 DEF Listens
      <4> QED BY <1>6, <3>1, <4>1, <4>2 DEF ServerInv, ListenInv, LastListener, Listens, ServerClose
    <3>4. st \in ServerStates
      BY <3>1, <3>2, <3>3, ListenerOverOk
    <3>5. ForgetsList(told, st)
      BY <3>1, <3>2, OverForgets
    <3> HIDE DEF told, st
    <3>6. KeepsList(st, s')
      BY <2>1, <3>4 DEF KeepsList, ServerStates
    <3> QED BY <3>1, <3>5, <3>6 DEF KeepsList, ForgetsList, ListStep
  <2> QED BY <2>2, <2>3
<1>7. ASSUME NEW item, onNewConnection(item), item = Failed \/ item = s.arrived + 1
      PROVE  ListStep(s, s')
  <2>1. IgnoresItem(s, s') \/ AcceptsItem(s, s', item)
    BY <1>1, <1>7 DEF onNewConnection, Becomes, IgnoresItem, AcceptsItem, ServerStates
  <2> QED BY <1>7, <2>1 DEF ListStep
<1>8. CASE onServerClosed
  <2>1. KeepsList(s, s')
    BY <1>1, <1>8 DEF onServerClosed, Becomes, KeepsList, ServerStates
  <2> QED BY <2>1 DEF ListStep
<1>9. CASE TakeTurns \/ UNCHANGED vars
  <2>1. s' = s
    BY <1>9 DEF TakeTurns, vars
  <2> QED BY <2>1 DEF KeepsList, ListStep
<1> QED BY <1>2, <1>3, <1>4, <1>5, <1>6, <1>7, <1>8, <1>9 DEF ServerNext

ArrivalsOk == ArrivalInv(s)

LEMMA ArrivalsInductive ==
    /\ ServerInit => ArrivalsOk
    /\ ServerInv /\ ArrivalsOk /\ [ServerNext \/ TakeTurns]_vars => ArrivalsOk'
<1>1. ASSUME ServerInit PROVE ArrivalInv(s)
  <2>1. s.taken = <<>> /\ s.accepted = <<>> /\ s.it = 0
    BY <1>1 DEF ServerInit
  <2>2. Len(<<>>) = 0
    OBVIOUS
  <2>3. 1 .. Len(s.taken) = {} /\ s.it + 1 .. Len(s.accepted) = {}
    BY <2>1, <2>2
  <2> QED BY <2>3 DEF ArrivalInv
<1>2. ASSUME ServerInv, ArrivalInv(s), [ServerNext \/ TakeTurns]_vars
      PROVE  ArrivalInv(s')
  <2>1. s \in ServerStates /\ s.it <= Len(s.accepted) /\ s' \in ServerStates
    BY <1>2, ServerStep DEF ServerInv, ListenInv
  <2> QED BY <1>2, <2>1, ServerListSteps, ListStepOrders
<1> QED BY <1>1, <1>2 DEF ArrivalsOk

LEMMA ArrivalsInOrder ==
    ASSUME ServerInv, ArrivalsOk
    PROVE  ConnectionsInOrder
<1> DEFINE rest == SubSeq(s.accepted, s.it + 1, Len(s.accepted))
           n == Len(s.taken)
           seen == s.taken \o rest
<1>1. /\ s.accepted \in Seq(Nat) /\ s.taken \in Seq(Nat) /\ s.it \in Nat /\ n \in Nat
      /\ Len(s.accepted) \in Nat /\ s.it <= Len(s.accepted)
  BY ServerFields DEF ServerInv, ListenInv, Items
<1>2. /\ rest \in Seq(Nat) /\ Len(rest) = Len(s.accepted) - s.it
      /\ \A k \in 1 .. Len(rest) : rest[k] = s.accepted[s.it + k]
  <2>1. \A i \in s.it + 1 .. Len(s.accepted) : s.accepted[i] \in Nat
    BY <1>1
  <2>2. /\ rest \in Seq(Nat)
        /\ Len(rest) = IF s.it + 1 <= Len(s.accepted) THEN Len(s.accepted) - (s.it + 1) + 1 ELSE 0
        /\ \A k \in 1 .. Len(s.accepted) - (s.it + 1) + 1 : rest[k] = s.accepted[(s.it + 1) + k - 1]
    <3>1. s.it + 1 \in Int /\ Len(s.accepted) \in Int
      BY <1>1
    <3> QED BY <2>1, <3>1, SubSeqProperties
  <2> HIDE DEF rest
  <2>3. Len(rest) = Len(s.accepted) - s.it
    BY <1>1, <2>2
  <2>4. ASSUME NEW k \in 1 .. Len(rest) PROVE rest[k] = s.accepted[s.it + k]
    <3>1. k \in 1 .. Len(s.accepted) - (s.it + 1) + 1 /\ (s.it + 1) + k - 1 = s.it + k
      BY <1>1, <2>3
    <3> QED BY <2>2, <3>1
  <2> QED BY <2>2, <2>3, <2>4
<1> HIDE DEF rest
<1>3. /\ Len(seen) = n + Len(rest) /\ Len(rest) \in Nat
      /\ \A i \in 1 .. Len(seen) : seen[i] = IF i <= n THEN s.taken[i] ELSE rest[i - n]
  <2>1. Len(rest) \in Nat
    BY <1>1, <1>2
  <2>2. /\ Len(s.taken \o rest) = Len(s.taken) + Len(rest)
        /\ \A i \in 1 .. Len(s.taken) + Len(rest) :
             (s.taken \o rest)[i] = IF i <= Len(s.taken) THEN s.taken[i] ELSE rest[i - Len(s.taken)]
    BY ONLY <1>1, <1>2, ConcatProperties
  <2> QED BY ONLY <2>1, <2>2
<1>4. ASSUME NEW i \in 1 .. Len(seen)
      PROVE  \/ i \in 1 .. n /\ seen[i] = s.taken[i]
             \/ i > n /\ s.it + (i - n) \in s.it + 1 .. Len(s.accepted)
                /\ seen[i] = s.accepted[s.it + (i - n)]
  <2>1. CASE i <= n
    BY <1>1, <1>3, <2>1
  <2>2. CASE i > n
    <3>1. i - n \in 1 .. Len(rest)
      BY <1>1, <1>3, <2>2
    <3>2. seen[i] = rest[i - n] /\ rest[i - n] = s.accepted[s.it + (i - n)]
      BY <1>1, <1>2, <1>3, <2>2, <3>1
    <3>3. s.it + (i - n) \in s.it + 1 .. Len(s.accepted)
      BY <1>1, <1>2, <3>1
    <3> QED BY <2>2, <3>2, <3>3
  <2> QED BY <1>1, <2>1, <2>2
<1> HIDE DEF seen, n
<1>5. ASSUME NEW i \in 1 .. Len(seen), NEW j \in 1 .. Len(seen), i < j,
             seen[i] # Failed, seen[j] # Failed
      PROVE  seen[i] < seen[j]
  <2>1. CASE i \in 1 .. n /\ seen[i] = s.taken[i] /\ j \in 1 .. n /\ seen[j] = s.taken[j]
    BY <1>5, <2>1 DEF ArrivalsOk, ArrivalInv, n
  <2>2. CASE i \in 1 .. n /\ seen[i] = s.taken[i] /\ j > n
             /\ s.it + (j - n) \in s.it + 1 .. Len(s.accepted) /\ seen[j] = s.accepted[s.it + (j - n)]
    BY <1>5, <2>2 DEF ArrivalsOk, ArrivalInv, n
  <2>3. CASE /\ i > n /\ s.it + (i - n) \in s.it + 1 .. Len(s.accepted)
             /\ seen[i] = s.accepted[s.it + (i - n)]
             /\ j > n /\ s.it + (j - n) \in s.it + 1 .. Len(s.accepted)
             /\ seen[j] = s.accepted[s.it + (j - n)]
    <3>1. s.it + (i - n) < s.it + (j - n)
      BY <1>1, <1>3, <1>5
    <3> QED BY <1>5, <2>3, <3>1 DEF ArrivalsOk, ArrivalInv
  <2>4. ~(i > n /\ j \in 1 .. n)
    BY <1>1, <1>3, <1>5
  <2> QED BY <1>4, <2>1, <2>2, <2>3, <2>4
<1> QED BY <1>5 DEF ConnectionsInOrder, seen, rest

\* Connections are yielded in the order of their arrival and each at most once, over
\* all listeners of a server, although the list grows while the generator is in the
\* middle of it and is cleared behind its back when it ends
\* (stream_server_base_impl.cc:165-188).
THEOREM ServerDeliversInOrder == ServerSpec => []ConnectionsInOrder
<1>1. (ServerInv /\ ArrivalsOk) \/ ServerBroke => ConnectionsInOrder
  BY ArrivalsInOrder DEF ServerBroke, ConnectionsInOrder, IsServer
<1>2. ((ServerInv /\ ArrivalsOk) \/ ServerBroke) /\ [ServerNext \/ TakeTurns]_vars
        => ((ServerInv /\ ArrivalsOk) \/ ServerBroke)'
  BY ArrivalsInductive, ServerStep, ServerBrokeStays
<1>3. ServerInit => (ServerInv /\ ArrivalsOk) \/ ServerBroke
  BY ArrivalsInductive, ServerInitHolds
<1> QED BY <1>1, <1>2, <1>3, PTL DEF ServerSpec

----------------------------------------------------------------------------
(* Udp                                                                     *)

UdpCallers == Receivers \cup Sends

UdpCallStates ==
    {"new", "waiting", "woken", "yielded", "asked", "done", "failed", "refused", "gone"}

UdpItems == {"packet", "error"}

UdpStates ==
    [is: {"udp"}, open: BOOLEAN, uv: {"open", "closing", "freed"}, recv: BOOLEAN,
     data: Receivers \cup {Null}, buf: Seq(UdpItems), call: [UdpCallers -> UdpCallStates],
     many: SUBSET Receivers, sending: SUBSET Sends, missed: BOOLEAN,
     fault: {"none", "null handle"}]

Alive(st, u) == st.call[u] \in {"waiting", "woken", "yielded", "asked"}

\* There is at most one receiver.  One that waits does so on an open socket, whose
\* data leads to it; receiving goes on for it, and for a generator, unless a packet
\* has come for nobody.
ReceiverInv(st) ==
    /\ \A u, v \in Receivers : Alive(st, u) /\ Alive(st, v) => u = v
    /\ \A u \in Receivers :
         /\ st.call[u] = "waiting" => st.open /\ st.data = u /\ st.buf = <<>> /\ (st.recv \/ st.missed)
         /\ st.call[u] = "woken" => st.buf # <<>>
         /\ st.call[u] \in {"yielded", "asked"} => u \in st.many
         /\ Alive(st, u) /\ u \in st.many /\ st.open => st.recv \/ st.missed
         /\ st.data = u => st.open /\ st.call[u] \in {"waiting", "woken"}

\* libuv has the requests of the sends that wait.
SendInv(st) ==
    \A w \in Sends : (w \in st.sending <=> st.call[w] = "waiting") /\ st.call[w] # "asked"

UdpOk(st) == ReceiverInv(st) /\ SendInv(st) /\ st.fault = "none"

\* The run queue holds exactly those that are on their way.
UdpQueueInv ==
    /\ resumable \in HandleQueue(UdpCallers)
    /\ NoDuplicates(resumable)
    /\ \A c \in UdpCallers : c \in Queued(resumable) <=> s.call[c] \in {"woken", "asked"}

UdpInv == s \in UdpStates /\ UdpOk(s) /\ UdpQueueInv

\* udp_ was used after close(): the model ends here.
UdpBroke == s.is = "udp" /\ s.fault # "none"

\* The program keeps the promise of a send() that is under way.
UdpUse == "drop send" \notin Relaxed

LEMMA UdpInitHolds == UdpInit => UdpInv
<1> SUFFICES ASSUME UdpInit PROVE UdpInv
  OBVIOUS
<1> USE UdpAssumption
<1>1. resumable \in HandleQueue(UdpCallers) /\ Queued(resumable) = {} /\ NoDuplicates(resumable)
  BY EmptyHolds DEF UdpInit, TurnInit
<1>2. s \in UdpStates
  BY DEF UdpInit, UdpStates, UdpCallStates, UdpCallers
<1>3. /\ s.recv = FALSE /\ s.data = Null /\ s.sending = {} /\ s.fault = "none"
      /\ \A c \in UdpCallers : s.call[c] = "new"
  BY DEF UdpInit, UdpCallers
<1>4. UdpOk(s)
  BY <1>3 DEF UdpOk, ReceiverInv, SendInv, Alive, UdpCallers
<1> QED BY <1>1, <1>2, <1>3, <1>4 DEF UdpInv, UdpQueueInv

LEMMA UdpFields ==
    ASSUME NEW st \in UdpStates
    PROVE  /\ st.call \in [UdpCallers -> UdpCallStates] /\ st.buf \in Seq(UdpItems)
           /\ st.data \in Receivers \cup {Null} /\ st.many \subseteq Receivers
           /\ st.sending \subseteq Sends /\ st.recv \in BOOLEAN /\ st.open \in BOOLEAN
BY DEF UdpStates

\* From st to o the call c moves, and no other one.
MovesCall(st, o, c, how) ==
    o.call[c] = how /\ \A d \in UdpCallers \ {c} : o.call[d] = st.call[d]

----------------------------------------------------------------------------
(* The receiver's segments                                                 *)

\* The only receiver, if any, is u.
OnlyReceiver(st, u) ==
    /\ \A v \in Receivers \ {u} : ~Alive(st, v)
    /\ SendInv(st) /\ st.fault = "none"

\* The receiver ends.
LEMMA ReceiverOverOk ==
    ASSUME NEW st \in UdpStates, NEW u \in Receivers,
           NEW how \in {"done", "failed", "refused", "gone"}, OnlyReceiver(st, u),
           NEW o, o = ReceiverOver(st, u, how)
    PROVE  /\ o \in UdpStates /\ (o.fault = "none" => UdpOk(o)) /\ (st.open => o.fault = "none")
           /\ MovesCall(st, o, u, how) /\ \A v \in Receivers : ~Alive(o, v)
<1> USE UdpAssumption
<1> DEFINE recv == st.recv /\ u \notin st.many
           fault == IF u \notin st.many /\ ~st.open THEN "null handle" ELSE st.fault
           r == [st EXCEPT !.call[u] = how, !.data = Null, !.recv = recv, !.fault = fault]
<1>1. o = r
  BY DEF ReceiverOver, OnlyReceiver, UdpStates
<1>2. /\ recv \in BOOLEAN /\ u \in UdpCallers /\ fault \in {"none", "null handle"}
      /\ st.open => fault = "none"
  BY UdpFields DEF UdpCallers, OnlyReceiver
<1> HIDE DEF recv, fault
<1>3. r \in UdpStates
  BY <1>2 DEF UdpStates, UdpCallStates
<1>4. /\ r.call = [st.call EXCEPT ![u] = how] /\ r.data = Null /\ r.open = st.open
      /\ r.many = st.many /\ r.sending = st.sending /\ r.fault = fault
  BY DEF UdpStates
<1> HIDE DEF r
<1>5. r.call[u] = how /\ \A c \in UdpCallers \ {u} : r.call[c] = st.call[c]
  <2>1. st.call \in [UdpCallers -> UdpCallStates]
    BY UdpFields
  <2> QED BY <1>2, <1>4, <2>1
<1>6. \A v \in Receivers : ~Alive(r, v)
  BY <1>5 DEF OnlyReceiver, Alive, UdpCallers
<1>7. ReceiverInv(r)
  BY <1>4, <1>6 DEF ReceiverInv, Alive
<1>9. SendInv(r)
  BY <1>4, <1>5 DEF SendInv, OnlyReceiver, UdpCallers
<1> QED BY <1>1, <1>2, <1>3, <1>4, <1>5, <1>6, <1>7, <1>9 DEF MovesCall, UdpOk

\* An item is taken from the buffer: receiveMany yields a packet, otherwise the
\* receiver ends.
LEMMA TakeItemOk ==
    ASSUME NEW st \in UdpStates, NEW u \in Receivers, OnlyReceiver(st, u), st.buf # <<>>,
           u \in st.many /\ st.open => st.recv \/ st.missed,
           NEW o, o = ReceiveAwaitResume(st, u)
    PROVE  /\ o \in UdpStates /\ (o.fault = "none" => UdpOk(o))
           /\ \E how \in {"done", "yielded"} : MovesCall(st, o, u, how)
<1> USE UdpAssumption
<1> DEFINE buf == Tail(st.buf)
           rest == [st EXCEPT !.data = Null, !.buf = buf]
<1>1. buf \in Seq(UdpItems)
  <2>1. st.buf \in Seq(UdpItems)
    BY UdpFields
  <2> QED BY <2>1
<1>2. o = IF Head(st.buf) = "packet" /\ u \in st.many THEN [rest EXCEPT !.call[u] = "yielded"]
          ELSE ReceiverOver(rest, u, "done")
  BY DEF ReceiveAwaitResume, TakeItem, UdpStates
<1> HIDE DEF buf
<1>3. /\ rest \in UdpStates /\ rest.call = st.call /\ rest.recv = st.recv /\ rest.open = st.open
      /\ rest.many = st.many /\ rest.sending = st.sending /\ rest.fault = st.fault
      /\ rest.data = Null /\ rest.missed = st.missed
  BY <1>1 DEF UdpStates
<1> HIDE DEF rest
<1>4. OnlyReceiver(rest, u)
  BY <1>3 DEF OnlyReceiver, Alive, SendInv
<1>5. CASE ~(Head(st.buf) = "packet" /\ u \in st.many)
  <2>1. o \in UdpStates /\ (o.fault = "none" => UdpOk(o)) /\ MovesCall(rest, o, u, "done")
    BY <1>2, <1>3, <1>4, <1>5, ReceiverOverOk
  <2>2. MovesCall(st, o, u, "done")
    BY <1>3, <2>1 DEF MovesCall
  <2> QED BY <2>1, <2>2
<1>6. CASE Head(st.buf) = "packet" /\ u \in st.many
  <2>1. o = [rest EXCEPT !.call[u] = "yielded"] /\ u \in UdpCallers
    BY <1>2, <1>6 DEF UdpCallers
  <2>2. o \in UdpStates
    <3>1. [rest EXCEPT !.call[u] = "yielded"] \in UdpStates
      BY <1>3, <2>1 DEF UdpStates, UdpCallStates
    <3> QED BY <2>1, <3>1
  <2>3. /\ o.call = [rest.call EXCEPT ![u] = "yielded"] /\ o.data = rest.data /\ o.recv = rest.recv
        /\ o.open = rest.open /\ o.many = rest.many /\ o.sending = rest.sending
        /\ o.fault = rest.fault /\ o.missed = rest.missed
    BY <1>3, <2>1 DEF UdpStates
  <2>4. o.call[u] = "yielded" /\ \A c \in UdpCallers \ {u} : o.call[c] = st.call[c]
    <3>1. rest.call \in [UdpCallers -> UdpCallStates]
      BY <1>3, UdpFields
    <3> QED BY <1>3, <2>1, <2>3, <3>1
  <2>5. \A v \in Receivers \ {u} : ~Alive(o, v)
    BY <2>4 DEF OnlyReceiver, Alive, UdpCallers
  <2>6. o.data = Null /\ u \in o.many /\ (o.open => o.recv \/ o.missed)
    BY <1>3, <1>6, <2>3
  <2>7. ReceiverInv(o)
    BY <2>4, <2>5, <2>6 DEF ReceiverInv, Alive
  <2>9. SendInv(o) /\ o.fault = "none"
    BY <1>3, <2>3, <2>4 DEF SendInv, OnlyReceiver, UdpCallers
  <2> QED BY <2>2, <2>4, <2>7, <2>9 DEF UdpOk, MovesCall
<1> QED BY <1>5, <1>6

\* co_await of the awaiter with an empty buffer
LEMMA ReceiveWaitsOk ==
    ASSUME NEW st \in UdpStates, NEW u \in Receivers, OnlyReceiver(st, u), st.buf = <<>>, st.open,
           st.recv \/ st.missed, NEW o, o = Receive(st, u)
    PROVE  o \in UdpStates /\ UdpOk(o) /\ MovesCall(st, o, u, "waiting")
<1> USE UdpAssumption
<1>1. o = [st EXCEPT !.call[u] = "waiting", !.data = u] /\ u \in UdpCallers
  BY DEF Receive, UdpCallers
<1>2. o \in UdpStates
  <2>1. [st EXCEPT !.call[u] = "waiting", !.data = u] \in UdpStates
    BY <1>1 DEF UdpStates, UdpCallStates
  <2> QED BY <1>1, <2>1
<1>3. /\ o.call = [st.call EXCEPT ![u] = "waiting"] /\ o.data = u /\ o.recv = st.recv
      /\ o.open = st.open /\ o.many = st.many /\ o.sending = st.sending
      /\ o.fault = st.fault /\ o.buf = st.buf /\ o.missed = st.missed
  BY <1>1 DEF UdpStates
<1>4. o.call[u] = "waiting" /\ \A c \in UdpCallers \ {u} : o.call[c] = st.call[c]
  <2>1. st.call \in [UdpCallers -> UdpCallStates]
    BY UdpFields
  <2> QED BY <1>1, <1>3, <2>1
<1>5. \A v \in Receivers \ {u} : ~Alive(o, v)
  BY <1>4 DEF OnlyReceiver, Alive, UdpCallers
<1>6. (o.recv \/ o.missed) /\ o.open /\ o.data = u /\ o.fault = "none" /\ o.buf = <<>>
  BY <1>3, <1>4 DEF OnlyReceiver
<1>7. ReceiverInv(o)
  BY <1>4, <1>5, <1>6 DEF ReceiverInv, Alive
<1>9. SendInv(o)
  BY <1>3, <1>4 DEF SendInv, OnlyReceiver, UdpCallers
<1> QED BY <1>2, <1>4, <1>6, <1>7, <1>9 DEF UdpOk, MovesCall

----------------------------------------------------------------------------
(* Steps                                                                   *)

\* A step that moves call c and leaves the run queue as its state says
LEMMA UdpStepHolds ==
    ASSUME UdpInv, NEW c \in UdpCallers, NEW how, MovesCall(s, s', c, how),
           s' \in UdpStates, s'.fault = "none" => UdpOk(s'),
           resumable' \in HandleQueue(UdpCallers), NoDuplicates(resumable'),
           Queued(resumable') = IF how \in {"woken", "asked"} THEN Queued(resumable) \cup {c}
                                ELSE Queued(resumable) \ {c}
    PROVE  UdpInv' \/ UdpBroke'
<1> USE UdpAssumption
<1>1. s'.call[c] = how /\ \A d \in UdpCallers \ {c} : s'.call[d] = s.call[d]
  BY DEF MovesCall
<1>2. \A d \in UdpCallers : d \in Queued(resumable') <=> s'.call[d] \in {"woken", "asked"}
  BY <1>1 DEF UdpInv, UdpQueueInv
<1>4. UdpQueueInv'
  BY <1>2 DEF UdpQueueInv
<1>5. s'.is = "udp"
  BY DEF UdpStates
<1> QED BY <1>4, <1>5 DEF UdpInv, UdpBroke, UdpOk, ReceiverInv, SendInv, Alive

\* What the invariant says of the receiver that exists
LEMMA OnlyReceiverHolds ==
    ASSUME UdpInv, NEW u \in Receivers, Alive(s, u)
    PROVE  OnlyReceiver(s, u) /\ (u \in s.many /\ s.open => s.recv \/ s.missed)
BY DEF UdpInv, UdpOk, ReceiverInv, OnlyReceiver

LEMMA StartReceiveHolds ==
    ASSUME UdpInv, NEW u \in Receivers, NEW isMany \in BOOLEAN, NEW fails \in BOOLEAN,
           StartReceive(u, isMany, fails)
    PROVE  UdpInv' \/ UdpBroke'
<1> USE UdpAssumption
<1> DEFINE many == IF isMany THEN s.many \cup {u} ELSE s.many
           st == [s EXCEPT !.many = many, !.buf = <<>>]
           on == [st EXCEPT !.recv = TRUE, !.missed = FALSE]
<1>1. /\ s.open /\ s.call[u] = "new" /\ s \in UdpStates
      /\ \A v \in Receivers : ~Alive(s, v)
      /\ resumable' = resumable
      /\ s' = IF s.recv \/ fails THEN ReceiverOver(st, u, IF fails THEN "failed" ELSE "refused")
              ELSE Receive(on, u)
  BY DEF StartReceive, Becomes, Live, Alive, UdpInv
<1>3. /\ u \in UdpCallers /\ resumable \in HandleQueue(UdpCallers) /\ NoDuplicates(resumable)
      /\ Queued(resumable) = Queued(resumable) \ {u}
  BY <1>1 DEF UdpInv, UdpQueueInv, UdpCallers
<1>4. many \in SUBSET Receivers
  BY <1>1, UdpFields
<1> HIDE DEF many
<1>5. /\ st \in UdpStates /\ st.call = s.call /\ st.recv = s.recv /\ st.open = s.open
      /\ st.many = many /\ st.sending = s.sending /\ st.fault = s.fault /\ st.buf = <<>>
  <2>1. <<>> \in Seq(UdpItems)
    OBVIOUS
  <2> QED BY <1>1, <1>4, <2>1 DEF UdpStates
<1> HIDE DEF st
<1>6. OnlyReceiver(s, u)
  BY <1>1 DEF UdpInv, UdpOk, ReceiverInv, OnlyReceiver
<1>7. OnlyReceiver(st, u)
  BY <1>5, <1>6 DEF OnlyReceiver, SendInv, Alive
<1>8. CASE s.recv \/ fails
  <2> DEFINE how == IF fails THEN "failed" ELSE "refused"
  <2>1. s' = ReceiverOver(st, u, how) /\ how \in {"done", "failed", "refused", "gone"}
        /\ how \notin {"woken", "asked"}
    BY <1>1, <1>8
  <2> HIDE DEF how
  <2>2. s' \in UdpStates /\ (s'.fault = "none" => UdpOk(s')) /\ MovesCall(st, s', u, how)
    BY <1>5, <1>7, <2>1, ReceiverOverOk
  <2>3. MovesCall(s, s', u, how)
    BY <1>5, <2>2 DEF MovesCall
  <2> QED BY <1>1, <1>3, <2>1, <2>2, <2>3, UdpStepHolds
<1>9. CASE ~(s.recv \/ fails)
  <2>1. s' = Receive(on, u)
    BY <1>1, <1>9
  <2>2. /\ on \in UdpStates /\ on.call = st.call /\ on.recv = TRUE /\ on.open = st.open
        /\ on.sending = st.sending /\ on.fault = st.fault /\ on.buf = st.buf
    BY <1>5 DEF UdpStates
  <2> HIDE DEF on
  <2>3. OnlyReceiver(on, u)
    BY <1>7, <2>2 DEF OnlyReceiver, SendInv, Alive
  <2>4. s' \in UdpStates /\ UdpOk(s') /\ MovesCall(on, s', u, "waiting")
    BY <1>1, <1>5, <2>1, <2>2, <2>3, ReceiveWaitsOk
  <2>5. MovesCall(s, s', u, "waiting")
    BY <1>5, <2>2, <2>4 DEF MovesCall
  <2> QED BY <1>1, <1>3, <2>4, <2>5, UdpStepHolds
<1> QED BY <1>8, <1>9

LEMMA AskNextHolds ==
    ASSUME UdpInv, NEW u \in Receivers, AskNext(u)
    PROVE  UdpInv' \/ UdpBroke'
<1> USE UdpAssumption
<1>1. /\ s.call[u] = "yielded" /\ s \in UdpStates /\ u \in UdpCallers
      /\ resumable' = Enqueue(resumable, u) /\ s' = [s EXCEPT !.call[u] = "asked"]
  BY DEF AskNext, Becomes, Readied, UdpInv, UdpCallers
<1>2. /\ resumable' \in HandleQueue(UdpCallers) /\ NoDuplicates(resumable')
      /\ Queued(resumable') = Queued(resumable) \cup {u}
  <2>1. u \notin Queued(resumable) /\ Null \notin UdpCallers
    BY <1>1 DEF UdpInv, UdpQueueInv, UdpCallers
  <2> QED BY <1>1, <2>1, EnqueueHolds DEF UdpInv, UdpQueueInv
<1>3. s' \in UdpStates
  <2>1. [s EXCEPT !.call[u] = "asked"] \in UdpStates
    BY <1>1 DEF UdpStates, UdpCallStates
  <2> QED BY <1>1, <2>1
<1>4. /\ s'.call = [s.call EXCEPT ![u] = "asked"] /\ s'.data = s.data /\ s'.recv = s.recv
      /\ s'.open = s.open /\ s'.many = s.many /\ s'.sending = s.sending
      /\ s'.fault = s.fault /\ s'.buf = s.buf /\ s'.missed = s.missed
  BY <1>1 DEF UdpStates
<1>5. s'.call[u] = "asked" /\ \A c \in UdpCallers \ {u} : s'.call[c] = s.call[c]
  <2>1. s.call \in [UdpCallers -> UdpCallStates]
    BY <1>1, UdpFields
  <2> QED BY <1>1, <1>4, <2>1
<1>6. \A v \in Receivers : v = u \/ s'.call[v] = s.call[v]
  BY <1>5 DEF UdpCallers
<1>7. \A v \in Receivers : Alive(s', v) <=> Alive(s, v)
  BY <1>1, <1>5, <1>6 DEF Alive
<1>8. ReceiverInv(s')
  BY <1>1, <1>4, <1>5, <1>6, <1>7 DEF UdpInv, UdpOk, ReceiverInv
<1>10. SendInv(s')
  BY <1>4, <1>5 DEF UdpInv, UdpOk, SendInv, UdpCallers
<1>11. UdpOk(s')
  BY <1>4, <1>8, <1>10 DEF UdpInv, UdpOk
<1>12. MovesCall(s, s', u, "asked")
  BY <1>5 DEF MovesCall
<1> QED BY <1>1, <1>2, <1>3, <1>11, <1>12, UdpStepHolds

LEMMA ReceiverResumesHolds ==
    ASSUME UdpInv, NEW u \in Receivers, ReceiverResumes(u)
    PROVE  UdpInv' \/ UdpBroke'
<1> USE UdpAssumption
<1>1. /\ Popped \in HandleQueue(UdpCallers) /\ NoDuplicates(Popped)
      /\ Queued(resumable) = Queued(Popped) \cup {u} /\ u \notin Queued(Popped)
  BY ResumedHolds DEF ReceiverResumes, Resumed, Popped, UdpInv, UdpQueueInv
<1>2. /\ Queued(Popped) = Queued(resumable) \ {u} /\ s.call[u] \in {"woken", "asked"}
      /\ resumable' = Popped /\ s \in UdpStates /\ u \in UdpCallers
      /\ s' = IF s.call[u] = "woken" THEN ReceiveAwaitResume(s, u) ELSE ReceiveLoop(s, u)
  BY <1>1 DEF ReceiverResumes, Becomes, UdpInv, UdpCallers
<1>3. OnlyReceiver(s, u) /\ (u \in s.many /\ s.open => s.recv \/ s.missed)
  BY <1>2, OnlyReceiverHolds DEF Alive
<1>4. s.call[u] = "asked" => u \in s.many
  BY DEF UdpInv, UdpOk, ReceiverInv
<1>5. CASE s.buf # <<>> /\ s' = ReceiveAwaitResume(s, u)
  <2>1. /\ s' \in UdpStates /\ (s'.fault = "none" => UdpOk(s'))
        /\ \E how \in {"done", "yielded"} : MovesCall(s, s', u, how)
    BY <1>2, <1>3, <1>5, TakeItemOk
  <2>2. PICK how \in {"done", "yielded"} : MovesCall(s, s', u, how)
    BY <2>1
  <2> QED BY <1>1, <1>2, <2>1, <2>2, UdpStepHolds
<1>6. CASE s.call[u] = "asked" /\ ~s.open
  <2>1. s' = [s EXCEPT !.fault = "null handle"]
    BY <1>2, <1>6 DEF ReceiveLoop
  <2> QED BY <1>2, <2>1 DEF UdpStates, UdpBroke
<1>7. CASE s.call[u] = "asked" /\ s.open /\ ~UdpActive(s)
  <2>1. s' = ReceiverOver(s, u, "done")
    BY <1>2, <1>7 DEF ReceiveLoop
  <2>2. s' \in UdpStates /\ (s'.fault = "none" => UdpOk(s')) /\ MovesCall(s, s', u, "done")
    BY <1>2, <1>3, <2>1, ReceiverOverOk
  <2> QED BY <1>1, <1>2, <2>2, UdpStepHolds
<1>8. CASE s.call[u] = "asked" /\ s.open /\ UdpActive(s) /\ s.buf = <<>>
  <2>1. s' = Receive(s, u)
    BY <1>2, <1>8 DEF ReceiveLoop
  <2>2. s' \in UdpStates /\ UdpOk(s') /\ MovesCall(s, s', u, "waiting")
    BY <1>2, <1>3, <1>4, <1>8, <2>1, ReceiveWaitsOk
  <2> QED BY <1>1, <1>2, <2>2, UdpStepHolds
<1>9. CASE s.call[u] = "asked" /\ s.open /\ UdpActive(s) /\ s.buf # <<>>
  <2>1. s' = ReceiveAwaitResume(s, u)
    BY <1>2, <1>9 DEF ReceiveLoop, Receive
  <2> QED BY <1>5, <1>9, <2>1
<1>10. CASE s.call[u] = "woken"
  <2>1. s.buf # <<>>
    BY <1>10 DEF UdpInv, UdpOk, ReceiverInv
  <2> QED BY <1>2, <1>5, <1>10, <2>1
<1> QED BY <1>2, <1>6, <1>7, <1>8, <1>9, <1>10

LEMMA DropReceiverHolds ==
    ASSUME UdpInv, NEW u \in Receivers, DropReceiver(u)
    PROVE  UdpInv' \/ UdpBroke'
<1>1. /\ Alive(s, u) /\ resumable' = CancelAll(resumable, {u}) /\ s' = ReceiverOver(s, u, "gone")
      /\ s \in UdpStates /\ u \in UdpCallers
  BY DEF DropReceiver, Becomes, Dropped, Live, Alive, UdpInv, UdpCallers
<1>2. /\ resumable' \in HandleQueue(UdpCallers) /\ NoDuplicates(resumable')
      /\ Queued(resumable') = Queued(resumable) \ {u}
  BY <1>1, CancelHolds DEF UdpInv, UdpQueueInv
<1>3. OnlyReceiver(s, u)
  BY <1>1, OnlyReceiverHolds
<1>4. s' \in UdpStates /\ (s'.fault = "none" => UdpOk(s')) /\ MovesCall(s, s', u, "gone")
  BY <1>1, <1>3, ReceiverOverOk
<1> QED BY <1>1, <1>2, <1>4, UdpStepHolds

\* A step of a send() concerns nobody else.
LEMMA SendMovesHolds ==
    ASSUME UdpInv, NEW w \in Sends, NEW how \in {"waiting", "woken", "done", "gone"},
           NEW sending \in SUBSET Sends, w \in sending <=> how = "waiting",
           \A x \in Sends \ {w} : x \in sending <=> x \in s.sending,
           s' = [s EXCEPT !.call[w] = how, !.sending = sending],
           resumable' \in HandleQueue(UdpCallers), NoDuplicates(resumable'),
           Queued(resumable') = IF how = "woken" THEN Queued(resumable) \cup {w}
                                ELSE Queued(resumable) \ {w}
    PROVE  UdpInv' \/ UdpBroke'
<1> USE UdpAssumption
<1>1. s \in UdpStates /\ w \in UdpCallers
  BY DEF UdpInv, UdpCallers
<1>2. s' \in UdpStates
  <2>1. [s EXCEPT !.call[w] = how, !.sending = sending] \in UdpStates
    BY <1>1 DEF UdpStates, UdpCallStates
  <2> QED BY <2>1
<1>3. /\ s'.call = [s.call EXCEPT ![w] = how] /\ s'.data = s.data /\ s'.recv = s.recv
      /\ s'.open = s.open /\ s'.many = s.many /\ s'.sending = sending
      /\ s'.fault = s.fault /\ s'.buf = s.buf /\ s'.missed = s.missed
  BY <1>1 DEF UdpStates
<1>4. s'.call[w] = how /\ \A c \in UdpCallers \ {w} : s'.call[c] = s.call[c]
  <2>1. s.call \in [UdpCallers -> UdpCallStates]
    BY <1>1, UdpFields
  <2> QED BY <1>1, <1>3, <2>1
<1>5. \A v \in Receivers : s'.call[v] = s.call[v]
  BY <1>4 DEF UdpCallers
<1>6. ReceiverInv(s')
  BY <1>3, <1>5 DEF UdpInv, UdpOk, ReceiverInv, Alive
<1>7. SendInv(s')
  BY <1>3, <1>4 DEF UdpInv, UdpOk, SendInv, UdpCallers
<1>8. UdpOk(s')
  BY <1>3, <1>6, <1>7 DEF UdpInv, UdpOk
<1>9. MovesCall(s, s', w, how)
  BY <1>4 DEF MovesCall
<1>10. Queued(resumable') = IF how \in {"woken", "asked"} THEN Queued(resumable) \cup {w}
                           ELSE Queued(resumable) \ {w}
  OBVIOUS
<1> QED BY <1>1, <1>2, <1>8, <1>9, <1>10, UdpStepHolds

LEMMA SendHolds ==
    ASSUME UdpInv, NEW w \in Sends, NEW fails \in BOOLEAN, Send(w, fails)
    PROVE  UdpInv' \/ UdpBroke'
<1>1. /\ s.call[w] = "new" /\ resumable' = resumable /\ s \in UdpStates
      /\ s' = IF fails THEN [s EXCEPT !.call[w] = "done"]
              ELSE [s EXCEPT !.call[w] = "waiting", !.sending = s.sending \cup {w}]
  BY DEF Send, Becomes, UdpInv
<1>2. /\ resumable \in HandleQueue(UdpCallers) /\ NoDuplicates(resumable)
      /\ Queued(resumable) = Queued(resumable) \ {w}
  BY <1>1 DEF UdpInv, UdpQueueInv, UdpCallers
<1>3. w \notin s.sending /\ s.sending \in SUBSET Sends
  BY <1>1, UdpFields DEF UdpInv, UdpOk, SendInv
<1>4. CASE fails
  <2>1. s' = [s EXCEPT !.call[w] = "done", !.sending = s.sending]
    BY <1>1, <1>4 DEF UdpStates
  <2> QED BY <1>1, <1>2, <1>3, <2>1, SendMovesHolds
<1>5. CASE ~fails
  <2> DEFINE sending == s.sending \cup {w}
  <2>1. s' = [s EXCEPT !.call[w] = "waiting", !.sending = sending]
    BY <1>1, <1>5
  <2>2. sending \in SUBSET Sends /\ w \in sending /\ \A x \in Sends \ {w} : x \in sending <=> x \in s.sending
    BY <1>3
  <2> HIDE DEF sending
  <2> QED BY <1>1, <1>2, <2>1, <2>2, SendMovesHolds
<1> QED BY <1>4, <1>5

LEMMA SendResumesHolds ==
    ASSUME UdpInv, NEW w \in Sends, SendResumes(w)
    PROVE  UdpInv' \/ UdpBroke'
<1>1. /\ Popped \in HandleQueue(UdpCallers) /\ NoDuplicates(Popped)
      /\ Queued(resumable) = Queued(Popped) \cup {w} /\ w \notin Queued(Popped)
  BY ResumedHolds DEF SendResumes, Resumed, Popped, UdpInv, UdpQueueInv
<1>2. /\ Queued(Popped) = Queued(resumable) \ {w} /\ s.call[w] = "woken"
      /\ resumable' = Popped /\ s \in UdpStates
      /\ s' = [s EXCEPT !.call[w] = "done"]
  BY <1>1 DEF SendResumes, Becomes, UdpInv, UdpQueueInv, UdpOk, SendInv, UdpCallers
<1>3. w \notin s.sending /\ s.sending \in SUBSET Sends
  BY <1>2, UdpFields DEF UdpInv, UdpOk, SendInv
<1>4. s' = [s EXCEPT !.call[w] = "done", !.sending = s.sending]
  BY <1>2 DEF UdpStates
<1> QED BY <1>1, <1>2, <1>3, <1>4, SendMovesHolds

LEMMA DropSendHolds ==
    ASSUME UdpUse, UdpInv, NEW w \in Sends, DropSend(w)
    PROVE  UdpInv' \/ UdpBroke'
<1>1. /\ s.call[w] = "woken" /\ resumable' = CancelAll(resumable, {w}) /\ s \in UdpStates
      /\ s' = [s EXCEPT !.call[w] = "gone"]
  BY DEF DropSend, Becomes, Dropped, UdpInv, UdpUse
<1>2. /\ resumable' \in HandleQueue(UdpCallers) /\ NoDuplicates(resumable')
      /\ Queued(resumable') = Queued(resumable) \ {w}
  BY <1>1, CancelHolds DEF UdpInv, UdpQueueInv
<1>3. w \notin s.sending /\ s.sending \in SUBSET Sends
  BY <1>1, UdpFields DEF UdpInv, UdpOk, SendInv
<1>4. s' = [s EXCEPT !.call[w] = "gone", !.sending = s.sending]
  BY <1>1 DEF UdpStates
<1> QED BY <1>1, <1>2, <1>3, <1>4, SendMovesHolds

LEMMA SendDoneHolds ==
    ASSUME UdpInv, NEW w \in Sends, onSendDone(w)
    PROVE  UdpInv' \/ UdpBroke'
<1> USE UdpAssumption
<1> DEFINE sending == s.sending \ {w}
<1>1. s.call[w] = "waiting"
  BY DEF onSendDone, Becomes, UdpInv, UdpOk, SendInv
<1>2. resumable' = Enqueue(resumable, w) /\ s' = [s EXCEPT !.call[w] = "woken", !.sending = sending]
  BY <1>1 DEF onSendDone, Becomes, Readied
<1>3. sending \in SUBSET Sends /\ w \notin sending /\ \A x \in Sends \ {w} : x \in sending <=> x \in s.sending
  BY UdpFields DEF UdpInv
<1> HIDE DEF sending
<1>4. /\ resumable' \in HandleQueue(UdpCallers) /\ NoDuplicates(resumable')
      /\ Queued(resumable') = Queued(resumable) \cup {w}
  <2>1. w \notin Queued(resumable) /\ Null \notin UdpCallers /\ w \in UdpCallers
    BY <1>1 DEF UdpInv, UdpQueueInv, UdpCallers
  <2> QED BY <1>2, <2>1, EnqueueHolds DEF UdpInv, UdpQueueInv
<1> QED BY <1>1, <1>2, <1>3, <1>4, SendMovesHolds

\* The handle closes, when no receiver waits.
LEMMA CloseHandleHolds ==
    ASSUME NEW st \in UdpStates, UdpOk(st), \A u \in Receivers : st.call[u] # "waiting",
           s' = CloseHandle(st)
    PROVE  s' \in UdpStates /\ UdpOk(s') /\ s'.call = st.call
<1> USE UdpAssumption
<1>1. s' = [st EXCEPT !.open = FALSE, !.uv = "closing", !.recv = FALSE, !.data = Null]
  BY DEF CloseHandle
<1>2. s' \in UdpStates
  BY <1>1 DEF UdpStates
<1>3. /\ s'.call = st.call /\ s'.data = Null /\ s'.open = FALSE /\ s'.many = st.many
      /\ s'.sending = st.sending /\ s'.fault = st.fault /\ s'.buf = st.buf
  BY <1>1 DEF UdpStates
<1>4. ReceiverInv(s')
  BY <1>3 DEF UdpOk, ReceiverInv, Alive
<1>5. UdpOk(s')
  BY <1>3, <1>4 DEF UdpOk, SendInv
<1> QED BY <1>2, <1>3, <1>5

\* A step that moves nobody
LEMMA UdpKeepsHolds ==
    ASSUME UdpInv, s' \in UdpStates, UdpOk(s'), s'.call = s.call, resumable' = resumable
    PROVE  UdpInv'
BY DEF UdpInv, UdpOk, ReceiverInv, SendInv, Alive, UdpQueueInv

LEMMA UdpCloseHolds ==
    ASSUME UdpInv, UdpClose
    PROVE  UdpInv' \/ UdpBroke'
<1> USE UdpAssumption
<1>1. /\ s.open /\ resumable' = resumable /\ s \in UdpStates /\ UdpOk(s) /\ s.fault = "none"
      /\ s' = IF s.data # Null /\ Len(s.buf) >= Capacity(s.data) THEN s
              ELSE CloseHandle(CloseReceiver(s))
  BY DEF UdpClose, Becomes, UdpInv, UdpOk
<1>2. CASE s.data = Null
  <2>1. s' = CloseHandle(s)
    BY <1>1, <1>2 DEF CloseReceiver
  <2>2. \A u \in Receivers : s.call[u] # "waiting"
    BY <1>1, <1>2 DEF UdpOk, ReceiverInv
  <2>3. s' \in UdpStates /\ UdpOk(s') /\ s'.call = s.call
    BY <1>1, <2>1, <2>2, CloseHandleHolds
  <2> QED BY <1>1, <2>3, UdpKeepsHolds
<1>3. CASE s.data # Null /\ Len(s.buf) >= Capacity(s.data)
  <2>1. s' = s
    BY <1>1, <1>3
  <2> QED BY <1>1, <2>1, UdpKeepsHolds
<1>4. CASE s.data # Null /\ ~(Len(s.buf) >= Capacity(s.data))
  <2> DEFINE u == s.data
             buf == Append(s.buf, "error")
             told == [s EXCEPT !.buf = buf]
             rest == [s EXCEPT !.data = Null, !.buf = <<>>]
             st == ReceiverOver(rest, u, "done")
  <2>1. u \in Receivers /\ s.call[u] \in {"waiting", "woken"} /\ u \in UdpCallers
    BY <1>1, <1>4, UdpFields DEF UdpOk, ReceiverInv, UdpCallers
  <2>2. CloseReceiver(s) = IF s.call[u] = "waiting" THEN ReceiveAwaitResume(told, u) ELSE told
    BY <1>4 DEF CloseReceiver
  <2>3. buf \in Seq(UdpItems) /\ buf # <<>>
    <3>1. s.buf \in Seq(UdpItems)
      BY <1>1, UdpFields
    <3> QED BY <3>1 DEF UdpItems
  <2>4. OnlyReceiver(s, u)
    BY <2>1, OnlyReceiverHolds DEF Alive
  <2>5. CASE s.call[u] = "waiting"
    <3>1. s.buf = <<>>
      BY <1>1, <2>1, <2>5 DEF UdpOk, ReceiverInv
    <3>2. buf = <<"error">> /\ Head(<<"error">>) = "error" /\ Tail(<<"error">>) = <<>>
      BY <3>1
    <3>3. ReceiveAwaitResume(told, u) = st
      BY <1>1, <3>2 DEF ReceiveAwaitResume, TakeItem, UdpStates
    <3>4. s' = CloseHandle(st)
      BY <1>1, <1>4, <2>2, <2>5, <3>3
    <3>5. /\ rest \in UdpStates /\ rest.call = s.call /\ rest.open = s.open
          /\ rest.sending = s.sending /\ rest.fault = s.fault
      <4>1. <<>> \in Seq(UdpItems)
        OBVIOUS
      <4> QED BY <1>1, <4>1 DEF UdpStates
    <3> HIDE DEF rest, u, buf, told
    <3>6. OnlyReceiver(rest, u)
      BY <2>4, <3>5 DEF OnlyReceiver, SendInv, Alive
    <3>7. /\ st \in UdpStates /\ UdpOk(st) /\ MovesCall(rest, st, u, "done")
          /\ \A v \in Receivers : ~Alive(st, v)
      BY <1>1, <2>1, <3>5, <3>6, ReceiverOverOk
    <3> HIDE DEF st
    <3>8. s' \in UdpStates /\ UdpOk(s') /\ s'.call = st.call
      BY <3>4, <3>7, CloseHandleHolds DEF Alive
    <3>9. MovesCall(s, s', u, "done")
      BY <3>5, <3>7, <3>8 DEF MovesCall
    <3>10. /\ resumable \in HandleQueue(UdpCallers) /\ NoDuplicates(resumable)
           /\ Queued(resumable) = Queued(resumable) \ {u}
      BY <2>1, <2>5 DEF UdpInv, UdpQueueInv
    <3> QED BY <1>1, <2>1, <3>8, <3>9, <3>10, UdpStepHolds
  <2>6. CASE s.call[u] = "woken"
    <3>1. s' = CloseHandle(told)
      BY <1>1, <1>4, <2>2, <2>6
    <3> HIDE DEF buf
    <3>2. /\ told \in UdpStates /\ told.call = s.call /\ told.open = s.open /\ told.buf = buf
          /\ told.sending = s.sending /\ told.fault = s.fault /\ told.data = s.data
          /\ told.many = s.many /\ told.recv = s.recv /\ told.missed = s.missed
      BY <1>1, <2>3 DEF UdpStates
    <3> HIDE DEF told, u
    <3>3. \A v \in Receivers : s.call[v] # "waiting"
      BY <2>1, <2>4, <2>6 DEF OnlyReceiver, Alive
    <3>4. ReceiverInv(told)
      BY <1>1, <2>3, <3>2, <3>3 DEF UdpOk, ReceiverInv, Alive
    <3>5. UdpOk(told)
      BY <1>1, <3>2, <3>4 DEF UdpOk, SendInv
    <3>6. s' \in UdpStates /\ UdpOk(s') /\ s'.call = s.call
      BY <3>1, <3>2, <3>3, <3>5, CloseHandleHolds
    <3> QED BY <1>1, <3>6, UdpKeepsHolds
  <2> QED BY <2>1, <2>5, <2>6
<1> QED BY <1>2, <1>3, <1>4

LEMMA UdpDestroyedHolds ==
    ASSUME UdpInv, UdpDestroyed
    PROVE  UdpInv' \/ UdpBroke'
<1>1. /\ resumable' = resumable /\ s' = CloseHandle(s) /\ s \in UdpStates /\ UdpOk(s)
      /\ \A u \in Receivers : s.call[u] # "waiting"
  BY DEF UdpDestroyed, Becomes, Live, UdpInv
<1>2. s' \in UdpStates /\ UdpOk(s') /\ s'.call = s.call
  BY <1>1, CloseHandleHolds
<1> QED BY <1>1, <1>2, UdpKeepsHolds

----------------------------------------------------------------------------
(* Callbacks                                                               *)

LEMMA OnReceiveOneHolds ==
    ASSUME UdpInv, onReceiveOne
    PROVE  UdpInv' \/ UdpBroke'
<1> USE UdpAssumption
<1>1. s.recv /\ s \in UdpStates
  BY DEF onReceiveOne, UdpInv
<1>2. CASE s.data = Null
  <2>1. resumable' = resumable /\ s' = [s EXCEPT !.recv = FALSE, !.missed = TRUE]
    BY <1>2 DEF onReceiveOne, Becomes, onUnclaimed
  <2>2. s' \in UdpStates
    BY <1>1, <2>1 DEF UdpStates
  <2>3. /\ s'.call = s.call /\ s'.data = s.data /\ s'.missed = TRUE /\ s'.open = s.open
        /\ s'.many = s.many /\ s'.sending = s.sending /\ s'.fault = s.fault /\ s'.buf = s.buf
    BY <1>1, <2>1 DEF UdpStates
  <2>5. UdpOk(s')
    BY <2>3 DEF UdpInv, UdpOk, ReceiverInv, SendInv, Alive
  <2> QED BY <2>1, <2>2, <2>3, <2>5, UdpKeepsHolds
<1>3. CASE s.data # Null
  <2> DEFINE u == s.data
             buf == IF Len(s.buf) < Capacity(u) THEN Append(s.buf, "packet") ELSE s.buf
             recv == u \in s.many
  <2>1. /\ u \in Receivers /\ u \in UdpCallers /\ s.call[u] \in {"waiting", "woken"}
    BY <1>1, <1>3, UdpFields DEF UdpInv, UdpOk, ReceiverInv, UdpCallers
  <2>2. /\ resumable' = IF s.call[u] = "waiting" THEN Readied(u) ELSE resumable
        /\ s' = [PutPacket(s, u) EXCEPT !.recv = recv, !.call[u] = "woken"]
    BY <1>3 DEF onReceiveOne, Becomes, ReceivesOn
  <2>3. PutPacket(s, u) = [s EXCEPT !.buf = buf]
    BY DEF PutPacket
  <2>4. buf \in Seq(UdpItems) /\ buf # <<>>
    <3>1. s.buf \in Seq(UdpItems)
      BY <1>1, UdpFields
    <3>2. Append(s.buf, "packet") \in Seq(UdpItems) /\ Append(s.buf, "packet") # <<>>
      BY <3>1 DEF UdpItems
    <3>3. CASE s.call[u] = "waiting"
      <4>1. Len(s.buf) = 0
        BY <2>1, <3>3 DEF UdpInv, UdpOk, ReceiverInv
      <4>2. Capacity(u) \in Nat \ {0}
        BY DEF Capacity
      <4>3. Len(s.buf) < Capacity(u)
        BY <4>1, <4>2
      <4> QED BY <3>2, <4>3
    <3>4. CASE s.call[u] = "woken"
      <4>1. s.buf # <<>>
        BY <2>1, <3>4 DEF UdpInv, UdpOk, ReceiverInv
      <4> QED BY <3>1, <3>2, <4>1
    <3> QED BY <2>1, <3>3, <3>4
  <2>5. recv \in BOOLEAN
    OBVIOUS
  <2>6. s' = [s EXCEPT !.buf = buf, !.recv = recv, !.call[u] = "woken"]
    BY <1>1, <2>2, <2>3 DEF UdpStates
  <2>18. s.data = u
    OBVIOUS
  <2>19. recv <=> u \in s.many
    OBVIOUS
  <2> HIDE DEF buf, recv, u
  <2>7. s' \in UdpStates
    <3>1. [s EXCEPT !.buf = buf, !.recv = recv, !.call[u] = "woken"] \in UdpStates
      BY <1>1, <2>1, <2>4, <2>5 DEF UdpStates, UdpCallStates
    <3> QED BY <2>6, <3>1
  <2>8. /\ s'.call = [s.call EXCEPT ![u] = "woken"] /\ s'.data = s.data /\ s'.recv = recv
        /\ s'.open = s.open /\ s'.many = s.many /\ s'.sending = s.sending
        /\ s'.fault = s.fault /\ s'.buf = buf
    BY <1>1, <2>6 DEF UdpStates
  <2>9. s'.call[u] = "woken" /\ \A c \in UdpCallers \ {u} : s'.call[c] = s.call[c]
    <3>1. s.call \in [UdpCallers -> UdpCallStates]
      BY <1>1, UdpFields
    <3> QED BY <2>1, <2>8, <3>1
  <2>10. OnlyReceiver(s, u)
    BY <2>1, OnlyReceiverHolds DEF Alive
  <2>11. \A v \in Receivers \ {u} : ~Alive(s', v)
    BY <2>9, <2>10 DEF OnlyReceiver, Alive, UdpCallers
  <2>12. ReceiverInv(s')
    <3>1. s'.open /\ s'.buf # <<>> /\ s'.data = u /\ (u \in s'.many => s'.recv)
      BY <1>3, <2>1, <2>4, <2>8, <2>18, <2>19 DEF UdpInv, UdpOk, ReceiverInv
    <3> QED BY <2>1, <2>9, <2>11, <3>1 DEF ReceiverInv, Alive
  <2>14. SendInv(s')
    BY <2>1, <2>8, <2>9, <2>10 DEF SendInv, OnlyReceiver, UdpCallers
  <2>15. UdpOk(s') /\ MovesCall(s, s', u, "woken")
    BY <2>8, <2>9, <2>10, <2>12, <2>14 DEF UdpOk, OnlyReceiver, MovesCall
  <2>16. /\ resumable' \in HandleQueue(UdpCallers) /\ NoDuplicates(resumable')
         /\ Queued(resumable') = Queued(resumable) \cup {u}
    <3>1. CASE s.call[u] = "waiting"
      <4>1. u \notin Queued(resumable) /\ Null \notin UdpCallers /\ resumable' = Enqueue(resumable, u)
        BY <2>1, <2>2, <3>1 DEF UdpInv, UdpQueueInv, UdpCallers, Readied
      <4> QED BY <2>1, <4>1, EnqueueHolds DEF UdpInv, UdpQueueInv
    <3>2. CASE s.call[u] = "woken"
      <4>1. u \in Queued(resumable) /\ resumable' = resumable
        BY <2>1, <2>2, <3>2 DEF UdpInv, UdpQueueInv
      <4> QED BY <4>1 DEF UdpInv, UdpQueueInv
    <3> QED BY <2>1, <3>1, <3>2
  <2> QED BY <1>1, <2>1, <2>7, <2>15, <2>16, UdpStepHolds
<1> QED BY <1>2, <1>3

LEMMA OnUdpClosedHolds ==
    ASSUME UdpInv, onUdpClosed
    PROVE  UdpInv' \/ UdpBroke'
<1>1. resumable' = resumable /\ s' = [s EXCEPT !.uv = "freed"] /\ s \in UdpStates
  BY DEF onUdpClosed, Becomes, UdpInv
<1>2. s' \in UdpStates
  BY <1>1 DEF UdpStates
<1>3. /\ s'.call = s.call /\ s'.data = s.data /\ s'.recv = s.recv /\ s'.open = s.open
      /\ s'.many = s.many /\ s'.sending = s.sending /\ s'.fault = s.fault /\ s'.buf = s.buf
      /\ s'.missed = s.missed
  BY <1>1 DEF UdpStates
<1>4. UdpOk(s')
  BY <1>3 DEF UdpInv, UdpOk, ReceiverInv, SendInv, Alive
<1> QED BY <1>1, <1>2, <1>3, <1>4, UdpKeepsHolds

----------------------------------------------------------------------------
(* The theorems about Udp                                                  *)

LEMMA UdpInductive ==
    ASSUME UdpUse
    PROVE  (UdpInv \/ UdpBroke) /\ [UdpNext \/ TakeTurns]_vars => (UdpInv \/ UdpBroke)'
<1> SUFFICES ASSUME UdpInv \/ UdpBroke, [UdpNext \/ TakeTurns]_vars
             PROVE  UdpInv' \/ UdpBroke'
  OBVIOUS
<1>1. CASE UdpInv /\ UdpNext
  BY <1>1, StartReceiveHolds, AskNextHolds, ReceiverResumesHolds, DropReceiverHolds, SendHolds,
     SendResumesHolds, DropSendHolds, SendDoneHolds, UdpCloseHolds, UdpDestroyedHolds,
     OnReceiveOneHolds, OnUdpClosedHolds DEF UdpNext
<1>2. CASE UdpInv /\ TakeTurns
  <2>1. /\ s' = s /\ resumable' \in HandleQueue(UdpCallers) /\ Queued(resumable') = Queued(resumable)
        /\ NoDuplicates(resumable')
    BY <1>2, TurnsHold DEF UdpInv, UdpQueueInv
  <2> QED BY <1>2, <2>1 DEF UdpInv, UdpOk, ReceiverInv, SendInv, Alive, UdpQueueInv
<1>3. CASE UdpInv /\ UNCHANGED vars
  BY <1>3, UdpKeepsHolds DEF vars, turnVars, UdpInv
<1>4. CASE UdpBroke
  <2>1. ~UdpNext
    BY <1>4 DEF UdpBroke, UdpNext, IsUdp, StartReceive, AskNext, ReceiverResumes, DropReceiver, Send,
                SendResumes, DropSend, onSendDone, UdpClose, UdpDestroyed, onReceiveOne, onUdpClosed
  <2>2. s' = s
    BY <2>1 DEF TakeTurns, vars
  <2> QED BY <1>4, <2>2 DEF UdpBroke
<1> QED BY <1>1, <1>2, <1>3, <1>4

\* A receiver that waits is woken by close(), and by the next packet unless one has
\* come for nobody; the handle leads to nobody else, and a receiver that was woken
\* finds an item: packet.value() in receiveOneFrom (udp.cc:186) does not throw.
\* Packets, close() and drops come at any moment, for any number of calls
\* (udp.cc:256-301, 382-405).
THEOREM UdpServes ==
    ASSUME UdpUse
    PROVE  UdpSpec => []ReceiverServed
<1>1. UdpInv \/ UdpBroke => ReceiverServed
  <2> SUFFICES ASSUME UdpInv PROVE ReceiverServed
    BY DEF UdpBroke, IsUdp, ReceiverServed, WaitingReceives, WokenHasPacket
  <2>1. s.data # Null => s.data \in Receivers
    BY UdpFields DEF UdpInv
  <2>2. \A u \in Receivers :
          s.call[u] = "waiting" => s.open /\ s.data = u /\ s.buf = <<>> /\ (s.recv \/ s.missed)
    BY DEF UdpInv, UdpOk, ReceiverInv
  <2>3. s.data # Null => s.open /\ s.call[s.data] \in {"waiting", "woken"}
    BY <2>1 DEF UdpInv, UdpOk, ReceiverInv
  <2>4. \A u \in Receivers : s.call[u] = "woken" => s.buf # <<>>
    BY DEF UdpInv, UdpOk, ReceiverInv
  <2> QED BY <2>2, <2>3, <2>4 DEF ReceiverServed, WaitingReceives, WokenHasPacket
<1> QED BY <1>1, UdpInitHolds, UdpInductive, PTL DEF UdpSpec

\* Each coroutine in the run queue is there once and is suspended.
THEOREM UdpQueuesSuspended ==
    ASSUME UdpUse
    PROVE  UdpSpec => []UdpQueueSound
<1>1. UdpInv \/ UdpBroke => UdpQueueSound
  BY QueuedType DEF UdpInv, UdpBroke, IsUdp, UdpQueueInv, UdpQueueSound, QueueIsSound, UdpCallers
<1> QED BY <1>1, UdpInitHolds, UdpInductive, PTL DEF UdpSpec

----------------------------------------------------------------------------
(* Curl                                                                    *)

DownloadCalls == {"none", "new", "waiting", "woken", "yielded", "asked", "done", "threw", "gone"}

Outcomes == {"running", "ok", "http", "failed", "partial"}

CurlStates ==
    [is: {"curl"}, uv: {"open", "closing", "freed"}, timer: BOOLEAN,
     poll: [Sockets -> {"none", "active", "stopped"}], request: [Sockets -> Downloads \cup {Null}],
     on: [Downloads -> Sockets \cup {Null}], outcome: [Downloads -> Outcomes],
     msgs: SUBSET Downloads, told: SUBSET Downloads, failed: SUBSET Downloads,
     broken: SUBSET Downloads, received: [Downloads -> Nat], yielded: [Downloads -> Nat],
     call: [Downloads -> DownloadCalls]]

\* A socket in use is that of one transfer, which its poll knows, and it is watched
\* unless it failed.
PollInv(st) ==
    /\ \A r \in Downloads : st.on[r] # Null =>
         /\ st.uv = "open" /\ InTransfer(st, r) /\ st.request[st.on[r]] = r
         /\ st.poll[st.on[r]] = "active" <=> r \notin st.broken
    /\ \A k \in Sockets : st.poll[k] = "active" => \E r \in Downloads : st.on[r] = k
    /\ st.timer => st.uv = "open"
    /\ st.failed \subseteq st.broken

\* What the place of a download says of its transfer, and the reverse
ReportInv(st, r) ==
    /\ st.call[r] \in {"waiting", "woken", "asked"} => st.uv = "open"
    /\ r \in st.told => st.outcome[r] # "running"
    /\ r \in st.msgs => st.outcome[r] # "running" /\ st.call[r] \notin {"none", "gone"}
    /\ st.uv = "open" /\ st.outcome[r] # "running" /\ st.call[r] # "gone" => r \in st.told \cup st.msgs
    /\ st.call[r] = "woken" => r \in st.failed \/ r \in st.told \/ st.received[r] > st.yielded[r]
    /\ st.yielded[r] <= st.received[r]
    /\ st.call[r] = "done" =>
         st.outcome[r] = "http" \/ (st.outcome[r] = "ok" /\ st.yielded[r] = st.received[r])
    /\ st.call[r] = "threw" => st.outcome[r] \in {"failed", "partial"} \/ r \in st.broken

\* Who waits for a transfer that has ended has its message to come, or was told of
\* a failure before.
EndInv(st, r) ==
    st.call[r] = "waiting" =>
        st.outcome[r] = "running" \/ r \in st.msgs \/ (r \in st.told /\ st.outcome[r] = "failed")

CurlOk(st) ==
    /\ st \in CurlStates /\ IsFiniteSet(st.msgs)
    /\ PollInv(st)
    /\ \A r \in Downloads : ReportInv(st, r) /\ EndInv(st, r)

\* The run queue holds downloads that are on their way.
CurlQueueInv ==
    /\ resumable \in HandleQueue(Downloads)
    /\ NoDuplicates(resumable)
    /\ \A r \in Queued(resumable) : s.call[r] \in {"woken", "asked"}

CurlInv == CurlOk(s) /\ CurlQueueInv

LEMMA CurlFields ==
    ASSUME NEW st \in CurlStates
    PROVE  /\ st.poll \in [Sockets -> {"none", "active", "stopped"}]
           /\ st.request \in [Sockets -> Downloads \cup {Null}]
           /\ st.on \in [Downloads -> Sockets \cup {Null}]
           /\ st.outcome \in [Downloads -> Outcomes]
           /\ st.msgs \in SUBSET Downloads
           /\ st.received \in [Downloads -> Nat] /\ st.yielded \in [Downloads -> Nat]
           /\ st.call \in [Downloads -> DownloadCalls]
BY DEF CurlStates

LEMMA CurlInitHolds == CurlInit => CurlInv
<1> SUFFICES ASSUME CurlInit PROVE CurlInv
  OBVIOUS
<1> USE CurlAssumption
<1>1. resumable \in HandleQueue(Downloads) /\ Queued(resumable) = {} /\ NoDuplicates(resumable)
  BY EmptyHolds DEF CurlInit, TurnInit
<1>2. s \in CurlStates
  BY DEF CurlInit, CurlStates, Outcomes, DownloadCalls
<1>3. /\ s.timer = FALSE /\ s.msgs = {} /\ s.told = {} /\ s.failed = {} /\ s.broken = {}
      /\ \A k \in Sockets : s.poll[k] = "none"
      /\ \A r \in Downloads : s.on[r] = Null /\ s.outcome[r] = "running" /\ s.call[r] = "none"
                              /\ s.received[r] = 0 /\ s.yielded[r] = 0
  BY DEF CurlInit
<1>4. IsFiniteSet({})
  BY FS_EmptySet
<1>5. PollInv(s)
  BY <1>3 DEF PollInv, InTransfer
<1>6. \A r \in Downloads : ReportInv(s, r) /\ EndInv(s, r)
  BY <1>3 DEF ReportInv, EndInv
<1> QED BY <1>1, <1>2, <1>3, <1>4, <1>5, <1>6 DEF CurlInv, CurlOk, CurlQueueInv

----------------------------------------------------------------------------
(* What does not concern a download or a socket                            *)

\* From st to o nothing about download r changes but that it may have moved.
SameTransfer(st, o, r) ==
    /\ o.outcome[r] = st.outcome[r]
    /\ (r \in o.broken <=> r \in st.broken) /\ (r \in o.failed <=> r \in st.failed)
    /\ (r \in o.told <=> r \in st.told) /\ (r \in o.msgs <=> r \in st.msgs)

SameDownload(st, o, r) ==
    /\ SameTransfer(st, o, r)
    /\ o.call[r] = st.call[r] /\ o.received[r] = st.received[r] /\ o.yielded[r] = st.yielded[r]

LEMMA DownloadKept ==
    ASSUME NEW st, NEW o, NEW r, SameDownload(st, o, r), o.uv = st.uv
    PROVE  /\ ReportInv(st, r) => ReportInv(o, r)
           /\ EndInv(st, r) => EndInv(o, r)
BY DEF SameDownload, SameTransfer, ReportInv, EndInv

\* The sockets are not concerned if no request comes or goes and no transfer ends.
LEMMA PollsKept ==
    ASSUME NEW st, NEW o, PollInv(st), o.uv = st.uv, o.timer = st.timer, o.poll = st.poll,
           o.request = st.request, o.on = st.on, o.outcome = st.outcome, o.broken = st.broken,
           o.failed = st.failed,
           \A r \in Downloads : o.call[r] \in {"none", "gone"} <=> st.call[r] \in {"none", "gone"}
    PROVE  PollInv(o)
BY DEF PollInv, InTransfer

\* The order in which checkCurlInfo() wakes
LEMMA OrderHolds ==
    ASSUME NEW S \in SUBSET Downloads, IsFiniteSet(S), NEW q \in Bijection(1 .. Cardinality(S), S)
    PROVE  q \in HandleQueue(Downloads) /\ NoDuplicates(q) /\ Queued(q) = S
<1> USE CurlAssumption
<1> DEFINE n == Cardinality(S)
<1>1. n \in Nat
  BY FS_CardinalityType
<1> HIDE DEF n
<1>2. /\ q \in [1 .. n -> S] /\ \A i, j \in 1 .. n : q[i] = q[j] => i = j
      /\ \A x \in S : \E i \in 1 .. n : q[i] = x
  BY DEF n, Bijection, Injection, Surjection, IsInjective
<1>3. q \in Seq(S) /\ Len(q) = n
  BY <1>1, <1>2
<1>4. q \in HandleQueue(Downloads)
  BY <1>1, <1>2, <1>3 DEF HandleQueue
<1> QED BY <1>2, <1>3, <1>4 DEF NoDuplicates, Queued

----------------------------------------------------------------------------
(* checkCurlInfo() and the awaiter                                         *)

LEMMA CheckedOk ==
    ASSUME NEW st, CurlOk(st), NEW o, o = Checked(st)
    PROVE  /\ CurlOk(o) /\ o.msgs = {} /\ o.uv = st.uv
           /\ \A q \in Downloads : o.call[q] = IF q \in CheckWakes(st) THEN "woken" ELSE st.call[q]
<1>1. st \in CurlStates /\ PollInv(st) /\ \A q \in Downloads : ReportInv(st, q) /\ EndInv(st, q)
  BY DEF CurlOk
<1> DEFINE told == st.told \cup st.msgs
           call == [r \in Downloads |-> IF r \in CheckWakes(st) THEN "woken" ELSE st.call[r]]
<1>2. o = [st EXCEPT !.told = told, !.msgs = {}, !.call = call]
  BY DEF Checked
<1>3. told \in SUBSET Downloads /\ call \in [Downloads -> DownloadCalls]
  BY <1>1, CurlFields DEF CurlStates, DownloadCalls
<1>4. \A q \in Downloads :
        /\ q \in told <=> q \in st.told \/ q \in st.msgs
        /\ call[q] = IF q \in st.msgs /\ st.call[q] = "waiting" THEN "woken" ELSE st.call[q]
        /\ call[q] = IF q \in CheckWakes(st) THEN "woken" ELSE st.call[q]
  BY DEF CheckWakes
<1> HIDE DEF told, call
<1>5. o \in CurlStates
  BY <1>1, <1>2, <1>3 DEF CurlStates
<1>6. /\ o.told = told /\ o.msgs = {} /\ o.call = call
      /\ o.uv = st.uv /\ o.timer = st.timer /\ o.poll = st.poll /\ o.request = st.request
      /\ o.on = st.on /\ o.outcome = st.outcome /\ o.broken = st.broken /\ o.failed = st.failed
      /\ o.received = st.received /\ o.yielded = st.yielded
  BY <1>1, <1>2 DEF CurlStates
<1>7. PollInv(o)
  <2>1. \A r \in Downloads : o.call[r] \in {"none", "gone"} <=> st.call[r] \in {"none", "gone"}
    BY <1>4, <1>6
  <2> QED BY <1>1, <1>6, <2>1, PollsKept
<1>8. ASSUME NEW q \in Downloads PROVE ReportInv(o, q) /\ EndInv(o, q)
  <2>1. CASE q \in st.msgs
    BY <1>1, <1>4, <1>6, <2>1 DEF ReportInv, EndInv
  <2>2. CASE q \notin st.msgs
    BY <1>1, <1>4, <1>6, <2>2 DEF ReportInv, EndInv
  <2> QED BY <2>1, <2>2
<1> QED BY <1>4, <1>5, <1>6, <1>7, <1>8, FS_EmptySet DEF CurlOk

\* Download r moves to how, and no other one.
MovesDownload(st, o, r, how) ==
    o.call[r] = how /\ \A q \in Downloads \ {r} : o.call[q] = st.call[q]

\* Download r moves, and may take a chunk; libcurl is not involved.
DownloadMoves(st, o, r, how) ==
    /\ o \in CurlStates
    /\ o.told = st.told /\ o.msgs = st.msgs /\ o.failed = st.failed /\ o.broken = st.broken
    /\ o.uv = st.uv /\ o.timer = st.timer /\ o.poll = st.poll /\ o.request = st.request
    /\ o.on = st.on /\ o.outcome = st.outcome /\ o.received = st.received
    /\ \A q \in Downloads \ {r} : o.yielded[q] = st.yielded[q]
    /\ MovesDownload(st, o, r, how)

MovedTo(st, r, how) == [st EXCEPT !.call[r] = how]

TookTo(st, r, n, how) == [st EXCEPT !.yielded[r] = n, !.call[r] = how]

LEMMA MovesStep ==
    ASSUME NEW st \in CurlStates, NEW r \in Downloads, NEW how \in DownloadCalls
    PROVE  /\ DownloadMoves(st, MovedTo(st, r, how), r, how)
           /\ MovedTo(st, r, how).yielded[r] = st.yielded[r]
           /\ \A n \in Nat : /\ DownloadMoves(st, TookTo(st, r, n, how), r, how)
                             /\ TookTo(st, r, n, how).yielded[r] = n
<1> SUFFICES ASSUME NEW n \in Nat
             PROVE  /\ DownloadMoves(st, MovedTo(st, r, how), r, how)
                    /\ MovedTo(st, r, how).yielded[r] = st.yielded[r]
                    /\ DownloadMoves(st, TookTo(st, r, n, how), r, how)
                    /\ TookTo(st, r, n, how).yielded[r] = n
  <2>1. 0 \in Nat
    OBVIOUS
  <2> QED BY <2>1
<1> DEFINE y == [st.yielded EXCEPT ![r] = n]
           c == [st.call EXCEPT ![r] = how]
           o == [st EXCEPT !.yielded = y, !.call = c]
           p == [st EXCEPT !.call = c]
<1>1. /\ y \in [Downloads -> Nat] /\ c \in [Downloads -> DownloadCalls] /\ y[r] = n /\ c[r] = how
      /\ \A q \in Downloads \ {r} : y[q] = st.yielded[q] /\ c[q] = st.call[q]
  BY CurlFields
<1> HIDE DEF y, c
<1>2. o \in CurlStates /\ p \in CurlStates
  BY <1>1 DEF CurlStates
<1>3. DownloadMoves(st, o, r, how) /\ o.yielded[r] = n
  <2>1. /\ o.told = st.told /\ o.msgs = st.msgs /\ o.failed = st.failed /\ o.broken = st.broken
        /\ o.uv = st.uv /\ o.timer = st.timer /\ o.poll = st.poll /\ o.request = st.request
        /\ o.on = st.on /\ o.outcome = st.outcome /\ o.received = st.received
        /\ o.yielded = y /\ o.call = c
    BY DEF CurlStates
  <2> HIDE DEF o
  <2> QED BY <1>1, <1>2, <2>1 DEF DownloadMoves, MovesDownload
<1>4. DownloadMoves(st, p, r, how) /\ p.yielded[r] = st.yielded[r]
  <2>1. /\ p.told = st.told /\ p.msgs = st.msgs /\ p.failed = st.failed /\ p.broken = st.broken
        /\ p.uv = st.uv /\ p.timer = st.timer /\ p.poll = st.poll /\ p.request = st.request
        /\ p.on = st.on /\ p.outcome = st.outcome /\ p.received = st.received
        /\ p.yielded = st.yielded /\ p.call = c
    BY DEF CurlStates
  <2> HIDE DEF p
  <2> QED BY <1>1, <1>2, <2>1 DEF DownloadMoves, MovesDownload
<1> QED BY <1>3, <1>4 DEF y, c, MovedTo, TookTo

\* A download moves among the places of a request that exists.
LEMMA MovedOk ==
    ASSUME NEW st, CurlOk(st), NEW r \in Downloads, st.call[r] \notin {"none", "gone"},
           NEW how \in {"waiting", "woken", "yielded", "asked", "done", "threw"},
           NEW o, DownloadMoves(st, o, r, how), ReportInv(o, r), EndInv(o, r)
    PROVE  CurlOk(o)
<1>1. /\ PollInv(st) /\ IsFiniteSet(st.msgs)
      /\ \A q \in Downloads : ReportInv(st, q) /\ EndInv(st, q)
  BY DEF CurlOk
<1>2. PollInv(o)
  <2>1. \A q \in Downloads : o.call[q] \in {"none", "gone"} <=> st.call[q] \in {"none", "gone"}
    BY DEF DownloadMoves, MovesDownload
  <2> QED BY <1>1, <2>1, PollsKept DEF DownloadMoves
<1>3. ASSUME NEW q \in Downloads \ {r} PROVE ReportInv(o, q) /\ EndInv(o, q)
  <2>1. SameDownload(st, o, q) /\ o.uv = st.uv
    BY DEF SameDownload, SameTransfer, DownloadMoves, MovesDownload
  <2> QED BY <1>1, <2>1, DownloadKept
<1>4. o \in CurlStates /\ o.msgs = st.msgs
  BY DEF DownloadMoves
<1> QED BY <1>1, <1>2, <1>3, <1>4 DEF CurlOk

\* await_resume, for a download that has something to find
LEMMA ChunkResumeOk ==
    ASSUME NEW st, CurlOk(st), NEW r \in Downloads, st.call[r] \in {"new", "woken", "asked"},
           r \in st.failed \/ r \in st.told \/ st.received[r] > st.yielded[r],
           NEW o, o = ChunkAwaitResume(st, r)
    PROVE  /\ CurlOk(o) /\ o.uv = st.uv
           /\ \E how \in {"yielded", "done", "threw"} : MovesDownload(st, o, r, how)
<1>1. /\ st \in CurlStates /\ PollInv(st) /\ ReportInv(st, r) /\ EndInv(st, r)
      /\ st.failed \subseteq st.broken
  BY DEF CurlOk, PollInv
<1>2. st.yielded[r] \in Nat /\ st.received[r] \in Nat /\ st.outcome[r] \in Outcomes
  BY <1>1, CurlFields
<1>3. CASE ~EndsBody(st, r) /\ st.received[r] > st.yielded[r]
  <2>1. DownloadMoves(st, o, r, "yielded") /\ o.yielded[r] = st.yielded[r] + 1
    <3>1. o = TookTo(st, r, st.yielded[r] + 1, "yielded")
      BY <1>3 DEF ChunkAwaitResume, TookTo
    <3>2. "yielded" \in DownloadCalls /\ st.yielded[r] + 1 \in Nat
      BY <1>2 DEF DownloadCalls
    <3> QED BY <1>1, <3>1, <3>2, MovesStep
  <2>2. /\ o.uv = st.uv /\ o.call[r] = "yielded" /\ o.outcome[r] = st.outcome[r]
        /\ o.told = st.told /\ o.msgs = st.msgs /\ o.broken = st.broken
        /\ o.received[r] = st.received[r] /\ MovesDownload(st, o, r, "yielded")
    BY <2>1 DEF DownloadMoves, MovesDownload
  <2>3. ReportInv(o, r) /\ EndInv(o, r)
    BY <1>1, <1>2, <1>3, <2>1, <2>2 DEF ReportInv, EndInv
  <2> QED BY <2>1, <2>2, <2>3, MovedOk
<1>4. CASE ~(~EndsBody(st, r) /\ st.received[r] > st.yielded[r])
  <2> DEFINE how == HowItEnds(st, r)
  <2>1. how \in {"threw", "done"}
    BY DEF HowItEnds
  <2>2. DownloadMoves(st, o, r, how) /\ o.yielded[r] = st.yielded[r]
    <3>1. o = MovedTo(st, r, how)
      BY <1>4 DEF ChunkAwaitResume, MovedTo
    <3>2. how \in DownloadCalls
      BY <2>1 DEF DownloadCalls
    <3> HIDE DEF how
    <3> QED BY <1>1, <1>2, <3>1, <3>2, MovesStep
  <2>3. /\ o.uv = st.uv /\ o.call[r] = how /\ o.outcome[r] = st.outcome[r]
        /\ o.told = st.told /\ o.msgs = st.msgs /\ o.broken = st.broken
        /\ o.received[r] = st.received[r] /\ MovesDownload(st, o, r, how)
    BY <2>2 DEF DownloadMoves, MovesDownload
  <2>4. CASE how = "threw"
    <3>1. st.outcome[r] \in {"failed", "partial"} \/ r \in st.broken
      BY <1>1, <2>4 DEF HowItEnds
    <3> HIDE DEF how
    <3>2. ReportInv(o, r) /\ EndInv(o, r)
      BY <1>1, <1>2, <2>2, <2>3, <2>4, <3>1 DEF ReportInv, EndInv
    <3> QED BY <2>2, <2>3, <2>4, <3>2, MovedOk
  <2>5. CASE how = "done"
    <3>1. r \notin st.failed /\ ~(r \in st.told /\ st.outcome[r] \in {"failed", "partial"})
      BY <2>5 DEF HowItEnds
    <3> HIDE DEF how
    <3>2. r \in st.told
      BY <1>2, <1>4, <3>1 DEF EndsBody
    <3>3. st.outcome[r] \in {"ok", "http"}
      BY <1>1, <1>2, <3>1, <3>2 DEF ReportInv, Outcomes
    <3>4. st.outcome[r] = "http" \/ st.yielded[r] = st.received[r]
      BY <1>1, <1>2, <1>4, <3>1, <3>3 DEF ReportInv, EndsBody
    <3>5. ReportInv(o, r) /\ EndInv(o, r)
      BY <1>1, <1>2, <2>2, <2>3, <2>5, <3>1, <3>3, <3>4 DEF ReportInv, EndInv
    <3> QED BY <2>2, <2>3, <2>5, <3>5, MovedOk
  <2> HIDE DEF how
  <2> QED BY <2>1, <2>4, <2>5
<1> QED BY <1>3, <1>4

\* co_await *core_, once the messages were read
LEMMA AwaitChunkOk ==
    ASSUME NEW st, CurlOk(st), NEW r \in Downloads, st.call[r] \in {"new", "asked"},
           st.uv = "open", st.msgs = {}, NEW o, o = AwaitChunk(st, r)
    PROVE  /\ CurlOk(o) /\ o.uv = st.uv
           /\ \E how \in {"waiting", "yielded", "done", "threw"} : MovesDownload(st, o, r, how)
<1>1. CASE ChunkAwaitReady(st, r)
  <2>1. o = ChunkAwaitResume(st, r)
    BY <1>1 DEF AwaitChunk
  <2>2. r \in st.failed \/ r \in st.told \/ st.received[r] > st.yielded[r]
    BY <1>1 DEF ChunkAwaitReady
  <2>3. /\ CurlOk(o) /\ o.uv = st.uv
        /\ \E how \in {"yielded", "done", "threw"} : MovesDownload(st, o, r, how)
    BY <2>1, <2>2, ChunkResumeOk
  <2> QED BY <2>3
<1>2. CASE ~ChunkAwaitReady(st, r)
  <2>1. o = MovedTo(st, r, "waiting")
    BY <1>2 DEF AwaitChunk, MovedTo
  <2>2. st \in CurlStates /\ ReportInv(st, r) /\ EndInv(st, r)
    BY DEF CurlOk
  <2>3. st.outcome[r] = "running" \/ (r \in st.told /\ st.outcome[r] = "failed")
    BY <1>2, <2>2 DEF ReportInv, ChunkAwaitReady
  <2>4. DownloadMoves(st, o, r, "waiting") /\ o.yielded[r] = st.yielded[r]
    <3>1. "waiting" \in DownloadCalls
      BY DEF DownloadCalls
    <3> QED BY <2>1, <2>2, <3>1, MovesStep
  <2>5. /\ o.uv = st.uv /\ o.call[r] = "waiting" /\ o.outcome[r] = st.outcome[r]
        /\ o.told = st.told /\ o.msgs = st.msgs /\ o.broken = st.broken
        /\ o.received[r] = st.received[r] /\ MovesDownload(st, o, r, "waiting")
    BY <2>4 DEF DownloadMoves, MovesDownload
  <2>6. ReportInv(o, r) /\ EndInv(o, r)
    BY <2>2, <2>3, <2>4, <2>5 DEF ReportInv, EndInv
  <2>7. CurlOk(o)
    BY <2>4, <2>6, MovedOk
  <2> QED BY <2>5, <2>7
<1> QED BY <1>1, <1>2

----------------------------------------------------------------------------
(* The steps of a Curl                                                     *)

LEMMA CurlStepHolds ==
    ASSUME CurlInv, CurlOk(s'), resumable' \in HandleQueue(Downloads), NoDuplicates(resumable'),
           \A r \in Queued(resumable') : s'.call[r] \in {"woken", "asked"}
    PROVE  CurlInv'
<1>1. CurlOk(s)'
  BY DEF CurlOk, PollInv, ReportInv, EndInv, InTransfer
<1>2. CurlQueueInv'
  BY DEF CurlQueueInv
<1> QED BY <1>1, <1>2 DEF CurlInv

\* checkCurlInfo() puts those it wakes into the run queue.
LEMMA CheckQueue ==
    ASSUME NEW st, CurlOk(st), NEW queue \in HandleQueue(Downloads), NoDuplicates(queue),
           \A r \in Queued(queue) : st.call[r] # "waiting", NEW o,
           CheckCurlInfo(queue, st, o)
    PROVE  /\ s' = o /\ phase' = phase
           /\ resumable' \in HandleQueue(Downloads) /\ NoDuplicates(resumable')
           /\ Queued(resumable') = Queued(queue) \cup CheckWakes(st)
<1> DEFINE S == CheckWakes(st)
<1>1. S \in SUBSET Downloads /\ S \subseteq st.msgs /\ IsFiniteSet(st.msgs)
  BY CurlFields DEF CheckWakes, CurlOk
<1>2. IsFiniteSet(S)
  BY <1>1, FS_Subset
<1>3. Queued(queue) \cap S = {}
  BY DEF CheckWakes
<1>4. PICK order \in Bijection(1 .. Cardinality(S), S) : Becomes(queue \o order, o)
  BY DEF CheckCurlInfo
<1> HIDE DEF S
<1>5. order \in HandleQueue(Downloads) /\ NoDuplicates(order) /\ Queued(order) = S
  BY <1>1, <1>2, OrderHolds
<1>6. resumable' = queue \o order /\ s' = o /\ phase' = phase
  BY <1>4 DEF Becomes
<1> QED BY <1>3, <1>5, <1>6, ConcatHolds DEF S

\* A download that is not in the run queue moves on once the messages were read.
LEMMA CheckAndAwaitHolds ==
    ASSUME CurlInv, NEW r \in Downloads, s.call[r] \in {"new", "asked"}, s.uv = "open",
           NEW queue \in HandleQueue(Downloads), NoDuplicates(queue), r \notin Queued(queue),
           Queued(queue) \subseteq Queued(resumable), Running,
           CheckCurlInfo(queue, s, AwaitChunk(Checked(s), r))
    PROVE  CurlInv'
<1> DEFINE st == Checked(s)
<1>1. CurlOk(s) /\ \A q \in Queued(resumable) : s.call[q] \in {"woken", "asked"}
  BY DEF CurlInv, CurlQueueInv
<1>3. /\ CurlOk(st) /\ st.msgs = {} /\ st.uv = s.uv
      /\ \A q \in Downloads : st.call[q] = IF q \in CheckWakes(s) THEN "woken" ELSE s.call[q]
  BY <1>1, CheckedOk
<1>4. r \notin CheckWakes(s)
  BY DEF CheckWakes
<1> HIDE DEF st
<1>5. PICK o : o = AwaitChunk(st, r)
  OBVIOUS
<1>6. /\ CurlOk(o) /\ o.uv = st.uv
      /\ \E how \in {"waiting", "yielded", "done", "threw"} : MovesDownload(st, o, r, how)
  BY <1>3, <1>4, <1>5, AwaitChunkOk
<1>7. /\ s' = o /\ phase' = phase
      /\ resumable' \in HandleQueue(Downloads) /\ NoDuplicates(resumable')
      /\ Queued(resumable') = Queued(queue) \cup CheckWakes(s)
  BY <1>1, <1>5, CheckQueue DEF st
<1>8. ASSUME NEW q \in Queued(resumable') PROVE s'.call[q] \in {"woken", "asked"}
  <2>1. q \in Downloads /\ q # r
    BY <1>4, <1>7, QueuedType
  <2>2. st.call[q] \in {"woken", "asked"}
    BY <1>1, <1>3, <1>7, <2>1
  <2> QED BY <1>6, <1>7, <2>1, <2>2 DEF MovesDownload
<1> QED BY <1>6, <1>7, <1>8, CurlStepHolds

LEMMA StartHolds ==
    ASSUME CurlInv, NEW r \in Downloads, Start(r)
    PROVE  CurlInv'
<1>1. /\ resumable \in HandleQueue(Downloads) /\ NoDuplicates(resumable)
      /\ \A q \in Queued(resumable) : s.call[q] \in {"woken", "asked"}
  BY DEF CurlInv, CurlQueueInv
<1> QED BY <1>1, CheckAndAwaitHolds DEF Start

LEMMA DownloadResumesHolds ==
    ASSUME CurlInv, NEW r \in Downloads, DownloadResumes(r)
    PROVE  CurlInv'
<1>1. /\ resumable \in HandleQueue(Downloads) /\ NoDuplicates(resumable) /\ CurlOk(s)
      /\ \A q \in Queued(resumable) : s.call[q] \in {"woken", "asked"}
  BY DEF CurlInv, CurlQueueInv
<1>2. /\ Popped \in HandleQueue(Downloads) /\ NoDuplicates(Popped) /\ r \in Queued(resumable)
      /\ r \notin Queued(Popped) /\ Queued(Popped) \subseteq Queued(resumable)
  BY <1>1, ResumedHolds DEF DownloadResumes, Resumed, Popped
<1>3. ReportInv(s, r) /\ Running
  BY <1>1 DEF CurlOk, DownloadResumes, Resumed
<1>4. CASE s.call[r] = "woken"
  <2>1. resumable' = Popped /\ s' = ChunkAwaitResume(s, r) /\ phase' = phase
    BY <1>4 DEF DownloadResumes, Becomes
  <2>2. r \in s.failed \/ r \in s.told \/ s.received[r] > s.yielded[r]
    BY <1>3, <1>4 DEF ReportInv
  <2>3. /\ CurlOk(s') /\ s'.uv = s.uv
        /\ \E how \in {"yielded", "done", "threw"} : MovesDownload(s, s', r, how)
    BY <1>1, <1>4, <2>1, <2>2, ChunkResumeOk
  <2>4. ASSUME NEW q \in Queued(resumable') PROVE s'.call[q] \in {"woken", "asked"}
    <3>1. q \in Downloads /\ q # r /\ q \in Queued(resumable)
      BY <1>1, <1>2, <2>1, QueuedType
    <3> QED BY <1>1, <2>3, <3>1 DEF MovesDownload
  <2> QED BY <1>2, <1>3, <2>1, <2>3, <2>4, CurlStepHolds
<1>5. CASE s.call[r] # "woken"
  <2>1. s.call[r] = "asked" /\ s.uv = "open"
    BY <1>1, <1>2, <1>3, <1>5 DEF ReportInv
  <2>2. CheckCurlInfo(Popped, s, AwaitChunk(Checked(s), r))
    BY <1>5 DEF DownloadResumes
  <2> QED BY <1>2, <1>3, <2>1, <2>2, CheckAndAwaitHolds
<1> QED BY <1>4, <1>5

LEMMA AskChunkHolds ==
    ASSUME CurlInv, NEW r \in Downloads, AskChunk(r)
    PROVE  CurlInv'
<1>1. /\ resumable \in HandleQueue(Downloads) /\ NoDuplicates(resumable) /\ CurlOk(s)
      /\ \A q \in Queued(resumable) : s.call[q] \in {"woken", "asked"}
  BY DEF CurlInv, CurlQueueInv
<1>2. /\ s.call[r] = "yielded" /\ s.uv = "open" /\ Running /\ phase' = phase
      /\ resumable' = Enqueue(resumable, r) /\ s' = MovedTo(s, r, "asked")
  BY DEF AskChunk, Becomes, Readied, MovedTo
<1>3. /\ resumable' \in HandleQueue(Downloads) /\ NoDuplicates(resumable')
      /\ Queued(resumable') = Queued(resumable) \cup {r}
  BY <1>1, <1>2, EnqueueHolds, CurlAssumption
<1>4. s \in CurlStates /\ ReportInv(s, r) /\ EndInv(s, r)
  BY <1>1 DEF CurlOk
<1>5. DownloadMoves(s, s', r, "asked") /\ s'.yielded[r] = s.yielded[r]
  <2>1. "asked" \in DownloadCalls
    BY DEF DownloadCalls
  <2> QED BY <1>2, <1>4, <2>1, MovesStep
<1>6. /\ s'.uv = s.uv /\ s'.call[r] = "asked" /\ s'.outcome[r] = s.outcome[r]
      /\ s'.told = s.told /\ s'.msgs = s.msgs /\ s'.broken = s.broken
      /\ s'.received[r] = s.received[r] /\ MovesDownload(s, s', r, "asked")
  BY <1>5 DEF DownloadMoves, MovesDownload
<1>7. ReportInv(s', r) /\ EndInv(s', r)
  BY <1>2, <1>4, <1>5, <1>6 DEF ReportInv, EndInv
<1>8. CurlOk(s')
  BY <1>1, <1>2, <1>5, <1>7, MovedOk
<1>9. \A q \in Queued(resumable') : s'.call[q] \in {"woken", "asked"}
  BY <1>1, <1>3, <1>6, QueuedType DEF MovesDownload
<1> QED BY <1>2, <1>3, <1>8, <1>9, CurlStepHolds

LEMMA GetHolds ==
    ASSUME CurlInv, NEW r \in Downloads, Get(r)
    PROVE  CurlInv'
<1>1. /\ resumable \in HandleQueue(Downloads) /\ NoDuplicates(resumable)
      /\ \A q \in Queued(resumable) : s.call[q] \in {"woken", "asked"}
      /\ s \in CurlStates /\ IsFiniteSet(s.msgs) /\ PollInv(s)
      /\ \A q \in Downloads : ReportInv(s, q) /\ EndInv(s, q)
  BY DEF CurlInv, CurlQueueInv, CurlOk
<1>2. /\ s.call[r] = "none" /\ s.uv = "open" /\ Running /\ phase' = phase
      /\ resumable' = resumable /\ s' = [s EXCEPT !.call[r] = "new", !.timer = TRUE]
  BY DEF Get, Becomes
<1>3. s' \in CurlStates
  BY <1>1, <1>2 DEF CurlStates, DownloadCalls
<1>4. /\ s'.told = s.told /\ s'.msgs = s.msgs /\ s'.failed = s.failed /\ s'.broken = s.broken
      /\ s'.uv = s.uv /\ s'.timer = TRUE /\ s'.poll = s.poll /\ s'.request = s.request
      /\ s'.on = s.on /\ s'.outcome = s.outcome /\ s'.received = s.received
      /\ s'.yielded = s.yielded /\ MovesDownload(s, s', r, "new")
  BY <1>1, <1>2 DEF CurlStates, MovesDownload
<1>5. PollInv(s')
  <2>1. \A q \in Downloads : InTransfer(s, q) => InTransfer(s', q)
    BY <1>2, <1>4 DEF InTransfer, MovesDownload
  <2> QED BY <1>1, <1>2, <1>4, <2>1 DEF PollInv
<1>6. ReportInv(s', r) /\ EndInv(s', r)
  BY <1>1, <1>2, <1>4 DEF ReportInv, EndInv, MovesDownload
<1>7. ASSUME NEW q \in Downloads \ {r} PROVE ReportInv(s', q) /\ EndInv(s', q)
  <2>1. SameDownload(s, s', q) /\ s'.uv = s.uv
    BY <1>4 DEF SameDownload, SameTransfer, MovesDownload
  <2> QED BY <1>1, <2>1, DownloadKept
<1>8. CurlOk(s')
  BY <1>1, <1>3, <1>4, <1>5, <1>6, <1>7 DEF CurlOk
<1>9. \A q \in Queued(resumable') : s'.call[q] \in {"woken", "asked"}
  BY <1>1, <1>2, <1>4, QueuedType DEF MovesDownload
<1> QED BY <1>1, <1>2, <1>8, <1>9, CurlStepHolds

\* The transfer of r is over or dropped, and its socket given up.
Releases(st, o, r) ==
    /\ o.uv = st.uv /\ o.timer = st.timer /\ o.request = st.request
    /\ o.broken = st.broken /\ o.failed = st.failed
    /\ o.on[r] = Null /\ \A q \in Downloads \ {r} : o.on[q] = st.on[q]
    /\ \A k \in Sockets :
         o.poll[k] = IF k = st.on[r] /\ st.uv = "open" THEN "stopped" ELSE st.poll[k]

LEMMA ReleaseHolds ==
    ASSUME NEW st \in CurlStates, PollInv(st), NEW r \in Downloads, NEW o, Releases(st, o, r),
           ~InTransfer(o, r), \A q \in Downloads \ {r} : InTransfer(o, q) <=> InTransfer(st, q)
    PROVE  PollInv(o)
<1> USE CurlAssumption
<1>1. st.on \in [Downloads -> Sockets \cup {Null}]
  BY CurlFields
<1>2. ASSUME NEW q \in Downloads, o.on[q] # Null
      PROVE  /\ o.uv = "open" /\ InTransfer(o, q) /\ o.request[o.on[q]] = q
             /\ o.poll[o.on[q]] = "active" <=> q \notin o.broken
  <2>1. q # r /\ o.on[q] = st.on[q] /\ st.on[q] \in Sockets
    BY <1>1, <1>2 DEF Releases
  <2>2. st.on[q] # st.on[r]
    BY <2>1 DEF PollInv
  <2>3. o.poll[o.on[q]] = st.poll[st.on[q]]
    BY <2>1, <2>2 DEF Releases
  <2> QED BY <1>2, <2>1, <2>3 DEF PollInv, Releases
<1>3. ASSUME NEW k \in Sockets, o.poll[k] = "active"
      PROVE  \E q \in Downloads : o.on[q] = k
  <2>1. st.poll[k] = "active" /\ ~(k = st.on[r] /\ st.uv = "open")
    BY <1>3 DEF Releases
  <2>2. PICK q \in Downloads : st.on[q] = k
    BY <2>1 DEF PollInv
  <2>3. q # r
    BY <2>1, <2>2 DEF PollInv
  <2> QED BY <2>2, <2>3 DEF Releases
<1>4. o.timer => o.uv = "open"
  BY DEF PollInv, Releases
<1>5. o.failed \subseteq o.broken
  BY DEF PollInv, Releases
<1> QED BY <1>2, <1>3, <1>4, <1>5 DEF PollInv

\* uvStopPoll()
LEMMA StopPollIs ==
    ASSUME NEW st \in CurlStates, NEW r \in Downloads, NEW o, o = uvStopPoll(st, st.on[r])
    PROVE  /\ o \in CurlStates
           /\ o.told = st.told /\ o.msgs = st.msgs /\ o.failed = st.failed /\ o.broken = st.broken
           /\ o.uv = st.uv /\ o.timer = st.timer /\ o.request = st.request
           /\ o.on = st.on /\ o.outcome = st.outcome /\ o.received = st.received
           /\ o.yielded = st.yielded /\ o.call = st.call
           /\ \A k \in Sockets :
                o.poll[k] = IF k = st.on[r] /\ st.uv = "open" THEN "stopped" ELSE st.poll[k]
<1> USE CurlAssumption
<1>1. st.on[r] \in Sockets \cup {Null} /\ st.poll \in [Sockets -> {"none", "active", "stopped"}]
  BY CurlFields
<1>2. CASE st.on[r] = Null \/ st.uv # "open"
  BY <1>1, <1>2 DEF uvStopPoll
<1>3. CASE ~(st.on[r] = Null \/ st.uv # "open")
  <2> DEFINE p == [st.poll EXCEPT ![st.on[r]] = "stopped"]
  <2>1. o = [st EXCEPT !.poll = p]
    BY <1>3 DEF uvStopPoll
  <2>2. /\ p \in [Sockets -> {"none", "active", "stopped"}]
        /\ \A k \in Sockets : p[k] = IF k = st.on[r] THEN "stopped" ELSE st.poll[k]
    BY <1>1, <1>3
  <2> HIDE DEF p
  <2>3. o \in CurlStates
    BY <2>1, <2>2 DEF CurlStates
  <2>4. /\ o.told = st.told /\ o.msgs = st.msgs /\ o.failed = st.failed /\ o.broken = st.broken
        /\ o.uv = st.uv /\ o.timer = st.timer /\ o.request = st.request
        /\ o.on = st.on /\ o.outcome = st.outcome /\ o.received = st.received
        /\ o.yielded = st.yielded /\ o.call = st.call /\ o.poll = p
    BY <2>1 DEF CurlStates
  <2> QED BY <1>3, <2>2, <2>3, <2>4
<1> QED BY <1>2, <1>3

LEMMA DropRequestHolds ==
    ASSUME CurlInv, NEW r \in Downloads, DropRequest(r)
    PROVE  CurlInv'
<1>1. /\ resumable \in HandleQueue(Downloads) /\ NoDuplicates(resumable)
      /\ \A q \in Queued(resumable) : s.call[q] \in {"woken", "asked"}
      /\ s \in CurlStates /\ IsFiniteSet(s.msgs) /\ PollInv(s)
      /\ \A q \in Downloads : ReportInv(s, q) /\ EndInv(s, q)
  BY DEF CurlInv, CurlQueueInv, CurlOk
<1> DEFINE st == uvStopPoll(s, s.on[r])
           msgs == st.msgs \ {r}
<1>2. /\ Running /\ phase' = phase /\ resumable' = CancelAll(resumable, {r})
      /\ s' = [st EXCEPT !.call[r] = "gone", !.on[r] = Null, !.msgs = msgs]
  BY DEF DropRequest, Becomes, Dropped
<1>3. /\ st \in CurlStates
      /\ st.told = s.told /\ st.msgs = s.msgs /\ st.failed = s.failed /\ st.broken = s.broken
      /\ st.uv = s.uv /\ st.timer = s.timer /\ st.request = s.request
      /\ st.on = s.on /\ st.outcome = s.outcome /\ st.received = s.received
      /\ st.yielded = s.yielded /\ st.call = s.call
      /\ \A k \in Sockets :
           st.poll[k] = IF k = s.on[r] /\ s.uv = "open" THEN "stopped" ELSE s.poll[k]
  BY <1>1, StopPollIs
<1>4. /\ msgs \in SUBSET Downloads /\ IsFiniteSet(msgs) /\ r \notin msgs
      /\ \A q \in Downloads \ {r} : q \in msgs <=> q \in s.msgs
  BY <1>1, <1>3, FS_RemoveElement, CurlFields
<1> HIDE DEF st, msgs
<1>5. s' \in CurlStates
  BY <1>2, <1>3, <1>4 DEF CurlStates, DownloadCalls
<1>6. /\ s'.told = st.told /\ s'.msgs = msgs /\ s'.failed = st.failed /\ s'.broken = st.broken
      /\ s'.uv = st.uv /\ s'.timer = st.timer /\ s'.poll = st.poll /\ s'.request = st.request
      /\ s'.outcome = st.outcome /\ s'.received = st.received /\ s'.yielded = st.yielded
      /\ s'.on[r] = Null /\ \A q \in Downloads \ {r} : s'.on[q] = st.on[q]
      /\ MovesDownload(st, s', r, "gone")
  BY <1>2, <1>3 DEF CurlStates, MovesDownload
<1>7. MovesDownload(s, s', r, "gone")
  BY <1>3, <1>6 DEF MovesDownload
<1>8. PollInv(s')
  <2>1. Releases(s, s', r)
    BY <1>3, <1>6 DEF Releases
  <2>2. ~InTransfer(s', r) /\ \A q \in Downloads \ {r} : InTransfer(s', q) <=> InTransfer(s, q)
    BY <1>3, <1>6, <1>7 DEF InTransfer, MovesDownload
  <2> QED BY <1>1, <2>1, <2>2, ReleaseHolds
<1>9. ReportInv(s', r) /\ EndInv(s', r)
  BY <1>1, <1>3, <1>4, <1>6, <1>7 DEF ReportInv, EndInv, MovesDownload
<1>10. ASSUME NEW q \in Downloads \ {r} PROVE ReportInv(s', q) /\ EndInv(s', q)
  <2>1. SameDownload(s, s', q) /\ s'.uv = s.uv
    BY <1>3, <1>4, <1>6, <1>7 DEF SameDownload, SameTransfer, MovesDownload
  <2> QED BY <1>1, <2>1, DownloadKept
<1>11. CurlOk(s')
  BY <1>4, <1>5, <1>6, <1>8, <1>9, <1>10 DEF CurlOk
<1>12. /\ resumable' \in HandleQueue(Downloads) /\ NoDuplicates(resumable')
       /\ Queued(resumable') = Queued(resumable) \ {r}
  BY <1>1, <1>2, CancelHolds
<1>13. \A q \in Queued(resumable') : s'.call[q] \in {"woken", "asked"}
  BY <1>1, <1>7, <1>12, QueuedType DEF MovesDownload
<1> QED BY <1>2, <1>11, <1>12, <1>13, CurlStepHolds

LEMMA CurlCloseHolds ==
    ASSUME CurlInv, CurlClose
    PROVE  CurlInv'
<1>1. /\ resumable \in HandleQueue(Downloads) /\ NoDuplicates(resumable)
      /\ \A q \in Queued(resumable) : s.call[q] \in {"woken", "asked"}
      /\ s \in CurlStates /\ PollInv(s)
      /\ \A q \in Downloads : ReportInv(s, q) /\ EndInv(s, q)
  BY DEF CurlInv, CurlQueueInv, CurlOk
<1> DEFINE on == [r \in Downloads |-> Null]
           poll == [k \in Sockets |-> "none"]
           request == [k \in Sockets |-> Null]
<1>2. /\ Running /\ phase' = phase /\ resumable' = resumable
      /\ \A q \in Downloads : s.call[q] \notin {"waiting", "woken", "asked"}
      /\ s' = [s EXCEPT !.uv = "closing", !.timer = FALSE, !.msgs = {}, !.on = on,
                        !.poll = poll, !.request = request]
  BY DEF CurlClose, Becomes
<1>3. /\ on \in [Downloads -> Sockets \cup {Null}] /\ \A r \in Downloads : on[r] = Null
      /\ poll \in [Sockets -> {"none", "active", "stopped"}] /\ \A k \in Sockets : poll[k] = "none"
      /\ request \in [Sockets -> Downloads \cup {Null}]
  OBVIOUS
<1> HIDE DEF on, poll, request
<1>4. s' \in CurlStates
  BY <1>1, <1>2, <1>3 DEF CurlStates
<1>5. /\ s'.told = s.told /\ s'.msgs = {} /\ s'.failed = s.failed /\ s'.broken = s.broken
      /\ s'.uv = "closing" /\ s'.timer = FALSE /\ s'.poll = poll /\ s'.on = on
      /\ s'.outcome = s.outcome /\ s'.received = s.received /\ s'.yielded = s.yielded
      /\ s'.call = s.call
  BY <1>1, <1>2 DEF CurlStates
<1>6. PollInv(s')
  BY <1>1, <1>3, <1>5 DEF PollInv
<1>7. ASSUME NEW q \in Downloads PROVE ReportInv(s', q) /\ EndInv(s', q)
  BY <1>1, <1>2, <1>5 DEF ReportInv, EndInv
<1>8. CurlOk(s')
  BY <1>4, <1>5, <1>6, <1>7, FS_EmptySet DEF CurlOk
<1> QED BY <1>1, <1>2, <1>5, <1>8, CurlStepHolds

LEMMA OpensHolds ==
    ASSUME CurlInv, NEW r \in Downloads, NEW k \in Sockets, NEW again \in BOOLEAN,
           onUvTimeoutOpens(r, k, again)
    PROVE  CurlInv'
<1> USE CurlAssumption
<1>1. /\ resumable \in HandleQueue(Downloads) /\ NoDuplicates(resumable)
      /\ \A q \in Queued(resumable) : s.call[q] \in {"woken", "asked"}
      /\ s \in CurlStates /\ IsFiniteSet(s.msgs) /\ PollInv(s)
      /\ \A q \in Downloads : ReportInv(s, q) /\ EndInv(s, q)
  BY DEF CurlInv, CurlQueueInv, CurlOk
<1> DEFINE request == [s.request EXCEPT ![k] = r]
           poll == [s.poll EXCEPT ![k] = "active"]
           on == [s.on EXCEPT ![r] = k]
<1>2. /\ resumable' = resumable /\ phase' = phase
      /\ s' = [s EXCEPT !.request = request, !.poll = poll, !.on = on, !.timer = again]
  BY <1>1 DEF onUvTimeoutOpens, Becomes, InitPoll, CurlStates
<1>3. /\ InUv /\ s.timer /\ InTransfer(s, r) /\ s.on[r] = Null /\ r \notin s.broken
      /\ \A q \in Downloads : s.on[q] # k
  BY DEF onUvTimeoutOpens
<1>4. /\ request \in [Sockets -> Downloads \cup {Null}]
      /\ poll \in [Sockets -> {"none", "active", "stopped"}]
      /\ on \in [Downloads -> Sockets \cup {Null}]
      /\ request[k] = r /\ poll[k] = "active" /\ on[r] = k
      /\ \A q \in Downloads \ {r} : on[q] = s.on[q]
      /\ \A l \in Sockets \ {k} : request[l] = s.request[l] /\ poll[l] = s.poll[l]
  BY <1>1, CurlFields
<1> HIDE DEF request, poll, on
<1>5. s' \in CurlStates
  BY <1>1, <1>2, <1>4 DEF CurlStates
<1>6. /\ s'.told = s.told /\ s'.msgs = s.msgs /\ s'.failed = s.failed /\ s'.broken = s.broken
      /\ s'.uv = s.uv /\ s'.timer = again /\ s'.poll = poll /\ s'.on = on /\ s'.request = request
      /\ s'.outcome = s.outcome /\ s'.received = s.received /\ s'.yielded = s.yielded
      /\ s'.call = s.call
  BY <1>1, <1>2 DEF CurlStates
<1>7. \A q \in Downloads : InTransfer(s', q) <=> InTransfer(s, q)
  BY <1>6 DEF InTransfer
<1>8. PollInv(s')
  <2>1. s.uv = "open"
    BY <1>1, <1>3 DEF PollInv
  <2>2. ASSUME NEW q \in Downloads, s'.on[q] # Null
        PROVE  /\ s'.uv = "open" /\ InTransfer(s', q) /\ s'.request[s'.on[q]] = q
               /\ s'.poll[s'.on[q]] = "active" <=> q \notin s'.broken
    <3>1. CASE q = r
      BY <1>3, <1>4, <1>6, <1>7, <2>1, <3>1
    <3>2. CASE q # r
      <4>1. s'.on[q] = s.on[q] /\ s.on[q] \in Sockets \ {k}
        BY <1>1, <1>3, <1>4, <1>6, <2>2, <3>2, CurlFields
      <4> QED BY <1>1, <1>4, <1>6, <1>7, <2>1, <2>2, <4>1 DEF PollInv
    <3> QED BY <3>1, <3>2
  <2>3. ASSUME NEW l \in Sockets, s'.poll[l] = "active"
        PROVE  \E q \in Downloads : s'.on[q] = l
    <3>1. CASE l = k
      BY <1>4, <1>6, <3>1
    <3>2. CASE l # k
      <4>1. PICK q \in Downloads : s.on[q] = l
        BY <1>1, <1>4, <1>6, <2>3, <3>2 DEF PollInv
      <4> QED BY <1>3, <1>4, <1>6, <4>1
    <3> QED BY <3>1, <3>2
  <2>4. s'.uv = "open" /\ s'.failed \subseteq s'.broken
    BY <1>1, <1>6, <2>1 DEF PollInv
  <2> QED BY <2>2, <2>3, <2>4 DEF PollInv
<1>9. ASSUME NEW q \in Downloads PROVE ReportInv(s', q) /\ EndInv(s', q)
  <2>1. SameDownload(s, s', q) /\ s'.uv = s.uv
    BY <1>6 DEF SameDownload, SameTransfer
  <2> QED BY <1>1, <2>1, DownloadKept
<1>10. CurlOk(s')
  BY <1>1, <1>5, <1>6, <1>8, <1>9 DEF CurlOk
<1> QED BY <1>1, <1>2, <1>6, <1>10, CurlStepHolds

\* A transfer ends, before the message about it is read.
LEMMA CompletedOk ==
    ASSUME NEW st, CurlOk(st), NEW r \in Downloads, InTransfer(st, r),
           NEW outcome \in {"ok", "http", "failed", "partial"},
           NEW o, o = Completed(st, r, outcome)
    PROVE  CurlOk(o) /\ o.uv = st.uv /\ o.call = st.call
<1>1. /\ st \in CurlStates /\ IsFiniteSet(st.msgs) /\ PollInv(st)
      /\ \A q \in Downloads : ReportInv(st, q) /\ EndInv(st, q)
  BY DEF CurlOk
<1> DEFINE p == uvStopPoll(st, st.on[r])
           msgs == p.msgs \cup {r}
<1>2. o = [p EXCEPT !.outcome[r] = outcome, !.on[r] = Null, !.msgs = msgs]
  BY DEF Completed
<1>3. /\ p \in CurlStates
      /\ p.told = st.told /\ p.msgs = st.msgs /\ p.failed = st.failed /\ p.broken = st.broken
      /\ p.uv = st.uv /\ p.timer = st.timer /\ p.request = st.request
      /\ p.on = st.on /\ p.outcome = st.outcome /\ p.received = st.received
      /\ p.yielded = st.yielded /\ p.call = st.call
      /\ \A k \in Sockets :
           p.poll[k] = IF k = st.on[r] /\ st.uv = "open" THEN "stopped" ELSE st.poll[k]
  BY <1>1, StopPollIs
<1>4. /\ msgs \in SUBSET Downloads /\ IsFiniteSet(msgs) /\ r \in msgs
      /\ \A q \in Downloads \ {r} : q \in msgs <=> q \in st.msgs
  BY <1>1, <1>3, FS_AddElement, CurlFields
<1> HIDE DEF p, msgs
<1>5. o \in CurlStates
  <2> DEFINE ended == [p.outcome EXCEPT ![r] = outcome]
             on == [p.on EXCEPT ![r] = Null]
  <2>1. ended \in [Downloads -> Outcomes] /\ on \in [Downloads -> Sockets \cup {Null}]
    BY <1>3, CurlFields DEF Outcomes
  <2>2. o = [p EXCEPT !.outcome = ended, !.on = on, !.msgs = msgs]
    BY <1>2
  <2> HIDE DEF ended, on
  <2> QED BY <1>3, <1>4, <2>1, <2>2 DEF CurlStates
<1>6. /\ o.told = p.told /\ o.msgs = msgs /\ o.failed = p.failed /\ o.broken = p.broken
      /\ o.uv = p.uv /\ o.timer = p.timer /\ o.poll = p.poll /\ o.request = p.request
      /\ o.received = p.received /\ o.yielded = p.yielded /\ o.call = p.call
      /\ o.on[r] = Null /\ \A q \in Downloads \ {r} : o.on[q] = p.on[q]
      /\ o.outcome[r] = outcome /\ \A q \in Downloads \ {r} : o.outcome[q] = p.outcome[q]
  BY <1>2, <1>3 DEF CurlStates
<1>7. PollInv(o)
  <2>1. Releases(st, o, r)
    BY <1>3, <1>6 DEF Releases
  <2>2. ~InTransfer(o, r) /\ \A q \in Downloads \ {r} : InTransfer(o, q) <=> InTransfer(st, q)
    BY <1>3, <1>6 DEF InTransfer
  <2> QED BY <1>1, <2>1, <2>2, ReleaseHolds
<1>8. ReportInv(o, r) /\ EndInv(o, r)
  <2>1. /\ st.outcome[r] = "running" /\ st.call[r] \notin {"none", "gone"}
        /\ ReportInv(st, r) /\ EndInv(st, r)
    BY <1>1 DEF InTransfer
  <2>2. /\ o.outcome[r] = outcome /\ r \in o.msgs /\ o.told = st.told /\ o.failed = st.failed
        /\ o.broken = st.broken /\ o.uv = st.uv /\ o.received = st.received
        /\ o.yielded = st.yielded /\ o.call = st.call
    BY <1>3, <1>4, <1>6
  <2>3. st.call[r] # "done" /\ (st.call[r] = "threw" => r \in st.broken)
    BY <2>1 DEF ReportInv
  <2> QED BY <2>1, <2>2, <2>3 DEF ReportInv, EndInv
<1>9. ASSUME NEW q \in Downloads \ {r} PROVE ReportInv(o, q) /\ EndInv(o, q)
  <2>1. SameDownload(st, o, q) /\ o.uv = st.uv
    BY <1>3, <1>4, <1>6 DEF SameDownload, SameTransfer
  <2> QED BY <1>1, <2>1, DownloadKept
<1> QED BY <1>3, <1>4, <1>5, <1>6, <1>7, <1>8, <1>9 DEF CurlOk

LEMMA TimeoutEndsHolds ==
    ASSUME CurlInv, NEW r \in Downloads, NEW outcome \in {"ok", "http", "failed", "partial"},
           onUvTimeoutEnds(r, outcome)
    PROVE  CurlInv'
<1>1. /\ resumable \in HandleQueue(Downloads) /\ NoDuplicates(resumable) /\ CurlOk(s)
      /\ \A q \in Queued(resumable) : s.call[q] \in {"woken", "asked"}
  BY DEF CurlInv, CurlQueueInv
<1>2. InTransfer(s, r) /\ resumable' = resumable /\ s' = Completed(s, r, outcome)
  BY DEF onUvTimeoutEnds, Becomes
<1>3. CurlOk(s') /\ s'.call = s.call
  BY <1>1, <1>2, CompletedOk
<1> QED BY <1>1, <1>2, <1>3, CurlStepHolds

\* The transfer of a socket goes on.
LEMMA SocketInTransfer ==
    ASSUME CurlInv, NEW r \in Downloads, s.on[r] # Null
    PROVE  InTransfer(s, r)
BY DEF CurlInv, CurlOk, PollInv

LEMMA SocketEndsHolds ==
    ASSUME CurlInv, NEW r \in Downloads, NEW outcome \in {"ok", "http", "failed", "partial"},
           onCurlSocketEnds(r, outcome)
    PROVE  CurlInv'
<1>1. /\ resumable \in HandleQueue(Downloads) /\ NoDuplicates(resumable) /\ CurlOk(s)
      /\ \A q \in Queued(resumable) : s.call[q] \in {"woken", "asked"}
  BY DEF CurlInv, CurlQueueInv
<1> DEFINE st == Completed(s, r, outcome)
<1>2. s.on[r] # Null /\ CheckCurlInfo(resumable, st, Checked(st))
  BY DEF onCurlSocketEnds
<1>3. InTransfer(s, r)
  BY <1>2, SocketInTransfer
<1>4. CurlOk(st) /\ st.uv = s.uv /\ st.call = s.call
  BY <1>1, <1>3, CompletedOk
<1> HIDE DEF st
<1>5. /\ CurlOk(Checked(st)) /\ Checked(st).uv = st.uv
      /\ \A q \in Downloads : Checked(st).call[q] = IF q \in CheckWakes(st) THEN "woken" ELSE st.call[q]
  BY <1>4, CheckedOk
<1>6. /\ s' = Checked(st) /\ phase' = phase
      /\ resumable' \in HandleQueue(Downloads) /\ NoDuplicates(resumable')
      /\ Queued(resumable') = Queued(resumable) \cup CheckWakes(st)
  BY <1>1, <1>2, <1>4, CheckQueue
<1>7. \A q \in Queued(resumable') : s'.call[q] \in {"woken", "asked"}
  BY <1>1, <1>4, <1>5, <1>6, QueuedType
<1> QED BY <1>5, <1>6, <1>7, CurlStepHolds

\* A queue and whom onDataAvailable() or onError() wakes
LEMMA WakesQueue ==
    ASSUME NEW queue \in HandleQueue(Downloads), NoDuplicates(queue), NEW r \in Downloads, NEW st,
           \A q \in Queued(queue) : st.call[q] # "waiting"
    PROVE  /\ queue \o Wakes(st, r) \in HandleQueue(Downloads) /\ NoDuplicates(queue \o Wakes(st, r))
           /\ Queued(queue \o Wakes(st, r))
                = Queued(queue) \cup (IF st.call[r] = "waiting" THEN {r} ELSE {})
<1> USE CurlAssumption
<1>1. CASE st.call[r] = "waiting"
  <2>1. <<r>> \in HandleQueue(Downloads) /\ NoDuplicates(<<r>>) /\ Queued(<<r>>) = {r}
    BY DEF HandleQueue, NoDuplicates, Queued
  <2>2. Wakes(st, r) = <<r>> /\ r \notin Queued(queue)
    BY <1>1 DEF Wakes
  <2> QED BY <1>1, <2>1, <2>2, ConcatHolds
<1>2. CASE st.call[r] # "waiting"
  <2>1. <<>> \in HandleQueue(Downloads) /\ NoDuplicates(<<>>) /\ Queued(<<>>) = {}
    BY EmptyHolds
  <2>2. Wakes(st, r) = <<>>
    BY <1>2 DEF Wakes
  <2> QED BY <1>2, <2>1, <2>2, ConcatHolds
<1> QED BY <1>1, <1>2

\* onDataAvailable(): a chunk is added, and the download woken if it waits.
LEMMA DataOk ==
    ASSUME NEW st, CurlOk(st), NEW r \in Downloads, InTransfer(st, r),
           NEW o, o = Woken([st EXCEPT !.received[r] = @ + 1], r)
    PROVE  /\ CurlOk(o) /\ o.uv = st.uv
           /\ MovesDownload(st, o, r, IF st.call[r] = "waiting" THEN "woken" ELSE st.call[r])
<1>1. /\ st \in CurlStates /\ IsFiniteSet(st.msgs) /\ PollInv(st)
      /\ \A q \in Downloads : ReportInv(st, q) /\ EndInv(st, q)
  BY DEF CurlOk
<1> DEFINE how == IF st.call[r] = "waiting" THEN "woken" ELSE st.call[r]
           received == [st.received EXCEPT ![r] = @ + 1]
           call == [st.call EXCEPT ![r] = how]
           p == [st EXCEPT !.received = received]
<1>2. /\ received \in [Downloads -> Nat] /\ received[r] = st.received[r] + 1
      /\ call \in [Downloads -> DownloadCalls] /\ call[r] = how
      /\ \A q \in Downloads \ {r} : received[q] = st.received[q] /\ call[q] = st.call[q]
      /\ st.received[r] \in Nat /\ st.yielded[r] \in Nat
  BY <1>1, CurlFields DEF DownloadCalls
<1>3. /\ o.told = st.told /\ o.msgs = st.msgs /\ o.failed = st.failed /\ o.broken = st.broken
      /\ o.uv = st.uv /\ o.timer = st.timer /\ o.poll = st.poll /\ o.request = st.request
      /\ o.on = st.on /\ o.outcome = st.outcome /\ o.yielded = st.yielded
      /\ o.received = received /\ o.call = call /\ o \in CurlStates
  <2>1. /\ p.told = st.told /\ p.msgs = st.msgs /\ p.failed = st.failed /\ p.broken = st.broken
        /\ p.uv = st.uv /\ p.timer = st.timer /\ p.poll = st.poll /\ p.request = st.request
        /\ p.on = st.on /\ p.outcome = st.outcome /\ p.yielded = st.yielded
        /\ p.received = received /\ p.call = st.call
    BY <1>1 DEF CurlStates
  <2>2. p \in CurlStates
    <3> HIDE DEF received
    <3> QED BY <1>1, <1>2 DEF CurlStates
  <2>3. o = Woken(p, r)
    OBVIOUS
  <2> HIDE DEF p, received
  <2>4. CASE st.call[r] = "waiting"
    <3>1. o = [p EXCEPT !.call = call]
      BY <2>1, <2>2, <2>3, <2>4 DEF Woken, CurlStates
    <3> HIDE DEF call
    <3>2. o \in CurlStates
      BY <1>2, <2>2, <3>1 DEF CurlStates
    <3>3. /\ o.told = p.told /\ o.msgs = p.msgs /\ o.failed = p.failed /\ o.broken = p.broken
          /\ o.uv = p.uv /\ o.timer = p.timer /\ o.poll = p.poll /\ o.request = p.request
          /\ o.on = p.on /\ o.outcome = p.outcome /\ o.yielded = p.yielded
          /\ o.received = p.received /\ o.call = call
      BY <2>2, <3>1 DEF CurlStates
    <3> QED BY <2>1, <3>2, <3>3
  <2>5. CASE st.call[r] # "waiting"
    <3>1. o = p
      BY <2>1, <2>3, <2>5 DEF Woken
    <3>2. call = st.call
      BY <1>1, <2>5, CurlFields
    <3> HIDE DEF call
    <3> QED BY <2>1, <2>2, <3>1, <3>2
  <2> QED BY <2>4, <2>5
<1> HIDE DEF received, call
<1>4. MovesDownload(st, o, r, how)
  BY <1>2, <1>3 DEF MovesDownload
<1>5. PollInv(o)
  <2>1. \A q \in Downloads : o.call[q] \in {"none", "gone"} <=> st.call[q] \in {"none", "gone"}
    BY <1>4 DEF MovesDownload
  <2> QED BY <1>1, <1>3, <2>1, PollsKept
<1>6. ReportInv(o, r) /\ EndInv(o, r)
  <2>1. /\ st.outcome[r] = "running" /\ st.call[r] \notin {"none", "gone"}
        /\ ReportInv(st, r) /\ EndInv(st, r)
    BY <1>1 DEF InTransfer
  <2>2. o.received[r] = st.received[r] + 1 /\ o.call[r] = how
    BY <1>2, <1>3
  <2>3. CASE st.call[r] = "waiting"
    BY <1>2, <1>3, <2>1, <2>2, <2>3 DEF ReportInv, EndInv
  <2>4. CASE st.call[r] # "waiting"
    BY <1>2, <1>3, <2>1, <2>2, <2>4 DEF ReportInv, EndInv
  <2> QED BY <2>3, <2>4
<1>7. ASSUME NEW q \in Downloads \ {r} PROVE ReportInv(o, q) /\ EndInv(o, q)
  <2>1. SameDownload(st, o, q) /\ o.uv = st.uv
    BY <1>2, <1>3 DEF SameDownload, SameTransfer
  <2> QED BY <1>1, <2>1, DownloadKept
<1> QED BY <1>1, <1>3, <1>4, <1>5, <1>6, <1>7 DEF CurlOk

LEMMA SocketDataHolds ==
    ASSUME CurlInv, NEW r \in Downloads, onCurlSocketData(r)
    PROVE  CurlInv'
<1>1. /\ resumable \in HandleQueue(Downloads) /\ NoDuplicates(resumable) /\ CurlOk(s)
      /\ \A q \in Queued(resumable) : s.call[q] \in {"woken", "asked"}
  BY DEF CurlInv, CurlQueueInv
<1> DEFINE st == Woken([s EXCEPT !.received[r] = @ + 1], r)
           queue == resumable \o Wakes(s, r)
           how == IF s.call[r] = "waiting" THEN "woken" ELSE s.call[r]
<1>2. s.on[r] # Null /\ CheckCurlInfo(queue, st, Checked(st))
  BY DEF onCurlSocketData
<1>3. InTransfer(s, r)
  BY <1>2, SocketInTransfer
<1>4. CurlOk(st) /\ st.uv = s.uv /\ MovesDownload(s, st, r, how)
  BY <1>1, <1>3, DataOk
<1> HIDE DEF st
<1>6. /\ CurlOk(Checked(st)) /\ Checked(st).uv = st.uv
      /\ \A q \in Downloads : Checked(st).call[q] = IF q \in CheckWakes(st) THEN "woken" ELSE st.call[q]
  BY <1>4, CheckedOk
<1>7. /\ queue \in HandleQueue(Downloads) /\ NoDuplicates(queue)
      /\ Queued(queue) = Queued(resumable) \cup (IF s.call[r] = "waiting" THEN {r} ELSE {})
  BY <1>1, WakesQueue
<1> HIDE DEF queue
<1>8. \A q \in Queued(queue) : st.call[q] \in {"woken", "asked"}
  BY <1>1, <1>4, <1>7, QueuedType DEF MovesDownload
<1>9. /\ s' = Checked(st) /\ phase' = phase
      /\ resumable' \in HandleQueue(Downloads) /\ NoDuplicates(resumable')
      /\ Queued(resumable') = Queued(queue) \cup CheckWakes(st)
  BY <1>2, <1>4, <1>7, <1>8, CheckQueue
<1>10. \A q \in Queued(resumable') : s'.call[q] \in {"woken", "asked"}
  BY <1>6, <1>8, <1>9, QueuedType
<1> QED BY <1>6, <1>9, <1>10, CurlStepHolds

LEMMA TimeoutDataHolds ==
    ASSUME CurlInv, NEW r \in Downloads, onUvTimeoutData(r)
    PROVE  CurlInv'
<1>1. /\ resumable \in HandleQueue(Downloads) /\ NoDuplicates(resumable) /\ CurlOk(s)
      /\ \A q \in Queued(resumable) : s.call[q] \in {"woken", "asked"}
  BY DEF CurlInv, CurlQueueInv
<1>2. /\ s.on[r] # Null /\ resumable' = resumable \o Wakes(s, r)
      /\ s' = Woken([s EXCEPT !.received[r] = @ + 1], r)
  BY DEF onUvTimeoutData, Becomes
<1>3. InTransfer(s, r)
  BY <1>2, SocketInTransfer
<1>4. /\ CurlOk(s') /\ s'.uv = s.uv
      /\ MovesDownload(s, s', r, IF s.call[r] = "waiting" THEN "woken" ELSE s.call[r])
  BY <1>1, <1>2, <1>3, DataOk
<1>5. /\ resumable' \in HandleQueue(Downloads) /\ NoDuplicates(resumable')
      /\ Queued(resumable') = Queued(resumable) \cup (IF s.call[r] = "waiting" THEN {r} ELSE {})
  BY <1>1, <1>2, WakesQueue
<1>6. \A q \in Queued(resumable') : s'.call[q] \in {"woken", "asked"}
  BY <1>1, <1>4, <1>5, QueuedType DEF MovesDownload
<1> QED BY <1>4, <1>5, <1>6, CurlStepHolds

LEMMA SocketErrorHolds ==
    ASSUME CurlInv, NEW k \in Sockets, onCurlSocketError(k)
    PROVE  CurlInv'
<1> USE CurlAssumption
<1>1. /\ resumable \in HandleQueue(Downloads) /\ NoDuplicates(resumable) /\ CurlOk(s)
      /\ \A q \in Queued(resumable) : s.call[q] \in {"woken", "asked"}
      /\ s \in CurlStates /\ IsFiniteSet(s.msgs) /\ PollInv(s)
      /\ \A q \in Downloads : ReportInv(s, q) /\ EndInv(s, q)
  BY DEF CurlInv, CurlQueueInv, CurlOk
<1>2. PICK r \in Downloads : s.on[r] = k
  BY <1>1 DEF PollInv, onCurlSocketError
<1>3. /\ s.request[k] = r /\ s.uv = "open" /\ s.failed \subseteq s.broken
      /\ \A q \in Downloads \ {r} : s.on[q] # k
  BY <1>1, <1>2 DEF PollInv
<1> DEFINE how == IF s.call[r] = "waiting" THEN "woken" ELSE s.call[r]
           poll == [s.poll EXCEPT ![k] = "stopped"]
           call == [s.call EXCEPT ![r] = how]
           broken == s.broken \cup {r}
           failed == IF s.call[r] = "waiting" THEN s.failed \cup {r} ELSE s.failed
<1>4. resumable' = resumable \o Wakes(s, r)
  BY <1>3 DEF onCurlSocketError, Becomes
<1>5. s' = [s EXCEPT !.call = call, !.poll = poll, !.broken = broken, !.failed = failed]
  <2>1. {q \in Downloads : s.on[q] = k} = {r}
    BY <1>2, <1>3
  <2>2. s' = [Woken(s, r) EXCEPT !.poll[k] = "stopped", !.broken = @ \cup {r},
                                 !.failed = IF s.call[r] = "waiting" THEN @ \cup {r} ELSE @]
    BY <1>3, <2>1 DEF onCurlSocketError, Becomes
  <2>3. Woken(s, r) = [s EXCEPT !.call = call]
    <3>1. CASE s.call[r] = "waiting"
      BY <3>1 DEF Woken
    <3>2. CASE s.call[r] # "waiting"
      <4>1. call = s.call
        BY <1>1, <3>2, CurlFields
      <4> HIDE DEF call
      <4> QED BY <1>1, <3>2, <4>1 DEF Woken, CurlStates
    <3> QED BY <3>1, <3>2
  <2> HIDE DEF call
  <2> QED BY <1>1, <2>2, <2>3 DEF CurlStates
<1>6. /\ poll \in [Sockets -> {"none", "active", "stopped"}] /\ poll[k] = "stopped"
      /\ \A l \in Sockets \ {k} : poll[l] = s.poll[l]
      /\ call \in [Downloads -> DownloadCalls] /\ call[r] = how
      /\ \A q \in Downloads \ {r} : call[q] = s.call[q]
      /\ broken \in SUBSET Downloads /\ failed \in SUBSET Downloads
  BY <1>1, CurlFields DEF CurlStates, DownloadCalls
<1>7. /\ r \in broken /\ failed \subseteq broken /\ s.broken \subseteq broken
      /\ (s.call[r] = "waiting" => r \in failed) /\ s.failed \subseteq failed
      /\ \A q \in Downloads \ {r} : (q \in broken <=> q \in s.broken) /\ (q \in failed <=> q \in s.failed)
  BY <1>3
<1> HIDE DEF poll, call, broken, failed
<1>8. s' \in CurlStates
  BY <1>1, <1>5, <1>6 DEF CurlStates
<1>9. /\ s'.told = s.told /\ s'.msgs = s.msgs /\ s'.failed = failed /\ s'.broken = broken
      /\ s'.uv = s.uv /\ s'.timer = s.timer /\ s'.poll = poll /\ s'.on = s.on
      /\ s'.request = s.request /\ s'.outcome = s.outcome /\ s'.received = s.received
      /\ s'.yielded = s.yielded /\ s'.call = call
  BY <1>1, <1>5 DEF CurlStates
<1>10. \A q \in Downloads : InTransfer(s', q) <=> InTransfer(s, q)
  BY <1>6, <1>9 DEF InTransfer
<1>11. PollInv(s')
  <2>1. ASSUME NEW q \in Downloads, s'.on[q] # Null
        PROVE  /\ s'.uv = "open" /\ InTransfer(s', q) /\ s'.request[s'.on[q]] = q
               /\ s'.poll[s'.on[q]] = "active" <=> q \notin s'.broken
    <3>1. CASE q = r
      BY <1>1, <1>2, <1>3, <1>6, <1>7, <1>9, <1>10, <2>1, <3>1 DEF PollInv
    <3>2. CASE q # r
      <4>1. s'.on[q] = s.on[q] /\ s.on[q] \in Sockets \ {k}
        BY <1>1, <1>3, <1>9, <2>1, <3>2, CurlFields
      <4> QED BY <1>1, <1>3, <1>6, <1>7, <1>9, <1>10, <2>1, <3>2, <4>1 DEF PollInv
    <3> QED BY <3>1, <3>2
  <2>2. \A l \in Sockets : s'.poll[l] = "active" => \E q \in Downloads : s'.on[q] = l
    BY <1>1, <1>6, <1>9 DEF PollInv
  <2> QED BY <1>3, <1>7, <1>9, <2>1, <2>2 DEF PollInv
<1>12. ReportInv(s', r) /\ EndInv(s', r)
  <2>1. ReportInv(s, r) /\ EndInv(s, r)
    BY <1>1
  <2>2. CASE s.call[r] = "waiting"
    BY <1>3, <1>6, <1>7, <1>9, <2>1, <2>2 DEF ReportInv, EndInv
  <2>3. CASE s.call[r] # "waiting"
    BY <1>3, <1>6, <1>7, <1>9, <2>1, <2>3 DEF ReportInv, EndInv
  <2> QED BY <2>2, <2>3
<1>13. ASSUME NEW q \in Downloads \ {r} PROVE ReportInv(s', q) /\ EndInv(s', q)
  <2>1. SameDownload(s, s', q) /\ s'.uv = s.uv
    BY <1>3, <1>6, <1>7, <1>9 DEF SameDownload, SameTransfer
  <2> QED BY <1>1, <2>1, DownloadKept
<1>14. CurlOk(s')
  BY <1>1, <1>8, <1>9, <1>11, <1>12, <1>13 DEF CurlOk
<1>15. /\ resumable' \in HandleQueue(Downloads) /\ NoDuplicates(resumable')
       /\ Queued(resumable') = Queued(resumable) \cup (IF s.call[r] = "waiting" THEN {r} ELSE {})
  BY <1>1, <1>4, WakesQueue
<1>16. \A q \in Queued(resumable') : s'.call[q] \in {"woken", "asked"}
  BY <1>1, <1>6, <1>9, <1>15, QueuedType
<1> QED BY <1>14, <1>15, <1>16, CurlStepHolds

LEMMA CurlClosedHolds ==
    ASSUME CurlInv, onCurlClosed
    PROVE  CurlInv'
<1>1. /\ resumable \in HandleQueue(Downloads) /\ NoDuplicates(resumable)
      /\ \A q \in Queued(resumable) : s.call[q] \in {"woken", "asked"}
      /\ s \in CurlStates /\ IsFiniteSet(s.msgs) /\ PollInv(s)
      /\ \A q \in Downloads : ReportInv(s, q) /\ EndInv(s, q)
  BY DEF CurlInv, CurlQueueInv, CurlOk
<1>2. s.uv = "closing" /\ resumable' = resumable /\ s' = [s EXCEPT !.uv = "freed"]
  BY DEF onCurlClosed, Becomes
<1>3. s' \in CurlStates
  BY <1>1, <1>2 DEF CurlStates
<1>4. /\ s'.told = s.told /\ s'.msgs = s.msgs /\ s'.failed = s.failed /\ s'.broken = s.broken
      /\ s'.uv = "freed" /\ s'.timer = s.timer /\ s'.poll = s.poll /\ s'.on = s.on
      /\ s'.request = s.request /\ s'.outcome = s.outcome /\ s'.received = s.received
      /\ s'.yielded = s.yielded /\ s'.call = s.call
  BY <1>1, <1>2 DEF CurlStates
<1>5. PollInv(s')
  BY <1>1, <1>2, <1>4 DEF PollInv
<1>6. \A q \in Downloads : ReportInv(s', q) /\ EndInv(s', q)
  BY <1>1, <1>2, <1>4 DEF ReportInv, EndInv
<1>7. CurlOk(s')
  BY <1>1, <1>3, <1>4, <1>5, <1>6 DEF CurlOk
<1> QED BY <1>1, <1>2, <1>4, <1>7, CurlStepHolds

LEMMA CurlInductive == CurlInv /\ [CurlNext \/ TakeTurns]_vars => CurlInv'
<1> SUFFICES ASSUME CurlInv, [CurlNext \/ TakeTurns]_vars
             PROVE  CurlInv'
  OBVIOUS
<1>1. CASE \E r \in Downloads : Get(r) \/ Start(r) \/ AskChunk(r)
  BY <1>1, GetHolds, StartHolds, AskChunkHolds
<1>2. CASE \E r \in Downloads : DownloadResumes(r) \/ DropRequest(r)
  BY <1>2, DownloadResumesHolds, DropRequestHolds
<1>3. CASE \E r \in Downloads : onCurlSocketData(r) \/ onUvTimeoutData(r)
  BY <1>3, SocketDataHolds, TimeoutDataHolds
<1>4. CASE \E r \in Downloads, k \in Sockets, again \in BOOLEAN : onUvTimeoutOpens(r, k, again)
  BY <1>4, OpensHolds
<1>5. CASE \E r \in Downloads, outcome \in {"ok", "http", "failed", "partial"} :
             onUvTimeoutEnds(r, outcome) \/ onCurlSocketEnds(r, outcome)
  BY <1>5, TimeoutEndsHolds, SocketEndsHolds
<1>6. CASE \E k \in Sockets : onCurlSocketError(k)
  BY <1>6, SocketErrorHolds
<1>7. CASE CurlClose \/ onCurlClosed
  BY <1>7, CurlCloseHolds, CurlClosedHolds
<1>8. CASE TakeTurns
  <2>1. /\ resumable \in HandleQueue(Downloads) /\ NoDuplicates(resumable) /\ CurlOk(s)
        /\ \A q \in Queued(resumable) : s.call[q] \in {"woken", "asked"}
    BY DEF CurlInv, CurlQueueInv
  <2>2. /\ s' = s /\ resumable' \in HandleQueue(Downloads) /\ Queued(resumable') = Queued(resumable)
        /\ NoDuplicates(resumable')
    BY <1>8, <2>1, TurnsHold
  <2> QED BY <2>1, <2>2, CurlStepHolds
<1>9. CASE UNCHANGED vars
  BY <1>9 DEF vars, turnVars, CurlInv, CurlOk, CurlQueueInv, PollInv, ReportInv, EndInv, InTransfer
<1> QED BY <1>1, <1>2, <1>3, <1>4, <1>5, <1>6, <1>7, <1>8, <1>9 DEF CurlNext

\* Whatever libcurl does in its callbacks, a downloader that waits for a transfer
\* that has ended still has the message to come, or had been told of a failure
\* before it began to wait; and each active poll leads to the request whose transfer
\* uses the socket, also when libcurl uses a socket again (curl.cc:127, 273, 425-441).
THEOREM CurlReachesRequests == CurlSpec => []TransfersReachRequests
<1>1. CurlInv => TransfersReachRequests
  <2> SUFFICES ASSUME CurlInv PROVE TransfersReachRequests
    OBVIOUS
  <2>1. /\ s \in CurlStates /\ PollInv(s)
        /\ \A q \in Downloads : ReportInv(s, q) /\ EndInv(s, q)
    BY DEF CurlInv, CurlOk
  <2>2. EndsReachDownloaders
    BY <2>1 DEF EndInv, EndsReachDownloaders
  <2>3. ASSUME NEW k \in Sockets, s.poll[k] = "active"
        PROVE  s.request[k] # Null /\ s.on[s.request[k]] = k
    <3>1. PICK r \in Downloads : s.on[r] = k
      BY <2>1, <2>3 DEF PollInv
    <3> QED BY <2>1, <3>1, CurlAssumption DEF PollInv
  <2>4. \A r \in Downloads : s.call[r] = "gone" => r \notin s.msgs /\ s.on[r] = Null
    BY <2>1 DEF PollInv, ReportInv, InTransfer
  <2> QED BY <2>2, <2>3, <2>4 DEF TransfersReachRequests, PollsKnowTheirRequest
<1> QED BY <1>1, CurlInitHolds, CurlInductive, PTL DEF CurlSpec

\* A download that returns has yielded all chunks that arrived, unless the HTTP
\* status was an error, and a failed one throws (curl.cc:304-325, 586-608).
THEOREM CurlYieldsBodies == CurlSpec => []BodiesAreWhole
<1>1. CurlInv => BodiesAreWhole
  BY DEF CurlInv, CurlOk, ReportInv, BodiesAreWhole, BodyIsComplete, FailuresThrow
<1> QED BY <1>1, CurlInitHolds, CurlInductive, PTL DEF CurlSpec

\* Each downloader in the run queue is there once and is suspended.
THEOREM CurlQueuesSuspended == CurlSpec => []CurlQueueSound
<1>1. CurlInv => CurlQueueSound
  BY QueuedType DEF CurlInv, CurlQueueInv, CurlQueueSound, QueueIsSound
<1> QED BY <1>1, CurlInitHolds, CurlInductive, PTL DEF CurlSpec

----------------------------------------------------------------------------
(* All components                                                          *)

\* The program keeps to what the components ask of it.
ComponentsUse == TimerUse /\ TaskSetUse /\ WatchUse /\ StreamUse /\ UdpUse

\* The component whose state it is
Is(kind) == s.is = kind

\* The steps of a component are taken only in its own states.
LEMMA StepsAreApart ==
    /\ SelectNext => Is("select")
    /\ TaskSetNext => Is("taskset")
    /\ TimerNext => Is("timer")
    /\ WatchNext => Is("watch")
    /\ StreamNext => Is("stream")
    /\ ServerNext => Is("server")
    /\ UdpNext => Is("udp")
    /\ CurlNext => Is("curl")
<1>1. SelectNext => Is("select")
  BY DEF Is, IsSelect, SelectNext, Finish, Unwrap, DropPromise, Select, SelectResumes, DropSelector, SelectRunning
<1>2. TaskSetNext => Is("taskset")
  BY DEF Is, IsTaskSet, TaskSetNext, AddCallsWrap, AddEnters, AddFinishedTask, TaskFinishes, WrapResumes, OnEmpty,
         OnEmptyResumes, DropOnEmpty, DropTaskSet, TaskSetRunning
<1>3. TimerNext => Is("timer")
  BY DEF Is, IsTimer, TimerNext, Sleep, onSingleTimerDone, SleepResumes, DropSleep, StartTicking, TickResumes,
         AskTick, AskedResumes, DropTicking, TickerClose, DropTicker, onMultiTimerFired, onTimerClosed
<1>4. WatchNext => Is("watch")
  BY DEF Is, IsWatch, WatchNext, Watch, AskEvent, WatchResumes, DropWatch, StopWatch, WatchClose,
         onFsWatcherEvent, onWatchClosed
<1>5. StreamNext => Is("stream")
  BY DEF Is, IsStream, StreamNext, Read, Write, Shutdown, CallResumes, SkipDone, DropCall, StreamClose,
         onInStreamRead, onStreamClosed, onRequestDone, MayCall
<1>6. ServerNext => Is("server")
  BY DEF Is, IsServer, ServerNext, Listen, AskConnection, ListenerResumes, DropListener, ServerClose,
         onNewConnection, onServerClosed
<1>7. UdpNext => Is("udp")
  BY DEF Is, IsUdp, UdpNext, StartReceive, AskNext, ReceiverResumes, DropReceiver, Send, SendResumes,
         DropSend, onSendDone, UdpClose, UdpDestroyed, onReceiveOne, onUdpClosed
<1>8. CurlNext => Is("curl")
  BY DEF Is, IsCurl, CurlNext, Get, Start, AskChunk, DownloadResumes, DropRequest, onCurlSocketData,
         onUvTimeoutData, onUvTimeoutOpens, onUvTimeoutEnds, onCurlSocketEnds, onCurlSocketError,
         CurlClose, onCurlClosed
<1> QED BY <1>1, <1>2, <1>3, <1>4, <1>5, <1>6, <1>7, <1>8

\* Whatever steps the composition takes from the state of a component are steps of
\* that component.
LEMMA StepsAreOwn ==
    /\ Is("select") /\ [Next]_vars => [SelectNext \/ TakeTurns]_vars
    /\ Is("taskset") /\ [Next]_vars => [TaskSetNext \/ (AddReturned /\ TakeTurns)]_vars
    /\ Is("timer") /\ [Next]_vars => [TimerNext \/ TakeTurns]_vars
    /\ Is("watch") /\ [Next]_vars => [WatchNext \/ TakeTurns]_vars
    /\ Is("stream") /\ [Next]_vars => [StreamNext \/ TakeTurns]_vars
    /\ Is("server") /\ [Next]_vars => [ServerNext \/ TakeTurns]_vars
    /\ Is("udp") /\ [Next]_vars => [UdpNext \/ TakeTurns]_vars
    /\ Is("curl") /\ [Next]_vars => [CurlNext \/ TakeTurns]_vars
BY StepsAreApart DEF Next, LoopTurns, Is, IsTaskSet

\* A behaviour that starts as a component is one of that component.
LEMMA StaysComponent ==
    ASSUME ComponentsUse
    PROVE  /\ SelectInit /\ [][Next]_vars => SelectSpec /\ []Is("select")
           /\ TaskSetInit /\ [][Next]_vars => TaskSetSpec /\ []Is("taskset")
           /\ TimerInit /\ [][Next]_vars => TimerSpec /\ []Is("timer")
           /\ WatchInit /\ [][Next]_vars => WatchSpec /\ []Is("watch")
           /\ StreamInit /\ [][Next]_vars => StreamSpec /\ []Is("stream")
           /\ ServerInit /\ [][Next]_vars => ServerSpec /\ []Is("server")
           /\ UdpInit /\ [][Next]_vars => UdpSpec /\ []Is("udp")
           /\ CurlInit /\ [][Next]_vars => CurlSpec /\ []Is("curl")
<1>1. TimerUse /\ TaskSetUse /\ WatchUse /\ StreamUse /\ UdpUse
  BY DEF ComponentsUse
<1>2. SelectInit /\ [][Next]_vars => SelectSpec /\ []Is("select")
  <2>1. SelectInv => Is("select")
    BY DEF Is, SelectInv, SelectType
  <2>2. SelectInit => SelectInv
    BY SelectInitHolds
  <2>3. SelectInv /\ [SelectNext \/ TakeTurns]_vars => SelectInv'
    BY SelectInductive
  <2>4. Is("select") /\ [Next]_vars => [SelectNext \/ TakeTurns]_vars
    BY StepsAreOwn
  <2> QED BY <2>1, <2>2, <2>3, <2>4, PTL DEF SelectSpec
<1>3. TaskSetInit /\ [][Next]_vars => TaskSetSpec /\ []Is("taskset")
  <2>1. TaskSetInv => Is("taskset")
    BY DEF Is, TaskSetInv, TaskSetStates
  <2>2. TaskSetInit => TaskSetInv
    BY TaskSetInitHolds
  <2>3. TaskSetInv /\ [TaskSetNext \/ (AddReturned /\ TakeTurns)]_vars => TaskSetInv'
    BY <1>1, TaskSetInductive
  <2>4. Is("taskset") /\ [Next]_vars => [TaskSetNext \/ (AddReturned /\ TakeTurns)]_vars
    BY StepsAreOwn
  <2> QED BY <2>1, <2>2, <2>3, <2>4, PTL DEF TaskSetSpec
<1>4. TimerInit /\ [][Next]_vars => TimerSpec /\ []Is("timer")
  <2>1. TimerInv => Is("timer")
    BY DEF Is, TimerInv, TimerType, TimerStates
  <2>2. TimerInit => TimerInv
    BY TimerInitHolds
  <2>3. TimerInv /\ [TimerNext \/ TakeTurns]_vars => TimerInv'
    BY <1>1, TimerInductive
  <2>4. Is("timer") /\ [Next]_vars => [TimerNext \/ TakeTurns]_vars
    BY StepsAreOwn
  <2> QED BY <2>1, <2>2, <2>3, <2>4, PTL DEF TimerSpec
<1>5. WatchInit /\ [][Next]_vars => WatchSpec /\ []Is("watch")
  <2>1. WatchInv \/ WatchThrew => Is("watch")
    BY DEF Is, WatchInv, WatchStates, WatchThrew
  <2>2. WatchInit => WatchInv \/ WatchThrew
    BY WatchInitHolds
  <2>3. (WatchInv \/ WatchThrew) /\ [WatchNext \/ TakeTurns]_vars => (WatchInv \/ WatchThrew)'
    BY <1>1, WatchInductive
  <2>4. Is("watch") /\ [Next]_vars => [WatchNext \/ TakeTurns]_vars
    BY StepsAreOwn
  <2> QED BY <2>1, <2>2, <2>3, <2>4, PTL DEF WatchSpec
<1>6. StreamInit /\ [][Next]_vars => StreamSpec /\ []Is("stream")
  <2>1. StreamInv => Is("stream")
    BY DEF Is, StreamInv, StreamStates
  <2>2. StreamInit => StreamInv
    BY StreamInitHolds
  <2>3. StreamInv /\ [StreamNext \/ TakeTurns]_vars => StreamInv'
    BY <1>1, StreamInductive
  <2>4. Is("stream") /\ [Next]_vars => [StreamNext \/ TakeTurns]_vars
    BY StepsAreOwn
  <2> QED BY <2>1, <2>2, <2>3, <2>4, PTL DEF StreamSpec
<1>7. ServerInit /\ [][Next]_vars => ServerSpec /\ []Is("server")
  <2>1. ServerInv \/ ServerBroke => Is("server")
    BY DEF Is, ServerInv, ServerStates, ServerBroke
  <2>2. ServerInit => ServerInv \/ ServerBroke
    BY ServerInitHolds
  <2>3. (ServerInv \/ ServerBroke) /\ [ServerNext \/ TakeTurns]_vars => (ServerInv \/ ServerBroke)'
    BY ServerInductive
  <2>4. Is("server") /\ [Next]_vars => [ServerNext \/ TakeTurns]_vars
    BY StepsAreOwn
  <2> QED BY <2>1, <2>2, <2>3, <2>4, PTL DEF ServerSpec
<1>8. UdpInit /\ [][Next]_vars => UdpSpec /\ []Is("udp")
  <2>1. UdpInv \/ UdpBroke => Is("udp")
    BY DEF Is, UdpInv, UdpOk, UdpStates, UdpBroke
  <2>2. UdpInit => UdpInv \/ UdpBroke
    BY UdpInitHolds
  <2>3. (UdpInv \/ UdpBroke) /\ [UdpNext \/ TakeTurns]_vars => (UdpInv \/ UdpBroke)'
    BY <1>1, UdpInductive
  <2>4. Is("udp") /\ [Next]_vars => [UdpNext \/ TakeTurns]_vars
    BY StepsAreOwn
  <2> QED BY <2>1, <2>2, <2>3, <2>4, PTL DEF UdpSpec
<1>9. CurlInit /\ [][Next]_vars => CurlSpec /\ []Is("curl")
  <2>1. CurlInv => Is("curl")
    BY DEF Is, CurlInv, CurlOk, CurlStates
  <2>2. CurlInit => CurlInv
    BY CurlInitHolds
  <2>3. CurlInv /\ [CurlNext \/ TakeTurns]_vars => CurlInv'
    BY CurlInductive
  <2>4. Is("curl") /\ [Next]_vars => [CurlNext \/ TakeTurns]_vars
    BY StepsAreOwn
  <2> QED BY <2>1, <2>2, <2>3, <2>4, PTL DEF CurlSpec
<1> QED BY <1>2, <1>3, <1>4, <1>5, <1>6, <1>7, <1>8, <1>9

\* Each behaviour of the composition is a behaviour of one component, so that what
\* is proved of that one holds.
LEMMA ComponentsAreApart ==
    ASSUME ComponentsUse
    PROVE  Spec => \/ SelectSpec /\ []Is("select")
                   \/ TaskSetSpec /\ []Is("taskset")
                   \/ TimerSpec /\ []Is("timer")
                   \/ WatchSpec /\ []Is("watch")
                   \/ StreamSpec /\ []Is("stream")
                   \/ ServerSpec /\ []Is("server")
                   \/ UdpSpec /\ []Is("udp")
                   \/ CurlSpec /\ []Is("curl")
<1>1. Init => \/ SelectInit \/ TaskSetInit \/ TimerInit \/ WatchInit
              \/ StreamInit \/ ServerInit \/ UdpInit \/ CurlInit
  BY DEF Init
<1> QED BY <1>1, StaysComponent, PTL DEF Spec

\* In every component, each coroutine in the run queue is there once and waits to
\* be resumed (scheduler.cc:34-79 resumes whatever it finds there).
THEOREM ComponentsQueueSuspended ==
    ASSUME ComponentsUse
    PROVE  Spec => []OnlySuspendedAreQueued
<1>1. TimerUse /\ TaskSetUse /\ WatchUse /\ StreamUse /\ UdpUse
  BY DEF ComponentsUse
<1>2. /\ Is("select") => OnlySuspendedAreQueued
      /\ Is("taskset") /\ TaskSetHandlesWait => OnlySuspendedAreQueued
      /\ Is("timer") /\ TimerQueueSound => OnlySuspendedAreQueued
      /\ Is("watch") /\ WatchQueueSound => OnlySuspendedAreQueued
      /\ Is("stream") /\ StreamQueueSound => OnlySuspendedAreQueued
      /\ Is("server") /\ ServerQueueSound => OnlySuspendedAreQueued
      /\ Is("udp") /\ UdpQueueSound => OnlySuspendedAreQueued
      /\ Is("curl") /\ CurlQueueSound => OnlySuspendedAreQueued
  BY DEF OnlySuspendedAreQueued, TaskSetHandlesWait, StreamQueueSound, UdpQueueSound, ServerQueueSound,
         WatchQueueSound, TimerQueueSound, CurlQueueSound, Is,
         IsSelect, IsTaskSet, IsTimer, IsWatch, IsStream, IsServer, IsUdp, IsCurl
<1> QED BY <1>1, <1>2, TaskSetQueuesWaiting, TimerQueuesSuspended, WatchQueuesSuspended,
           StreamQueuesLiving, ServerQueuesSuspended, UdpQueuesSuspended,
           CurlQueuesSuspended, ComponentsAreApart, PTL

\* Connections and events are yielded in the order in which the callbacks put them
\* into accepted_ and the watch's buffer, each at most once, in every behaviour of
\* the composition (stream_server_base_impl.cc:165-188, fs.cc:442-444).
THEOREM ComponentsDeliverInOrder ==
    ASSUME ComponentsUse
    PROVE  Spec => [](ConnectionsInOrder /\ EventsInOrder)
<1>1. WatchUse
  BY DEF ComponentsUse
<1>2. /\ Is("select") \/ Is("taskset") \/ Is("timer") => ConnectionsInOrder /\ EventsInOrder
      /\ Is("stream") \/ Is("udp") \/ Is("curl") => ConnectionsInOrder /\ EventsInOrder
      /\ Is("watch") /\ EventsInOrder => ConnectionsInOrder /\ EventsInOrder
      /\ Is("server") /\ ConnectionsInOrder => ConnectionsInOrder /\ EventsInOrder
  BY DEF ConnectionsInOrder, EventsInOrder, Is, IsWatch, IsServer
<1> QED BY <1>1, <1>2, WatchDeliversInOrder, ServerDeliversInOrder, ComponentsAreApart, PTL
=============================================================================
