---------------------------- MODULE StreamServer ----------------------------
(***************************************************************************)
(* StreamServerBase (src/uvco/stream_server_base_impl.cc), the listening   *)
(* socket of TcpServer and UnixStreamServer.  listen() is a generator: its *)
(* awaiter collects connections, from the callback, in accepted_, and the  *)
(* generator yields them one by one while more of them arrive.  The        *)
(* handle's data leads to the awaiter as long as the awaiter exists.       *)
(* close() resumes a listener that waits itself; one that is elsewhere is  *)
(* only marked.                                                            *)
(*                                                                         *)
(* Connections arrive, the server is closed and the listener is dropped at *)
(* any moment.  Two of these sequences end in an access to memory that is  *)
(* gone, and nothing is said of what comes after: a listener that goes on  *)
(* after accepted_ has moved under its iterator, and one that is dropped   *)
(* when the handle of the closed server has been freed.                    *)
(***************************************************************************)
EXTENDS Component, FiniteSets

CONSTANTS
    Listeners,          \* the calls of listen(), one after the other
    MaxConnections,     \* bound: on the connections and errors that arrive
    Reserved            \* the space reserved in accepted_

ASSUME ServerAssumption == Null \notin Listeners /\ MaxConnections \in Nat /\ Reserved \in Nat

ServerInit ==
    /\ TurnInit
    /\ s = [is |-> "server",
            open |-> TRUE,          \* socket_ is set
            uv |-> "open",          \* the libuv handle
            listening |-> FALSE,    \* uv_listen was called
            data |-> Null,          \* the handle's data: a listener's awaiter
            listener |-> [u \in Listeners |-> "new"],
            accepted |-> <<>>,      \* accepted_ of the awaiter
            it |-> 0,               \* how many of them have been yielded
            capacity |-> Reserved,  \* of accepted_
            moved |-> FALSE,        \* accepted_ has moved since the for loop began
            stopped |-> FALSE,      \* stopped_ of the awaiter
            arrived |-> 0,
            taken |-> <<>>,         \* the connections yielded
            lost |-> 0,             \* connections that were closed unseen
            fault |-> "none"]       \* memory used that is gone

\* An entry of accepted_ is the number of a connection, or an error.
Failed == 0

IsServer == s.is = "server" /\ s.fault = "none"
Listening(u) == s.listener[u] \in {"waiting", "woken", "yielded", "asked"}

----------------------------------------------------------------------------
(* Segments of listen(), as functions of the state                         *)

\* ~ConnectionAwaiter_ that leaves the handle's data
AwaiterLeavesData(st, u, how) == [st EXCEPT !.listener[u] = how]

\* The generator ends, ~ConnectionAwaiter_: connections not yet yielded are
\* closed, and the data of the handle is reset, whether or not it exists.
ListenerOver(st, u, how) ==
    [st EXCEPT !.listener[u] = how, !.data = Null,
               !.lost = @ + Cardinality({i \in st.it + 1 .. Len(st.accepted) : st.accepted[i] # Failed}),
               !.accepted = <<>>, !.it = 0,
               !.fault = IF st.uv = "freed" THEN "handle freed" ELSE @]

\* the next round begins with the connections of the last one
ClearedNot(st) == [st EXCEPT !.it = 0]

\* accepted_.clear()
Cleared(st) == [st EXCEPT !.accepted = <<>>, !.it = 0]

\* co_await awaiter with accepted_ empty: the listener suspends.
AwaitConnection(st, u) == [st EXCEPT !.listener[u] = "waiting"]

\* The for loop from position it on: an error is thrown, a connection yielded;
\* at the end accepted_ is cleared and awaited again.
YieldConnections(st, u) ==
    IF st.it = Len(st.accepted)
    THEN AwaitConnection(Cleared(st), u)
    ELSE LET next == st.accepted[st.it + 1]
             rest == [st EXCEPT !.it = @ + 1]
         IN  IF next = Failed THEN ListenerOver(rest, u, "failed")
             ELSE [rest EXCEPT !.listener[u] = "yielded", !.taken = Append(@, next)]

\* ConnectionAwaiter_::await_resume
ConnectionAwaitResume(st, u) ==
    IF st.stopped THEN ListenerOver(st, u, "done") ELSE YieldConnections(st, u)

----------------------------------------------------------------------------
\* listen(), also after a listener has ended
Listen(u, fails) ==
    /\ IsServer /\ Running
    /\ s.open /\ s.listener[u] = "new"
    /\ \A other \in Listeners : ~Listening(other)
    /\ LET st == [s EXCEPT !.accepted = <<>>, !.it = 0, !.capacity = Reserved,
                           !.moved = FALSE, !.stopped = FALSE, !.data = u]
       IN  Becomes(resumable,
                   IF fails THEN ListenerOver(st, u, "failed")
                   ELSE AwaitConnection([st EXCEPT !.listening = TRUE], u))

\* The consumer awaits the next connection, but not "after having called
\* close()".
AskConnection(u) ==
    /\ IsServer /\ Running
    /\ s.listener[u] = "yielded" /\ s.open
    /\ Becomes(Readied(u), [s EXCEPT !.listener[u] = "asked"])

\* After co_yield the for loop goes on with its iterator, which must not have been
\* invalidated.
ListenerResumes(u) ==
    /\ IsServer /\ Resumed(u)
    /\ Becomes(Popped, IF s.listener[u] = "woken" THEN ConnectionAwaitResume(s, u)
                       ELSE IF s.moved THEN [s EXCEPT !.fault = "iterator"]
                       ELSE YieldConnections(s, u))

\* The MultiPromise is dropped: MultiPromise::cancelGenerator()
DropListener(u) ==
    /\ IsServer /\ Running
    /\ Listening(u)
    /\ Becomes(Dropped(u), ListenerOver(s, u, "gone"))

\* ConnectionAwaiter_::stop()
Stop(st) ==
    IF st.data = Null THEN st
    ELSE LET told == [st EXCEPT !.stopped = TRUE]
         IN  IF st.listener[st.data] = "waiting" THEN ConnectionAwaitResume(told, st.data) ELSE told

\* close(), ~StreamServerBase(): closeHandle() resets the data.
ServerClose ==
    /\ IsServer /\ Running
    /\ s.open
    /\ Becomes(resumable, [Stop(s) EXCEPT !.open = FALSE, !.uv = "closing", !.data = Null])

----------------------------------------------------------------------------
\* A connection is accepted, or accepting fails: accepted_ grows, and moves when
\* it has no more space, also under the feet of a listener that is iterating.
onNewConnection(item) ==
    /\ IsServer /\ InUv
    /\ s.uv = "open" /\ s.listening
    /\ s.arrived < MaxConnections
    /\ LET u == s.data
           st == [s EXCEPT !.arrived = @ + 1]
           full == Len(s.accepted) = s.capacity
       IN  Becomes(IF u # Null /\ s.listener[u] = "waiting" THEN Readied(u) ELSE resumable,
                   IF u = Null THEN st
                   ELSE [st EXCEPT !.accepted = Append(@, item),
                                   !.capacity = IF full THEN 2 * @ ELSE @,
                                   !.moved = @ \/ (full /\ s.listener[u] = "yielded"),
                                   !.listener[u] = IF @ = "waiting" THEN "woken" ELSE @])

onServerClosed ==
    /\ IsServer /\ InUv
    /\ s.uv = "closing"
    /\ Becomes(resumable, [s EXCEPT !.uv = "freed"])

ServerNext ==
    \/ \E u \in Listeners, fails \in BOOLEAN : Listen(u, fails)
    \/ \E u \in Listeners : AskConnection(u) \/ ListenerResumes(u) \/ DropListener(u)
    \/ ServerClose
    \/ onNewConnection(Failed) \/ onNewConnection(s.arrived + 1)
    \/ onServerClosed

\* A server on a loop of its own
ServerSpec == ServerInit /\ [][ServerNext \/ TakeTurns]_vars

----------------------------------------------------------------------------
\* Only suspended listeners are in the run queue, each once.
ServerQueueSound ==
    IsServer => QueueIsSound({u \in Listeners : s.listener[u] \in {"woken", "asked"}})

\* As long as the server is open, a listener that waits will be woken by the next
\* connection or by close(): the socket listens, its data leads to the listener,
\* and no connection is left over; and the data never leads to an awaiter that is
\* gone, which the callback would write to (stream_server_base_impl.cc:86-116,
\* 123-140).
ListenerServed ==
    IsServer =>
    /\ s.open => \A u \in Listeners : s.listener[u] = "waiting" =>
          s.listening /\ s.data = u /\ ~s.stopped /\ s.accepted = <<>>
    /\ s.data # Null => s.open /\ Listening(s.data)

\* Connections are yielded in the order of their arrival, each once, also those
\* that arrive while the listener is in the middle of the list.
ConnectionsInOrder ==
    IsServer =>
    LET seen == s.taken \o SubSeq(s.accepted, s.it + 1, Len(s.accepted))
    IN  \A i, j \in 1 .. Len(seen) :
          i < j /\ seen[i] # Failed /\ seen[j] # Failed => seen[i] < seen[j]

\* "Resume listener coroutine and tell it to exit" (stream_server_base_impl.cc:128),
\* "to ensure that the listener is stopped by the time the function returns" (65):
\* once close() has been called, no listener yields a connection or begins to wait
\* for one.
StoppedByClose ==
    [][IsServer /\ ~s.open =>
          /\ s'.taken = s.taken
          /\ \A u \in Listeners : s'.listener[u] = "waiting" => s.listener[u] = "waiting"]_vars

\* "the user code can again call listen() and will process the remaining
\* connections" (stream_server_base_impl.cc:172): when the listener throws, no
\* accepted connection is lost.
RemainingAreKept ==
    [][IsServer /\ (\E u \in Listeners : s.listener[u] # "failed" /\ s'.listener[u] = "failed")
          => s'.lost = s.lost]_vars
=============================================================================
