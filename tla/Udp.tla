--------------------------------- MODULE Udp ---------------------------------
(***************************************************************************)
(* Udp (src/uvco/udp.cc): a socket with at most one receiver, which takes  *)
(* a single packet (receiveOne, receiveOneFrom) or generates all of them   *)
(* (receiveMany), and any number of senders.  Packets reach the receiver's *)
(* awaiter through the handle's data, which is set only while the receiver *)
(* waits in co_await awaiter; the awaiter buffers them.  close() resumes a *)
(* waiting receiver itself, with ECANCELED in the buffer.                  *)
(*                                                                         *)
(* Packets arrive, the program sends and the socket is closed at any       *)
(* moment, also while a packet of receiveMany is being looked at.          *)
(* receiveMany asks a closed socket whether it is active: that uses a null *)
(* handle, and nothing is said of what comes after it.  A program does not *)
(* drop a send() that libuv still has, unless "drop send" is in Relaxed.   *)
(***************************************************************************)
EXTENDS Component

CONSTANTS
    Receivers,      \* the calls of receiveOne() and receiveMany()
    Sends,          \* the calls of send()
    PacketQueue     \* packetQueueSize, the bound of receiveMany's buffer

ASSUME UdpAssumption ==
    /\ Receivers \cap Sends = {} /\ Null \notin Receivers \cup Sends
    /\ PacketQueue \in Nat \ {0}

UdpInit ==
    /\ TurnInit
    /\ s = [is |-> "udp",
            open |-> TRUE,      \* udp_ is set
            uv |-> "open",      \* the libuv handle
            recv |-> FALSE,     \* between uv_udp_recv_start and uv_udp_recv_stop
            data |-> Null,      \* the handle's data: a receiver's awaiter
            buf |-> <<>>,       \* buffer_ of the receiver's awaiter
            call |-> [c \in Receivers \cup Sends |-> "new"],
            many |-> {},        \* the receivers that are generators
            sending |-> {},     \* the send requests libuv has
            missed |-> FALSE,   \* history: a packet came for nobody since
                                \* uv_udp_recv_start
            fault |-> "none"]   \* udp_ used after close()

IsUdp == s.is = "udp" /\ s.fault = "none"
Live(u) == s.call[u] \in {"waiting", "woken", "yielded", "asked"}
Capacity(u) == IF u \in s.many THEN PacketQueue ELSE 1

\* uv_is_active()
UdpActive(st) == st.recv \/ st.sending # {}

----------------------------------------------------------------------------
(* Segments of the receiver's coroutine, as functions of the state         *)

\* The receiver ends: OnExit of receiveMany stops receiving; both reset the
\* handle's data, receiveOneFrom without looking whether there is a handle.
ReceiverOver(st, u, call) ==
    [st EXCEPT !.call[u] = call, !.data = Null,
               !.recv = @ /\ u \notin st.many,
               !.fault = IF u \notin st.many /\ ~st.open THEN "null handle" ELSE @]

\* An item of the buffer: a packet is returned or yielded, an error thrown.
TakeItem(st, u) ==
    LET rest == [st EXCEPT !.buf = Tail(@)]
    IN  IF Head(st.buf) = "packet" /\ u \in st.many
        THEN [rest EXCEPT !.call[u] = "yielded"]
        ELSE ReceiverOver(rest, u, "done")

\* RecvAwaiter_::await_resume
ReceiveAwaitResume(st, u) == TakeItem([st EXCEPT !.data = Null], u)

\* RecvAwaiter_::await_ready, await_suspend
Receive(st, u) ==
    IF st.buf # <<>> THEN ReceiveAwaitResume(st, u)
    ELSE [st EXCEPT !.call[u] = "waiting", !.data = u]

\* The head of receiveMany's loop, which asks the handle whether it is active
ReceiveLoop(st, u) ==
    IF ~st.open THEN [st EXCEPT !.fault = "null handle"]
    ELSE IF UdpActive(st) THEN Receive(st, u) ELSE ReceiverOver(st, u, "done")

----------------------------------------------------------------------------
(* Calls of the program, and resumptions                                   *)

\* receiveOneFrom() and receiveMany(): uv_udp_recv_start refuses a handle that
\* is receiving (UV_EALREADY), and may fail otherwise.
StartReceive(u, isMany, fails) ==
    /\ IsUdp /\ Running
    /\ s.open /\ s.call[u] = "new"
    /\ \A other \in Receivers : ~Live(other)
    /\ LET st == [s EXCEPT !.many = IF isMany THEN @ \cup {u} ELSE @, !.buf = <<>>]
       IN  Becomes(resumable,
                   IF s.recv \/ fails
                   THEN ReceiverOver(st, u, IF fails THEN "failed" ELSE "refused")
                   ELSE Receive([st EXCEPT !.recv = TRUE, !.missed = FALSE], u))

\* The consumer of receiveMany awaits the next packet.
AskNext(u) ==
    /\ IsUdp /\ Running
    /\ s.call[u] = "yielded"
    /\ Becomes(Readied(u), [s EXCEPT !.call[u] = "asked"])

ReceiverResumes(u) ==
    /\ IsUdp /\ Resumed(u)
    /\ s.call[u] \in {"woken", "asked"}
    /\ Becomes(Popped, IF s.call[u] = "woken" THEN ReceiveAwaitResume(s, u) ELSE ReceiveLoop(s, u))

\* The promise is dropped; stopReceiveMany() stops receiving and cancels the
\* generator, whose OnExit does the same.
DropReceiver(u) ==
    /\ IsUdp /\ Running
    /\ Live(u)
    /\ Becomes(Dropped(u), ReceiverOver(s, u, "gone"))

\* send(): the request is part of the coroutine's frame.
Send(w, fails) ==
    /\ IsUdp /\ Running
    /\ s.open /\ s.call[w] = "new"
    /\ Becomes(resumable,
               IF fails THEN [s EXCEPT !.call[w] = "done"]
               ELSE [s EXCEPT !.call[w] = "waiting", !.sending = @ \cup {w}])

SendResumes(w) ==
    /\ IsUdp /\ Resumed(w)
    /\ Becomes(Popped, [s EXCEPT !.call[w] = "done"])

DropSend(w) ==
    /\ IsUdp /\ Running
    /\ s.call[w] = "woken" \/ (s.call[w] = "waiting" /\ "drop send" \in Relaxed)
    /\ Becomes(Dropped(w), [s EXCEPT !.call[w] = "gone"])

\* closing without telling the receiver
CloseSilently(st) == st

\* What close() does for a receiver that the handle's data leads to: ECANCELED
\* goes into its buffer, and if it waits it is resumed.
CloseReceiver(st) ==
    IF st.data = Null THEN st
    ELSE LET told == [st EXCEPT !.buf = Append(@, "error")]
         IN  IF st.call[st.data] = "waiting" THEN ReceiveAwaitResume(told, st.data) ELSE told

CloseHandle(st) == [st EXCEPT !.open = FALSE, !.uv = "closing", !.recv = FALSE, !.data = Null]

\* close(), also when bind() or connect() fail.  BoundedQueue::put() throws if
\* the buffer is full: then close() throws, and the socket stays as it is.
UdpClose ==
    /\ IsUdp /\ Running
    /\ s.open
    /\ Becomes(resumable,
               IF s.data # Null /\ Len(s.buf) >= Capacity(s.data) THEN s
               ELSE CloseHandle(CloseReceiver(s)))

\* ~Udp(): nobody receives.
UdpDestroyed ==
    /\ IsUdp /\ Running
    /\ s.open /\ \A u \in Receivers : ~Live(u)
    /\ Becomes(resumable, CloseHandle(s))

----------------------------------------------------------------------------
(* Callbacks                                                               *)

\* A packet for nobody: receiving stops, the packet is lost.
onUnclaimed(st) == [st EXCEPT !.recv = FALSE, !.missed = TRUE]

\* addPacket(): hasSpace() and put(); a packet without space is lost.
PutPacket(st, u) ==
    [st EXCEPT !.buf = IF Len(@) < Capacity(u) THEN Append(@, "packet") ELSE @]

\* stop_receive_after_one: receiveOne() asks the callback to stop receiving.
ReceivesOn(u) == u \in s.many

\* A packet, buffered if there is space; the receiver is woken once.  (An error
\* comes without an address, and the callback returns.)
onReceiveOne ==
    /\ IsUdp /\ InUv
    /\ s.recv
    /\ IF s.data = Null
       THEN Becomes(resumable, onUnclaimed(s))
       ELSE LET u == s.data
            IN  Becomes(IF s.call[u] = "waiting" THEN Readied(u) ELSE resumable,
                        [PutPacket(s, u) EXCEPT !.recv = ReceivesOn(u), !.call[u] = "woken"])

\* Sent, failed, or cancelled because the handle closes
onSendDone(w) ==
    /\ IsUdp /\ InUv
    /\ w \in s.sending
    /\ Becomes(IF s.call[w] = "waiting" THEN Readied(w) ELSE resumable,
               [s EXCEPT !.sending = @ \ {w}, !.call[w] = IF @ = "waiting" THEN "woken" ELSE @])

onUdpClosed ==
    /\ IsUdp /\ InUv
    /\ s.uv = "closing" /\ s.sending = {}
    /\ Becomes(resumable, [s EXCEPT !.uv = "freed"])

UdpNext ==
    \/ \E u \in Receivers, isMany, fails \in BOOLEAN : StartReceive(u, isMany, fails)
    \/ \E u \in Receivers : AskNext(u) \/ ReceiverResumes(u) \/ DropReceiver(u)
    \/ \E w \in Sends, fails \in BOOLEAN : Send(w, fails)
    \/ \E w \in Sends : SendResumes(w) \/ DropSend(w) \/ onSendDone(w)
    \/ UdpClose \/ UdpDestroyed
    \/ onReceiveOne \/ onUdpClosed

\* A socket on a loop of its own
UdpSpec == UdpInit /\ [][UdpNext \/ TakeTurns]_vars

----------------------------------------------------------------------------
\* Only suspended coroutines are in the run queue, each once.
UdpQueueSound ==
    IsUdp => QueueIsSound({c \in Receivers \cup Sends : s.call[c] \in {"woken", "asked"}})

\* A receiver that waits will be woken by close(), and by the next packet, unless
\* a packet that came while nobody looked has made the socket stop receiving: the
\* handle is open and its data leads to the receiver, and to nobody who does not
\* wait for it (udp.cc:382-405, 256-301).
WaitingReceives ==
    IsUdp =>
    /\ \A u \in Receivers :
         s.call[u] = "waiting" => s.open /\ s.data = u /\ s.buf = <<>> /\ (s.recv \/ s.missed)
    /\ s.data # Null => s.open /\ s.call[s.data] \in {"waiting", "woken"}

\* A woken receiver finds an item: packet.value() in receiveOneFrom (udp.cc:186)
\* does not throw, and receiveMany does not take the wake-up for a stop.
WokenHasPacket == IsUdp => \A u \in Receivers : s.call[u] = "woken" => s.buf # <<>>

\* Receiver, buffer and handle agree, wherever packets, close() and drops fall.
ReceiverServed == WaitingReceives /\ WokenHasPacket

\* "Call stopReceiveMany() when no more packets are desired; otherwise this will
\* continue indefinitely" (udp.h:70): the generator goes on as long as the socket
\* is open.
ReceiveManyContinues ==
    [][\A u \in Receivers :
          IsUdp /\ s.call[u] = "asked" /\ s'.call[u] = "done" => ~s.open]_vars
=============================================================================
