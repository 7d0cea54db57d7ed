-------------------------------- MODULE Curl --------------------------------
(***************************************************************************)
(* The curl integration (src/uvco/integrations/curl/curl.cc).  libcurl     *)
(* drives the transfers; the context lends it libuv's polls and timer, and *)
(* calls it when a socket is active or the timer has fired.  A request's   *)
(* core collects the chunks of the body, and is the awaiter of the         *)
(* generator start().  That a transfer has ended is a message in libcurl's *)
(* queue, which checkCurlInfo() reads.                                     *)
(*                                                                         *)
(* libcurl is modelled from how the code uses it: it opens and closes      *)
(* sockets, may use a socket again for another request, delivers data and  *)
(* ends transfers, inside the calls of curl_multi_socket_action(), also    *)
(* before start() was called and whether or not a downloader waits.  One   *)
(* socket serves one transfer at a time: that libcurl may send several     *)
(* over one connection (HTTP/2), of which polls_ knows only the last, is   *)
(* not modelled.                                                           *)
(*                                                                         *)
(* A Curl is not closed while a request waits (curl.h:57).                 *)
(***************************************************************************)
EXTENDS Component, FiniteSets, Functions

CONSTANTS
    Downloads,      \* the requests
    Sockets,        \* the sockets libcurl uses
    MaxChunks       \* bound: on the chunks of a body

ASSUME CurlAssumption == Null \notin Downloads \cup Sockets /\ MaxChunks \in Nat

CurlInit ==
    /\ TurnInit
    /\ s = [is |-> "curl",
            uv |-> "open",              \* the context's handles; open while multi_ is set
            timer |-> FALSE,            \* timer_ is running
            poll |-> [k \in Sockets |-> "none"],        \* polls_: the polls
            request |-> [k \in Sockets |-> Null],       \* and the requests they are for
            on |-> [r \in Downloads |-> Null],          \* libcurl: the socket of a transfer
            outcome |-> [r \in Downloads |-> "running"],\* libcurl: how it ended
            msgs |-> {},                                \* libcurl: ended, not yet reported
            told |-> {},                \* curlStatus_, responseCode_, verifyResult_ are set
            failed |-> {},              \* uvStatus_ is an error
            broken |-> {},              \* the poll of the transfer's socket reported an error
            received |-> [r \in Downloads |-> 0],       \* chunks put into chunks_
            yielded |-> [r \in Downloads |-> 0],        \* and taken out
            call |-> [r \in Downloads |-> "none"]]      \* where the request is

IsCurl == s.is = "curl"
InTransfer(st, r) == st.call[r] \notin {"none", "gone"} /\ st.outcome[r] = "running"

----------------------------------------------------------------------------
(* The request's core, and checkCurlInfo()                                 *)

\* onDataAvailable() and onError(): only a downloader that waits is enqueued;
\* an error is noted only for such a one.
Wakes(st, r) == IF st.call[r] = "waiting" THEN <<r>> ELSE <<>>
Woken(st, r) == IF st.call[r] = "waiting" THEN [st EXCEPT !.call[r] = "woken"] ELSE st

\* checkCurlInfo(): the loop over curl_multi_info_read() sees all messages, in an
\* order that libcurl chooses.  The requests it wakes, and the state it leaves
CheckWakes(st) == {r \in st.msgs : st.call[r] = "waiting"}
Checked(st) ==
    [st EXCEPT !.told = @ \cup st.msgs, !.msgs = {},
               !.call = [r \in Downloads |-> IF r \in CheckWakes(st) THEN "woken" ELSE @[r]]]

\* checkCurlInfo() in the middle of a step that takes the request's core from st on
\* to result
CheckCurlInfo(queue, st, result) ==
    \E order \in Bijection(1 .. Cardinality(CheckWakes(st)), CheckWakes(st)) :
        Becomes(queue \o order, result)

\* start() that ignores a socket error
EndsQuietly(st, r) ==
    IF r \in st.told /\ st.outcome[r] \in {"failed", "partial"} THEN "threw" ELSE "done"

\* The end of start(): an exception if curl or a socket reported an error
HowItEnds(st, r) ==
    IF (r \in st.told /\ st.outcome[r] \in {"failed", "partial"}) \/ r \in st.failed
    THEN "threw" ELSE "done"

\* An error or an HTTP status other than 200 ends the body at once.
EndsBody(st, r) ==
    \/ r \in st.failed
    \/ r \in st.told /\ st.outcome[r] \in {"http", "failed"}

\* CurlRequestCore_::await_resume and what start() does with the result
ChunkAwaitResume(st, r) ==
    IF ~EndsBody(st, r) /\ st.received[r] > st.yielded[r]
    THEN [st EXCEPT !.yielded[r] = @ + 1, !.call[r] = "yielded"]
    ELSE [st EXCEPT !.call[r] = HowItEnds(st, r)]

\* await_ready: a transfer that failed before it had an HTTP status has response
\* code 0, which does not count.
ChunkAwaitReady(st, r) ==
    \/ st.received[r] > st.yielded[r]
    \/ r \in st.told /\ st.outcome[r] # "failed"

\* co_await *core_
AwaitChunk(st, r) ==
    IF ChunkAwaitReady(st, r) THEN ChunkAwaitResume(st, r) ELSE [st EXCEPT !.call[r] = "waiting"]

----------------------------------------------------------------------------
(* The program's side                                                      *)

\* get() and post(): the request is added, and libcurl sets the timer.
Get(r) ==
    /\ IsCurl /\ Running
    /\ s.uv = "open" /\ s.call[r] = "none"
    /\ Becomes(resumable, [s EXCEPT !.call[r] = "new", !.timer = TRUE])

Start(r) ==
    /\ IsCurl /\ Running
    /\ s.uv = "open" /\ s.call[r] = "new"
    /\ CheckCurlInfo(resumable, s, AwaitChunk(Checked(s), r))

AskChunk(r) ==
    /\ IsCurl /\ Running
    /\ s.uv = "open" /\ s.call[r] = "yielded"
    /\ Becomes(Readied(r), [s EXCEPT !.call[r] = "asked"])

DownloadResumes(r) ==
    /\ IsCurl /\ Resumed(r)
    /\ IF s.call[r] = "woken" THEN Becomes(Popped, ChunkAwaitResume(s, r))
       ELSE CheckCurlInfo(Popped, s, AwaitChunk(Checked(s), r))

\* CURL_POLL_REMOVE, uvStopPoll(): the poll stays in polls_.
uvStopPoll(st, k) == IF k = Null \/ st.uv # "open" THEN st ELSE [st EXCEPT !.poll[k] = "stopped"]

\* The generator and the request are dropped: removeHandle() takes the transfer
\* from libcurl, which gives up its socket and its message.
DropRequest(r) ==
    /\ IsCurl /\ Running
    /\ s.call[r] \notin {"none", "gone"}
    /\ Becomes(Dropped(r),
               [uvStopPoll(s, s.on[r]) EXCEPT
                    !.call[r] = "gone", !.on[r] = Null, !.msgs = @ \ {r}])

\* Curl::close(), ~UvCurlContext_(): libcurl's multi handle is cleaned up, and
\* the polls and the timer are closed.
CurlClose ==
    /\ IsCurl /\ Running
    /\ s.uv = "open"
    /\ \A r \in Downloads : s.call[r] \notin {"waiting", "woken", "asked"}
    /\ Becomes(resumable,
               [s EXCEPT !.uv = "closing", !.timer = FALSE, !.msgs = {},
                         !.on = [r \in Downloads |-> Null],
                         !.poll = [k \in Sockets |-> "none"], !.request = [k \in Sockets |-> Null]])

----------------------------------------------------------------------------
(* libuv's and libcurl's callbacks                                         *)

\* initPoll() that leaves a known poll with the request it was for
InitPollOnce(st, r, k) == IF st.poll[k] = "none" THEN [st EXCEPT !.request[k] = r] ELSE st

\* initPoll()
InitPoll(st, r, k) == [st EXCEPT !.request[k] = r]

\* onUvTimeout, in which libcurl opens a socket, or takes one it has open, for a
\* transfer: curlSocketFunction.  It sets the timer again if it needs to.
onUvTimeoutOpens(r, k, again) ==
    /\ IsCurl /\ InUv
    /\ s.timer /\ InTransfer(s, r) /\ s.on[r] = Null /\ r \notin s.broken
    /\ \A other \in Downloads : s.on[other] # k
    /\ again \/ \A other \in Downloads \ {r} : InTransfer(s, other) => s.on[other] # Null
    /\ Becomes(resumable, [InitPoll(s, r, k) EXCEPT !.poll[k] = "active", !.on[r] = k, !.timer = again])

\* A transfer ends; its socket is given up.
Completed(st, r, outcome) ==
    [uvStopPoll(st, st.on[r]) EXCEPT !.outcome[r] = outcome, !.on[r] = Null, !.msgs = @ \cup {r}]

\* onUvTimeout, in which libcurl reads data.
onUvTimeoutData(r) ==
    /\ IsCurl /\ InUv
    /\ s.timer /\ s.on[r] # Null
    /\ s.received[r] < MaxChunks
    /\ Becomes(resumable \o Wakes(s, r), Woken([s EXCEPT !.received[r] = @ + 1], r))

\* onUvTimeout, in which a transfer ends: it took too long, its connection was
\* refused, a name was not found, or the last data was read.  The timer stays on.
\* checkCurlInfo() is not called: the message stays with libcurl.
onUvTimeoutEnds(r, outcome) ==
    /\ IsCurl /\ InUv
    /\ s.timer /\ InTransfer(s, r)
    /\ outcome = "failed" => s.received[r] = 0
    /\ Becomes(resumable, Completed(s, r, outcome))

\* onCurlSocketActive: data arrives.
onCurlSocketData(r) ==
    /\ IsCurl /\ InUv
    /\ s.on[r] # Null /\ s.poll[s.on[r]] = "active"
    /\ s.received[r] < MaxChunks
    /\ LET st == Woken([s EXCEPT !.received[r] = @ + 1], r)
       IN  CheckCurlInfo(resumable \o Wakes(s, r), st, Checked(st))

\* onCurlSocketActive: the transfer ends.
onCurlSocketEnds(r, outcome) ==
    /\ IsCurl /\ InUv
    /\ s.on[r] # Null /\ s.poll[s.on[r]] = "active"
    /\ outcome = "failed" => s.received[r] = 0
    /\ LET st == Completed(s, r, outcome)
       IN  CheckCurlInfo(resumable, st, Checked(st))

\* onCurlSocketActive with an error: libuv has stopped the poll; the request
\* that is entered for it is told, if it waits, but not libcurl.
onCurlSocketError(k) ==
    /\ IsCurl /\ InUv
    /\ s.poll[k] = "active"
    /\ LET r == s.request[k]
       IN  Becomes(resumable \o Wakes(s, r),
                   [Woken(s, r) EXCEPT
                       !.poll[k] = "stopped",
                       !.broken = @ \cup {q \in Downloads : s.on[q] = k},
                       !.failed = IF s.call[r] = "waiting" THEN @ \cup {r} ELSE @])

onCurlClosed ==
    /\ IsCurl /\ InUv
    /\ s.uv = "closing"
    /\ Becomes(resumable, [s EXCEPT !.uv = "freed"])

CurlNext ==
    \/ \E r \in Downloads :
          \/ Get(r) \/ Start(r) \/ AskChunk(r) \/ DownloadResumes(r) \/ DropRequest(r)
          \/ onCurlSocketData(r) \/ onUvTimeoutData(r)
    \/ \E r \in Downloads, k \in Sockets, again \in BOOLEAN : onUvTimeoutOpens(r, k, again)
    \/ \E r \in Downloads, outcome \in {"ok", "http", "failed", "partial"} :
          onUvTimeoutEnds(r, outcome) \/ onCurlSocketEnds(r, outcome)
    \/ \E k \in Sockets : onCurlSocketError(k)
    \/ CurlClose \/ onCurlClosed

\* A Curl on a loop of its own
CurlSpec == CurlInit /\ [][CurlNext \/ TakeTurns]_vars

----------------------------------------------------------------------------
\* Only suspended downloaders are in the run queue, each once, also when data and
\* the end of the transfer arrive in the same round of the loop.
CurlQueueSound ==
    IsCurl => QueueIsSound({r \in Downloads : s.call[r] \in {"woken", "asked"}})

\* "Called when an error occurs, but also upon completion" (curl.cc:273): a
\* downloader does not wait for a transfer that has ended, but for one whose end
\* is still a message that libcurl keeps, or one that had failed without an HTTP
\* status, which await_ready() does not notice, before it began to wait.
EndsReachDownloaders ==
    IsCurl =>
    \A r \in Downloads : s.call[r] = "waiting" =>
        s.outcome[r] = "running" \/ r \in s.msgs \/ (r \in s.told /\ s.outcome[r] = "failed")

\* A poll that is active is for the request whose transfer uses the socket
\* ("Ensure that socket is associated with the correct request in case Curl
\* reuses a socket", curl.cc:127), and that request exists, as does that of a
\* message: onError() is called for no other.
PollsKnowTheirRequest ==
    IsCurl =>
    /\ \A k \in Sockets : s.poll[k] = "active" => s.request[k] # Null /\ s.on[s.request[k]] = k
    /\ \A r \in Downloads : s.call[r] = "gone" => r \notin s.msgs /\ s.on[r] = Null

\* What libcurl and libuv report reaches the request it is about, and none other.
TransfersReachRequests == EndsReachDownloaders /\ PollsKnowTheirRequest

\* All chunks of a body that arrived with status 200 are yielded before the
\* generator ends.
BodyIsComplete ==
    IsCurl =>
    \A r \in Downloads : s.call[r] = "done" /\ s.outcome[r] = "ok" => s.yielded[r] = s.received[r]

\* A failed transfer, of which only a part may have arrived, ends in an
\* exception, and no other does.
FailuresThrow ==
    IsCurl =>
    \A r \in Downloads :
        /\ s.call[r] = "done" => s.outcome[r] \in {"ok", "http"}
        /\ s.call[r] = "threw" => s.outcome[r] \in {"failed", "partial"} \/ r \in s.broken

\* A download that returns has yielded the whole body, and one that did not get it
\* throws (curl.cc:304-325, 586-608).
BodiesAreWhole == BodyIsComplete /\ FailuresThrow
=============================================================================
