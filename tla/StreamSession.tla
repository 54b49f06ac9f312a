---------------------------- MODULE StreamSession ----------------------------
(***************************************************************************)
(* Sessions of the SAT>IP server: the Streams (one per tuner), their       *)
(* StreamClient slots, and the two server threads that work on them.       *)
(*                                                                         *)
(*  - Each server thread runs TcpSocket::poll: it walks over its sockets,  *)
(*    accepts, closes, or receives one request and handles it.  Handling a *)
(*    request takes the lock of a Stream several times, once per call; one *)
(*    action here is one such locked call, so the other thread may run     *)
(*    between any two of them.                                             *)
(*  - The RTSP thread also runs the session timeout check after each poll. *)
(*    It holds the lock of a Stream for all its slots, but reads _enabled, *)
(*    which the HTTP thread writes without the lock, anew for each slot.   *)
(*  - The streaming thread of a Stream shows as StreamWriteFails.          *)
(*                                                                         *)
(* Abstracted: message text, ports, addresses, CSeq and User-Agent; which  *)
(* tuner can receive what (a request names the streams that can serve it); *)
(* the device (a "data changed" flag and whether it is open and tuned).    *)
(***************************************************************************)
EXTENDS Integers, Sequences, FiniteSets

CONSTANTS
  NumStreams,     \* number of Streams in StreamManager::_streamVector
  MAX_CLIENTS,    \* StreamClient slots per Stream
  MAX_SOCKETS,    \* client sockets per server (TcpSocket::_MAX_CLIENTS)
  Capabilities,   \* the sets of Streams that can serve one and the same request
  Configured,     \* bound: the Streams whose "enable" checkbox is touched
  RtspTransports, \* bound: the kinds of Transport header that RTSP requests have
  GetTransports,  \* bound: the kinds of multicast parameter that GET requests have
  MaxSessions,    \* bound: session IDs handed out
  MaxPeers        \* bound: TCP connections accepted

ASSUME NumStreamsAssumption == NumStreams \in Nat \ {0}
ASSUME MaxClientsAssumption == MAX_CLIENTS \in Nat \ {0}
ASSUME MaxSocketsAssumption == MAX_SOCKETS \in Nat \ {0}
ASSUME CapabilitiesAssumption == Capabilities \subseteq SUBSET (1..NumStreams)
ASSUME ConfiguredAssumption == Configured \subseteq 1..NumStreams
ASSUME TransportsAssumption ==
  /\ RtspTransports \subseteq {"unicast", "multicast", "tcp", "none"}
  /\ GetTransports \subseteq {"multicast", "badMulticast", "none"}
ASSUME BoundsAssumption == MaxSessions \in Nat /\ MaxPeers \in Nat

Streams == 1..NumStreams
Slots == 0..(MAX_CLIENTS - 1)
Servers == {"rtsp", "http"}
Sockets == 0..(MAX_SOCKETS - 1)

VARIABLES
  enabled,     \* Stream::_enabled
  inUse,       \* Stream::_streamInUse
  active,      \* Stream::_streamActive
  type,        \* Stream::_streamingType
  streaming,   \* Stream::_streaming and the state of its thread
  client,      \* Stream::_client, the slots
  device,      \* Stream::_device
  fd,          \* the client sockets of each server; 0 stands for FD -1
  pc,          \* where each server thread is
  idx,         \* its loop index: socket polled, or stream checked
  slot,        \* the loop index of checkForSessionTimeout: the slot checked next
  req,         \* the request it handles
  owner,       \* history: the connection of the request that last took the stream
  nextSession, \* the next session ID
  nextPeer,    \* the next TCP connection
  issued       \* history: the session IDs that clients can know

streamVars == <<enabled, inUse, active, type, streaming, client, device, owner>>
serverVars == <<fd, pc, idx, slot, req>>
vars == <<streamVars, serverVars, nextSession, nextPeer, issued>>

-----------------------------------------------------------------------------
(* Types *)

StreamingType == {"NONE", "HTTP", "RTSP_UNICAST", "RTSP_MULTICAST", "RTP_TCP"}
SessionTimeoutCheck == {"WATCHDOG", "FILE_DESCRIPTOR", "TEARDOWN"}

\* _streaming: no object; constructed but its thread not started; its thread
\* running; its thread paused.
ThreadState == {"none", "idle", "running", "paused"}

\* _watchdog: 0; in the future; in the past; the value 1 of selfDestruct().
Watchdog == {"off", "armed", "expired", "self"}

\* OTHER: OPTIONS and DESCRIBE in a session, HEAD, methods that are not supported.
Methods == [rtsp |-> {"SETUP", "PLAY", "TEARDOWN", "OTHER"}, http |-> {"GET", "OTHER"}]

\* The Transport header, or for GET the multicast parameter, as
\* processStreamingRequest tells them apart.
Transports(method) ==
  IF method = "GET" THEN GetTransports ELSE RtspTransports

SocketRef == [server : Servers \cup {"none"}, index : Nat]
nullSocket == [server |-> "none", index |-> 0]

\* A session ID is a number; 0 is the "-1" of a free slot.
StreamClient ==
  [session : Nat, check : SessionTimeoutCheck, watchdog : Watchdog, socket : SocketRef]
FreeClient ==
  [session |-> 0, check |-> "WATCHDOG", watchdog |-> "off", socket |-> nullSocket]

Device == [changed : BOOLEAN, open : BOOLEAN]
ClosedDevice == [changed |-> FALSE, open |-> FALSE]

\* A request.  "at" is the Stream to try next: first the one the request names (fe,
\* or 0 when it names none) with at = 0, then 1, 2, ... in the order of the vector.
\* "stream" is the Stream it is for once found (0 before that), "clientID" the slot.
Request ==
  [method : UNION {Methods[t] : t \in Servers},
   newSession : BOOLEAN, session : Nat, can : SUBSET Streams, socket : SocketRef,
   fe : 0..NumStreams, at : 0..(NumStreams + 1), stream : 0..NumStreams, clientID : Slots]
NoRequest ==
  [method |-> "OTHER", newSession |-> FALSE, session |-> 0, can |-> {},
   socket |-> nullSocket, fe |-> 0, at |-> 0, stream |-> 0, clientID |-> 0]

PC == {"poll", "check", "find", "setSession", "process", "method", "failed"}

TypeOK ==
  /\ enabled \in [Streams -> BOOLEAN]
  /\ inUse \in [Streams -> BOOLEAN]
  /\ active \in [Streams -> BOOLEAN]
  /\ type \in [Streams -> StreamingType]
  /\ streaming \in [Streams -> ThreadState]
  /\ client \in [Streams -> [Slots -> StreamClient]]
  /\ device \in [Streams -> Device]
  /\ fd \in [Servers -> [Sockets -> Nat]]
  /\ pc \in [Servers -> PC]
  /\ idx \in [Servers -> Nat]
  /\ slot \in Slots
  /\ req \in [Servers -> Request]
  /\ owner \in [Streams -> Nat]
  /\ nextSession \in Nat \ {0}
  /\ nextPeer \in Nat \ {0}
  /\ issued \subseteq Nat

-----------------------------------------------------------------------------
Init ==
  /\ enabled = [s \in Streams |-> TRUE]
  /\ inUse = [s \in Streams |-> FALSE]
  /\ active = [s \in Streams |-> FALSE]
  /\ type = [s \in Streams |-> "NONE"]
  /\ streaming = [s \in Streams |-> "none"]
  /\ client = [s \in Streams |-> [i \in Slots |-> FreeClient]]
  /\ device = [s \in Streams |-> ClosedDevice]
  /\ fd = [t \in Servers |-> [k \in Sockets |-> 0]]
  /\ pc = [t \in Servers |-> "poll"]
  /\ idx = [t \in Servers |-> 0]
  /\ slot = 0
  /\ req = [t \in Servers |-> NoRequest]
  /\ owner = [s \in Streams |-> 0]
  /\ nextSession = 1
  /\ nextPeer = 1
  /\ issued = {}

GoTo(t, l) == pc' = [pc EXCEPT ![t] = l]
NextSocket(t) == idx' = [idx EXCEPT ![t] = @ + 1]

\* The request is answered; the poll loop goes on with its next socket.
Reply(t) ==
  /\ GoTo(t, "poll")
  /\ NextSocket(t)
  /\ req' = [req EXCEPT ![t] = NoRequest]

-----------------------------------------------------------------------------
(* TcpSocket::poll: index 0 is the listening socket, index k + 1 is client    *)
(* socket k.  A socket that has nothing to report is skipped; a request that   *)
(* is answered without a Stream (OPTIONS or DESCRIBE outside a session, one    *)
(* with neither session nor parameters) changes as little.                    *)

PollQuiet(t) ==
  /\ pc[t] = "poll" /\ idx[t] <= MAX_SOCKETS
  /\ NextSocket(t)
  /\ UNCHANGED <<streamVars, fd, pc, slot, req, nextSession, nextPeer, issued>>

\* The first free socket takes the new connection.
Accept(t) ==
  /\ pc[t] = "poll" /\ idx[t] = 0
  /\ nextPeer <= MaxPeers
  /\ \E k \in Sockets :
       /\ fd[t][k] = 0
       /\ \A j \in Sockets : j < k => fd[t][j] # 0
       /\ fd' = [fd EXCEPT ![t][k] = nextPeer]
  /\ nextPeer' = nextPeer + 1
  /\ NextSocket(t)
  /\ UNCHANGED <<streamVars, pc, slot, req, nextSession, issued>>

\* The peer closed its connection: recvHttpcMessage returned 0 or an error.
CloseConnection(t) ==
  /\ pc[t] = "poll" /\ idx[t] \in 1..MAX_SOCKETS
  /\ fd[t][idx[t] - 1] # 0
  /\ fd' = [fd EXCEPT ![t][idx[t] - 1] = 0]
  /\ NextSocket(t)
  /\ UNCHANGED <<streamVars, pc, slot, req, nextSession, nextPeer, issued>>

\* HttpcServer::process and processStreamingRequest up to the search for the Stream.
ReceiveRequest(t, method, session, newSession, fe, can) ==
  /\ pc[t] = "poll" /\ idx[t] \in 1..MAX_SOCKETS
  /\ fd[t][idx[t] - 1] # 0
  /\ req' = [req EXCEPT ![t] =
       [NoRequest EXCEPT !.method = method, !.newSession = newSession,
                         !.session = session, !.can = can,
                         !.socket = [server |-> t, index |-> idx[t] - 1],
                         !.fe = fe, !.at = IF fe = 0 THEN 1 ELSE 0]]
  /\ GoTo(t, "find")
  /\ UNCHANGED <<streamVars, fd, idx, slot, nextPeer>>

\* A request without a Session header opens a session, under a new ID.
OpenRequest(t) ==
  /\ nextSession <= MaxSessions
  /\ nextSession' = nextSession + 1
  /\ issued' = IF t = "rtsp" THEN issued \cup {nextSession} ELSE issued
  /\ \E m \in Methods[t], fe \in 0..NumStreams, can \in Capabilities :
       ReceiveRequest(t, m, nextSession, TRUE, fe, can)

\* A request with a Session header, perhaps of a session that is long gone.  RTSP
\* clients get their ID in the replies; of HTTP sessions only the status page tells.
SessionRequest ==
  /\ \E m \in Methods["rtsp"], fe \in 0..NumStreams, id \in issued :
       ReceiveRequest("rtsp", m, id, FALSE, fe, {})
  /\ UNCHANGED <<nextSession, issued>>

\* POST /SatPI.xml with the "enable" checkbox of Stream s: Stream::doFromXML takes
\* no lock of the Stream.
PostEnable(s, on) ==
  /\ pc["http"] = "poll" /\ idx["http"] \in 1..MAX_SOCKETS
  /\ fd["http"][idx["http"] - 1] # 0
  /\ enabled' = [enabled EXCEPT ![s] = on]
  /\ NextSocket("http")
  /\ UNCHANGED <<inUse, active, type, streaming, client, device, owner,
                 fd, pc, slot, req, nextSession, nextPeer, issued>>

\* GET /SatPI.xml shows the session ID of every stream.
GetStatus ==
  /\ pc["http"] = "poll" /\ idx["http"] \in 1..MAX_SOCKETS
  /\ fd["http"][idx["http"] - 1] # 0
  /\ issued' = issued \cup ({client[s][0].session : s \in Streams} \ {0})
  /\ NextSocket("http")
  /\ UNCHANGED <<streamVars, fd, pc, slot, req, nextSession, nextPeer>>

-----------------------------------------------------------------------------
(* The lock of a Stream.  A locked call is one step; only checkForSessionTimeout *)
(* takes several, one for each slot, and keeps the others waiting meanwhile.     *)

InCheck(s) == pc["rtsp"] = "check" /\ idx["rtsp"] = s /\ slot # 0

-----------------------------------------------------------------------------
(* StreamManager::findStreamAndClientIDFor                                    *)

Candidate(q) == IF q.at = 0 THEN q.fe ELSE q.at

\* Stream::findClientIDFor: a new session needs an enabled, unused, capable stream...
Refuses(s, q) == q.newSession /\ (~enabled[s] \/ inUse[s] \/ s \notin q.can)

\* Mutant: a session that is not known gets a free slot.
Matching_OrFree(s, q) ==
  {i \in Slots : client[s][i].session = 0 \/ client[s][i].session = q.session}

\* ...and takes the first free slot; a known session takes the slot that has its ID.
Matching(s, q) ==
  {i \in Slots : client[s][i].session = IF q.newSession THEN 0 ELSE q.session}
FoundIn(s, q) == ~Refuses(s, q) /\ Matching(s, q) # {}
FirstOf(S) == CHOOSE i \in S : \A j \in S : i <= j

FindClientID(t) ==
  LET q == req[t]
      s == Candidate(q)
      i == FirstOf(Matching(s, q))
  IN  /\ pc[t] = "find" /\ q.at <= NumStreams /\ ~InCheck(s)
      /\ FoundIn(s, q)
      /\ client' = [client EXCEPT ![s][i].socket = q.socket]
      /\ owner' = [owner EXCEPT ![s] = fd[t][q.socket.index]]
      /\ inUse' = [inUse EXCEPT ![s] = TRUE]
      /\ req' = [req EXCEPT ![t] =
           [NoRequest EXCEPT !.method = q.method, !.session = q.session,
                             !.stream = s, !.clientID = i]]
      /\ GoTo(t, "setSession")
      /\ UNCHANGED <<enabled, active, type, streaming, device, fd, idx, slot,
                     nextSession, nextPeer, issued>>

\* Not this Stream: the loop goes on with the next one.
TryNextStream(t) ==
  /\ pc[t] = "find" /\ req[t].at <= NumStreams /\ ~InCheck(Candidate(req[t]))
  /\ ~FoundIn(Candidate(req[t]), req[t])
  /\ req' = [req EXCEPT ![t].at = @ + 1]
  /\ UNCHANGED <<streamVars, fd, pc, idx, slot, nextSession, nextPeer, issued>>

\* No Stream at all: the answer is 503, "No-More: frontends".
ReplyNoFrontend(t) ==
  /\ pc[t] = "find" /\ req[t].at > NumStreams
  /\ Reply(t)
  /\ UNCHANGED <<streamVars, fd, slot, nextSession, nextPeer, issued>>

\* The ID is stored after findClientIDFor gave up the lock of the Stream.
SetSessionID(t) ==
  LET q == req[t]
  IN  /\ pc[t] = "setSession"
      /\ client' = [client EXCEPT ![q.stream][q.clientID].session = q.session]
      /\ GoTo(t, "process")
      /\ UNCHANGED <<enabled, inUse, active, type, streaming, device, owner,
                     fd, idx, slot, req, nextSession, nextPeer, issued>>

-----------------------------------------------------------------------------
(* Stream::processStreamingRequest                                            *)

\* The streaming type and timeout check that a request sets up on a stream without
\* one.  "unicast" is looked for first, then "multicast", then "RTP/AVP/TCP".  A
\* multicast parameter that is malformed sets up nothing, and "none" stands for a
\* Transport header without any of the three, or with "unicast" but not "RTP/AVP".
SetupType(method, transport) ==
  IF method = "GET"
  THEN CASE transport = "none"      -> "HTTP"
         [] transport = "multicast" -> "RTSP_MULTICAST"
         [] OTHER                   -> "NONE"
  ELSE CASE transport = "unicast"   -> "RTSP_UNICAST"
         [] transport = "multicast" -> "RTSP_MULTICAST"
         [] transport = "tcp"       -> "RTP_TCP"
         [] OTHER                   -> "NONE"

CheckFor(tp) ==
  CASE tp = "HTTP"           -> "FILE_DESCRIPTOR"
    [] tp = "RTSP_MULTICAST" -> "TEARDOWN"
    [] OTHER                 -> "WATCHDOG"

\* setSessionTimeoutCheck, when a streaming type is set up.
WithCheck(c, tp) == IF tp = "NONE" THEN c ELSE [c EXCEPT !.check = CheckFor(tp)]

\* parseStreamString may find that the device has to be set up anew.
ParsesParameters(q) == q.method \in {"SETUP", "PLAY", "GET"}

\* Mutant: for a channel change the streaming object is destroyed.
Paused_Destroys(state, changed) == IF changed THEN "none" ELSE state

\* pauseStreaming, for a channel change.
Paused(state, changed) == IF changed /\ state = "running" THEN "paused" ELSE state

\* Mutant: only a watchdog that was started before is restarted.
RestartWatchDog_OnlyRunning(c) ==
  [c EXCEPT !.watchdog = IF @ = "off" THEN "off" ELSE "armed"]

\* restartWatchDog: 75 seconds from now, also after selfDestruct().
RestartWatchDog(c) == [c EXCEPT !.watchdog = "armed"]

ProcessRequest(t) ==
  LET q == req[t]
      s == q.stream
  IN  /\ pc[t] = "process" /\ ~InCheck(s)
      /\ \E new \in (IF ParsesParameters(q) THEN BOOLEAN ELSE {FALSE}) :
           LET changed == device[s].changed \/ new
           IN  /\ device' = [device EXCEPT ![s].changed = changed]
               /\ streaming' = [streaming EXCEPT ![s] = Paused(@, changed)]
      /\ \E transport \in Transports(q.method) :
           LET new == IF type[s] = "NONE" THEN SetupType(q.method, transport) ELSE "NONE"
           IN  /\ type' = [type EXCEPT ![s] = IF new = "NONE" THEN @ ELSE new]
               /\ client' = [client EXCEPT ![s][q.clientID] =
                    RestartWatchDog(WithCheck(@, new))]
      /\ GoTo(t, "method")
      /\ UNCHANGED <<enabled, inUse, active, owner, fd, idx, slot, req,
                     nextSession, nextPeer, issued>>

-----------------------------------------------------------------------------
(* Stream::update, for GET, SETUP and PLAY                                    *)

\* _device->update(): sets up and tunes when something changed or nothing is open,
\* which may fail.
DeviceUpdates(s, ok) ==
  /\ ok \in (IF device[s].changed \/ ~device[s].open THEN BOOLEAN ELSE {TRUE})
  /\ device' = [device EXCEPT ![s] = [changed |-> FALSE, open |-> ok]]

\* The streaming object exists, or is made for the streaming type.
HasStreaming(s) == streaming[s] # "none" \/ type[s] # "NONE"

\* startStreaming fails when a thread cannot be started; update() is true all the same.
StartStreaming(s, started) ==
  /\ active' = [active EXCEPT ![s] = started]
  /\ streaming' = [streaming EXCEPT ![s] = IF started THEN "running" ELSE "idle"]

\* The streaming object is made when there is none; its thread is not started yet.
Made(state) == IF state = "none" THEN "idle" ELSE state

\* Mutant: the changed flag is read after the device update, which resets it.
RestartStreaming_FlagReadLate(s) ==
  /\ streaming' = [streaming EXCEPT ![s] = Made(@)]
  /\ UNCHANGED active

\* restartStreaming, when the device data had changed: it does nothing for a thread
\* that was not started.
RestartStreaming(s) ==
  /\ streaming' = [streaming EXCEPT ![s] =
       IF device[s].changed /\ @ = "paused" THEN "running" ELSE Made(@)]
  /\ UNCHANGED active

UpdateSucceeds(t) ==
  LET s == req[t].stream
  IN  /\ pc[t] = "method" /\ ParsesParameters(req[t]) /\ ~InCheck(s)
      /\ HasStreaming(s)
      /\ DeviceUpdates(s, TRUE)
      /\ \/ ~active[s] /\ \E started \in BOOLEAN : StartStreaming(s, started)
         \/ active[s] /\ RestartStreaming(s)
      /\ Reply(t)
      /\ UNCHANGED <<enabled, inUse, type, client, owner, fd, slot,
                     nextSession, nextPeer, issued>>

\* Without a streaming type, or when the device fails.  GET does not look at the
\* result; SETUP and PLAY answer 408 and tear the session down.
UpdateFails(t) ==
  LET s == req[t].stream
  IN  /\ pc[t] = "method" /\ ParsesParameters(req[t]) /\ ~InCheck(s)
      /\ \/ ~HasStreaming(s) /\ UNCHANGED <<device, streaming>>
         \/ /\ HasStreaming(s)
            /\ DeviceUpdates(s, FALSE)
            /\ streaming' = [streaming EXCEPT ![s] = Made(@)]
      /\ IF req[t].method = "GET"
         THEN Reply(t)
         ELSE GoTo(t, "failed") /\ UNCHANGED <<idx, req>>
      /\ UNCHANGED <<enabled, inUse, active, type, client, owner, fd, slot,
                     nextSession, nextPeer, issued>>

\* Nothing but an answer, if any: the session stays as it is, also a new one.
AnswerOnly(t) ==
  /\ pc[t] = "method" /\ req[t].method = "OTHER"
  /\ Reply(t)
  /\ UNCHANGED <<streamVars, fd, slot, nextSession, nextPeer, issued>>

-----------------------------------------------------------------------------
(* Stream::teardown of slot i: the streaming object and the device go with     *)
(* any slot; slot 0, which owns the stream, takes all the rest with it.       *)

\* StreamClient::teardown
TornDown(c) == FreeClient

\* Mutant: a flag of the stream survives.
ResetStream_KeepsType(s) ==
  /\ active' = [active EXCEPT ![s] = FALSE]
  /\ inUse' = [inUse EXCEPT ![s] = FALSE]
  /\ owner' = [owner EXCEPT ![s] = 0]
  /\ UNCHANGED type

\* What teardown(0) does besides.
ResetStream(s) ==
  /\ active' = [active EXCEPT ![s] = FALSE]
  /\ inUse' = [inUse EXCEPT ![s] = FALSE]
  /\ type' = [type EXCEPT ![s] = "NONE"]
  /\ owner' = [owner EXCEPT ![s] = 0]

Teardown(s, i) ==
  /\ streaming' = [streaming EXCEPT ![s] = "none"]
  /\ device' = [device EXCEPT ![s] = ClosedDevice]
  /\ client' = [client EXCEPT ![s] =
       [j \in Slots |-> IF i \in {0, j} THEN TornDown(@[j]) ELSE @[j]]]
  /\ IF i = 0 THEN ResetStream(s) ELSE UNCHANGED <<active, inUse, type, owner>>

\* The TEARDOWN method, and the end of a SETUP or PLAY that failed.
TeardownRequest(t) ==
  /\ \/ pc[t] = "method" /\ req[t].method = "TEARDOWN"
     \/ pc[t] = "failed"
  /\ ~InCheck(req[t].stream)
  /\ Teardown(req[t].stream, req[t].clientID)
  /\ Reply(t)
  /\ UNCHANGED <<enabled, fd, slot, nextSession, nextPeer, issued>>

-----------------------------------------------------------------------------
(* The end of poll().  The RTSP thread then runs checkForSessionTimeout.      *)

PollReturns(t) ==
  /\ pc[t] = "poll" /\ idx[t] = MAX_SOCKETS + 1
  /\ IF t = "rtsp"
     THEN GoTo(t, "check") /\ idx' = [idx EXCEPT ![t] = 1]
     ELSE UNCHANGED pc /\ idx' = [idx EXCEPT ![t] = 0]
  /\ UNCHANGED <<streamVars, fd, slot, req, nextSession, nextPeer, issued>>

SocketFD(ref) == fd[ref.server][ref.index]

\* Mutant: a client that destructs itself counts as one without a watchdog.
SessionTimeout_NotSelf(s, i) ==
  LET c == client[s][i]
  IN  \/ c.check = "WATCHDOG" /\ c.watchdog = "expired"
      \/ c.check = "FILE_DESCRIPTOR" /\ SocketFD(c.socket) = 0

\* StreamClient::sessionTimeout; a FILE_DESCRIPTOR check follows the pointer to the socket.
SessionTimeout(s, i) ==
  LET c == client[s][i]
  IN  \/ c.check = "WATCHDOG" /\ c.watchdog \in {"expired", "self"}
      \/ c.check = "FILE_DESCRIPTOR" /\ SocketFD(c.socket) = 0

\* Mutant: a disabled stream is left alone.
TimedOut_EvenDisabled(s, i) == SessionTimeout(s, i)

TimedOut(s, i) == SessionTimeout(s, i) \/ ~enabled[s]

\* One round of Stream::checkForSessionTimeout of Stream idx["rtsp"].  After the last
\* slot the lock is given up and the next Stream follows.
CheckSlot ==
  LET s == idx["rtsp"]
  IN  /\ pc["rtsp"] = "check" /\ s <= NumStreams
      /\ inUse[s] \/ slot # 0
      /\ IF TimedOut(s, slot)
         THEN Teardown(s, slot) /\ UNCHANGED enabled
         ELSE UNCHANGED streamVars
      /\ IF slot = MAX_CLIENTS - 1
         THEN slot' = 0 /\ NextSocket("rtsp")
         ELSE slot' = slot + 1 /\ UNCHANGED idx
      /\ UNCHANGED <<fd, pc, req, nextSession, nextPeer, issued>>

\* A Stream that is not in use is not checked.
SkipStream ==
  /\ pc["rtsp"] = "check" /\ idx["rtsp"] <= NumStreams
  /\ ~inUse[idx["rtsp"]] /\ slot = 0
  /\ NextSocket("rtsp")
  /\ UNCHANGED <<streamVars, fd, pc, slot, req, nextSession, nextPeer, issued>>

CheckDone ==
  /\ pc["rtsp"] = "check" /\ idx["rtsp"] > NumStreams
  /\ GoTo("rtsp", "poll")
  /\ idx' = [idx EXCEPT !["rtsp"] = 0]
  /\ UNCHANGED <<streamVars, fd, slot, req, nextSession, nextPeer, issued>>

-----------------------------------------------------------------------------
(* Time, and the streaming thread.                                            *)

Handles(t, s) == pc[t] \in {"setSession", "process", "method", "failed"} /\ req[t].stream = s
Handled(s) == \E t \in Servers : Handles(t, s)

\* The session was silent for _sessionTimeout + 15 seconds.  A request is handled in
\* far less, so this does not fall into the handling of one.  The other checks do not
\* look at the watchdog.
WatchdogExpires(s, i) ==
  /\ ~Handled(s)
  /\ client[s][i].check = "WATCHDOG" /\ client[s][i].watchdog = "armed"
  /\ client' = [client EXCEPT ![s][i].watchdog = "expired"]
  /\ UNCHANGED <<enabled, inUse, active, type, streaming, device, owner,
                 serverVars, nextSession, nextPeer, issued>>

\* writeDataToOutputDevice could not send: selfDestruct() of the client.
StreamWriteFails(s) ==
  /\ streaming[s] = "running"
  /\ client[s][0].watchdog # "self"
  /\ client' = [client EXCEPT ![s][0].watchdog = "self"]
  /\ UNCHANGED <<enabled, inUse, active, type, streaming, device, owner,
                 serverVars, nextSession, nextPeer, issued>>

-----------------------------------------------------------------------------
HandleStep(t) ==
  \/ FindClientID(t) \/ TryNextStream(t) \/ ReplyNoFrontend(t) \/ SetSessionID(t)
  \/ ProcessRequest(t) \/ UpdateSucceeds(t) \/ UpdateFails(t) \/ AnswerOnly(t)
  \/ TeardownRequest(t)

PollStep(t) ==
  \/ PollQuiet(t) \/ Accept(t) \/ CloseConnection(t) \/ OpenRequest(t) \/ PollReturns(t)

RtspStep == PollStep("rtsp") \/ SessionRequest \/ HandleStep("rtsp")
            \/ CheckSlot \/ SkipStream \/ CheckDone
HttpStep ==
  \/ PollStep("http") \/ HandleStep("http") \/ GetStatus
  \/ \E s \in Configured, on \in BOOLEAN : PostEnable(s, on)

Environment ==
  \/ \E s \in Streams, i \in Slots : WatchdogExpires(s, i)
  \/ \E s \in Streams : StreamWriteFails(s)

Next == RtspStep \/ HttpStep \/ Environment

Spec == Init /\ [][Next]_vars

\* Both server threads loop for ever: poll() returns within 500 ms, and no call
\* they make blocks for good.  Clients, time and write errors are not fair.
FairSpec == Spec /\ WF_vars(RtspStep) /\ WF_vars(HttpStep)

-----------------------------------------------------------------------------
(* Safety *)

\* A stream that is not in use has nothing left of its last session: no slot, no
\* streaming object or type, no open device.  findClientIDFor relies on it, as it
\* gives a new session any stream whose _streamInUse is false.
FreeStreamIsIdle ==
  \A s \in Streams : ~inUse[s] =>
    /\ \A i \in Slots : client[s][i] = FreeClient
    /\ streaming[s] = "none" /\ ~active[s] /\ type[s] = "NONE"
    /\ device[s] = ClosedDevice

\* Only the owner's slot is ever taken: findClientIDFor never puts a second session on
\* a stream, though it searches all slots.
OwnerSlotOnly ==
  \A s \in Streams, i \in Slots \ {0} : client[s][i] = FreeClient

\* teardown() of any slot destroys the streaming object of the owner, but only that of
\* slot 0 ends the session.  A stream loses its object with its session only, but for
\* one case: it was disabled after the check of slot 0 and before that of another.
TornDownWhole ==
  [][\A s \in Streams : streaming[s] # "none" /\ streaming'[s] = "none" =>
       \/ ~inUse'[s] /\ ~active'[s] /\ client'[s][0] = FreeClient
       \/ InCheck(s) /\ ~enabled[s]]_vars

\* "start or restart streaming again": an update() that succeeds leaves a stream that
\* counts as active streaming.
UpdateStreams ==
  [][\A t \in Servers : UpdateSucceeds(t) /\ active'[req[t].stream] =>
       streaming'[req[t].stream] = "running"]_vars

\* No tuner leaks: a stream in use that no server thread is working on has a session
\* ID by which it can be torn down, and an armed watchdog.
NoOrphan ==
  \A s \in Streams : inUse[s] /\ ~Handled(s) =>
    client[s][0].session # 0 /\ client[s][0].watchdog # "off"

\* A session ID is in one slot of one stream at most, so that the search of
\* findStreamAndClientIDFor cannot depend on its order.
SessionUnique ==
  \A s, r \in Streams, i, j \in Slots :
    client[s][i].session # 0 /\ client[s][i].session = client[r][j].session
      => s = r /\ i = j

\* A stream paused for a channel change is resumed or torn down by the request that
\* paused it: it is never left paused with nobody working on it.
NoStuckPause ==
  \A s \in Streams : streaming[s] = "paused" => Handled(s)

\* _streamActive, from which update() chooses between start and restart, is set while
\* the streaming thread runs or is paused: it is never started twice.
Started(s) == streaming[s] \in {"running", "paused"}
StartedIsActive == \A s \in Streams : Started(s) => active[s]

\* The streaming thread reads from the device only while it is open and set up: it
\* is paused before update() closes the device and destroyed before teardown() does.
ReadsOpenDevice ==
  \A s \in Streams : streaming[s] = "running" => device[s].open /\ ~device[s].changed

\* sessionTimeout() never follows a null _socketClient.
NoNullSocket ==
  \A s \in Streams, i \in Slots :
    client[s][i].check = "FILE_DESCRIPTOR" => client[s][i].socket.server # "none"

\* The HTTP stream goes to the connection that asked for it (or to none).
HttpDataToRequester ==
  \A s \in Streams : streaming[s] = "running" /\ type[s] = "HTTP" =>
    SocketFD(client[s][0].socket) \in {0, owner[s]}

-----------------------------------------------------------------------------
(* Liveness *)

\* A stream disabled while in use is torn down, unless it is enabled again.
DisabledIsFreed ==
  \A s \in Streams : ~enabled[s] /\ inUse[s] ~> ~inUse[s] \/ enabled[s]

\* An RTSP unicast session that is silent too long, or whose streaming failed, ends
\* or shows a sign of life.
SilentSessionEnds ==
  \A s \in Streams :
    inUse[s] /\ client[s][0].check = "WATCHDOG" /\ client[s][0].watchdog \in {"expired", "self"}
      ~> ~inUse[s] \/ client[s][0].watchdog \notin {"expired", "self"}

\* selfDestruct() stops the stream, whatever its type.
SelfDestructStops ==
  \A s \in Streams :
    inUse[s] /\ client[s][0].watchdog = "self" ~> ~(inUse[s] /\ client[s][0].watchdog = "self")

-----------------------------------------------------------------------------
(* The promise to clients: TunerPool.                                         *)

\* Between findClientIDFor and setSessionID the session is known to the thread only.
Claimant(s) == CHOOSE t \in Servers : Handles(t, s)
holder ==
  [s \in Streams |->
     IF ~inUse[s] THEN 0
     ELSE IF client[s][0].session # 0 THEN client[s][0].session
     ELSE req[Claimant(s)].session]
gone ==
  LET held == {holder[s] : s \in Streams}
      searching == {t \in Servers : pc[t] = "find" /\ req[t].newSession}
  IN  (1..(nextSession - 1)) \ (held \cup {req[t].session : t \in searching})

Pool == INSTANCE TunerPool WITH Tuners <- Streams, Sessions <- 1..MaxSessions
PoolSpec == Pool!Spec
=============================================================================
