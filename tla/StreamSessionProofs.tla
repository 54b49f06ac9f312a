-------------------------- MODULE StreamSessionProofs --------------------------
(***************************************************************************)
(* Proofs about StreamSession, for every value of its constants.           *)
(***************************************************************************)
EXTENDS StreamSessionInv, TLAPS

-----------------------------------------------------------------------------
(* Slots, and the records the actions build.                                  *)

LEMMA SlotZero == 0 \in Slots /\ \A i \in Slots : 0 <= i
BY MaxClientsAssumption DEF Slots

\* The least element of a set of slots that holds slot 0 is slot 0.
LEMMA FirstSlot ==
  ASSUME NEW S \in SUBSET Slots, 0 \in S
  PROVE FirstOf(S) = 0
<1>1. 0 \in S /\ \A j \in S : 0 <= j
  BY SlotZero
<1>2. \A i \in S : (\A j \in S : i <= j) => i = 0
  BY <1>1 DEF Slots
<1> QED BY <1>1, <1>2, Zenon DEF FirstOf

LEMMA FreeClientType == FreeClient \in StreamClient
BY DEF FreeClient, StreamClient, SessionTimeoutCheck, Watchdog, SocketRef, nullSocket

LEMMA NoRequestType == NoRequest \in Request
BY SlotZero, NumStreamsAssumption DEF NoRequest, Request, Methods, Servers, SocketRef, nullSocket

LEMMA InitType == Init => TypeOK
BY FreeClientType, NoRequestType, SlotZero DEF Init, TypeOK, Servers, StreamingType, ThreadState, Device, ClosedDevice, PC

LEMMA ReplyType ==
  ASSUME TypeOK, NEW t \in Servers, Reply(t)
  PROVE  /\ req' \in [Servers -> Request]
         /\ pc' \in [Servers -> PC]
         /\ idx' \in [Servers -> Nat]
BY NoRequestType DEF TypeOK, Reply, GoTo, NextSocket, PC

\* The request that ReceiveRequest stores is one.
LEMMA ReceiveType ==
  ASSUME TypeOK, NEW t \in Servers,
         NEW m \in Methods[t], NEW id \in Nat, NEW n \in BOOLEAN, NEW fe \in 0..NumStreams,
         NEW can \in SUBSET Streams, ReceiveRequest(t, m, id, n, fe, can)
  PROVE  /\ req' \in [Servers -> Request]
         /\ pc' \in [Servers -> PC]
<1> DEFINE q == [NoRequest EXCEPT !.method = m, !.newSession = n,
                         !.session = id, !.can = can,
                         !.socket = [server |-> t, index |-> idx[t] - 1],
                         !.fe = fe, !.at = IF fe = 0 THEN 1 ELSE 0]
<1>1. idx[t] - 1 \in Nat
  BY MaxSocketsAssumption DEF ReceiveRequest, TypeOK
<1>2. m \in UNION {Methods[u] : u \in Servers}
  OBVIOUS
<1>3. [server |-> t, index |-> idx[t] - 1] \in SocketRef
  BY <1>1 DEF SocketRef, Servers
<1>4. q.can \in SUBSET Streams /\ q.socket \in SocketRef /\ q.stream = 0 /\ q.clientID = 0
  BY <1>3 DEF NoRequest
<1>5. q.at \in 0..(NumStreams + 1) /\ q.stream \in 0..NumStreams /\ q.clientID \in Slots
  BY <1>4, NumStreamsAssumption, SlotZero DEF NoRequest
<1>6. q \in Request
  BY <1>2, <1>4, <1>5 DEF Request, NoRequest
<1>7. req' = [req EXCEPT ![t] = q] /\ pc' = [pc EXCEPT ![t] = "find"]
  BY DEF ReceiveRequest, GoTo
<1> QED BY <1>6, <1>7 DEF TypeOK, PC

-----------------------------------------------------------------------------
(* Steps that leave the streams alone.                                        *)

LEMMA PollType ==
  ASSUME TypeOK, NEW t \in Servers,
         \/ PollQuiet(t) \/ Accept(t) \/ CloseConnection(t) \/ PollReturns(t)
         \/ SkipStream \/ CheckDone
  PROVE  TypeOK'
<1>1. CASE PollQuiet(t)
  BY <1>1 DEF PollQuiet, TypeOK, NextSocket, streamVars
<1>2. CASE Accept(t)
  <2>1. PICK k \in Sockets : fd' = [fd EXCEPT ![t] = [fd[t] EXCEPT ![k] = nextPeer]]
    BY <1>2 DEF Accept
  <2>2. fd[t] \in [Sockets -> Nat] /\ nextPeer \in Nat
    BY DEF TypeOK
  <2>3. [fd[t] EXCEPT ![k] = nextPeer] \in [Sockets -> Nat]
    BY <2>2
  <2> QED BY <1>2, <2>1, <2>2, <2>3 DEF Accept, TypeOK, NextSocket, streamVars
<1>3. CASE CloseConnection(t)
  <2>1. fd[t] \in [Sockets -> Nat]
    BY DEF TypeOK
  <2>2. [fd[t] EXCEPT ![idx[t] - 1] = 0] \in [Sockets -> Nat]
    BY <2>1
  <2> QED BY <1>3, <2>2 DEF CloseConnection, TypeOK, NextSocket, streamVars
<1>4. CASE PollReturns(t)
  <2>1. pc' \in [Servers -> PC] /\ idx' \in [Servers -> Nat]
    <3>1. CASE t = "rtsp"
      <4>1. pc' = [pc EXCEPT ![t] = "check"] /\ idx' = [idx EXCEPT ![t] = 1]
        BY <1>4, <3>1 DEF PollReturns, GoTo
      <4>2. "check" \in PC
        BY DEF PC
      <4> QED BY <4>1, <4>2 DEF TypeOK
    <3>2. CASE t # "rtsp"
      BY <1>4, <3>2 DEF PollReturns, TypeOK
    <3> QED BY <3>1, <3>2
  <2> QED BY <1>4, <2>1 DEF PollReturns, TypeOK, streamVars
<1>5. CASE CheckDone
  BY <1>5 DEF CheckDone, TypeOK, GoTo, streamVars, PC, Servers
<1>6. CASE SkipStream
  BY <1>6 DEF SkipStream, TypeOK, NextSocket, streamVars, Servers
<1> QED BY <1>1, <1>2, <1>3, <1>4, <1>5, <1>6

LEMMA RequestType ==
  ASSUME TypeOK, ThreadInv, NEW t \in Servers, OpenRequest(t) \/ SessionRequest
  PROVE  TypeOK'
<1>1. CASE OpenRequest(t)
  <2>1. PICK m \in Methods[t], fe \in 0..NumStreams, can \in Capabilities :
          ReceiveRequest(t, m, nextSession, TRUE, fe, can)
    BY <1>1 DEF OpenRequest
  <2>2. req' \in [Servers -> Request] /\ pc' \in [Servers -> PC]
    <3>1. can \in SUBSET Streams /\ nextSession \in Nat /\ TRUE \in BOOLEAN
      BY CapabilitiesAssumption DEF TypeOK, Streams
    <3> QED BY <2>1, <3>1, ReceiveType
  <2>3. nextSession' \in Nat \ {0} /\ issued' \subseteq Nat
    <3>1. nextSession \in Nat \ {0} /\ issued \subseteq Nat
      BY DEF TypeOK
    <3>2. nextSession' = nextSession + 1 /\ issued' \subseteq issued \cup {nextSession}
      BY <1>1 DEF OpenRequest
    <3> QED BY <3>1, <3>2
  <2> QED BY <2>1, <2>2, <2>3 DEF OpenRequest, ReceiveRequest, TypeOK, streamVars
<1>2. CASE SessionRequest
  <2>1. PICK m \in Methods["rtsp"], fe \in 0..NumStreams, id \in issued :
          ReceiveRequest("rtsp", m, id, FALSE, fe, {})
    BY <1>2 DEF SessionRequest
  <2>2. req' \in [Servers -> Request] /\ pc' \in [Servers -> PC]
    <3>1. id \in Nat /\ {} \in SUBSET Streams /\ FALSE \in BOOLEAN /\ "rtsp" \in Servers
      BY DEF TypeOK, Servers
    <3> QED BY <2>1, <3>1, ReceiveType
  <2> QED BY <1>2, <2>1, <2>2 DEF SessionRequest, ReceiveRequest, TypeOK, streamVars
<1> QED BY <1>1, <1>2

\* A thread that did not step still knows what it knew.
LEMMA OtherThread ==
  ASSUME TypeOK, NEW u \in Servers, ThreadOK(u),
         pc'[u] = pc[u], req'[u] = req[u], idx'[u] = idx[u], fd'[u] = fd[u],
         \/ nextSession' = nextSession /\ issued' = issued
         \/ nextSession' = nextSession /\ issued \subseteq issued' /\ u = "rtsp"
         \/ nextSession' = nextSession + 1 /\ issued' \in {issued, issued \cup {nextSession}}
  PROVE  ThreadOK(u)'
<1>1. nextSession \in Nat /\ nextSession' \in Nat /\ nextSession' >= nextSession
  BY DEF TypeOK
<1>2. ASSUME pc[u] \in Busy
      PROVE  /\ req[u].session \in 1..(nextSession' - 1)
             /\ (req[u].session \in issued') <=> (u = "rtsp")
  BY <1>1, <1>2 DEF ThreadOK
<1> QED BY <1>2 DEF ThreadOK

\* A stream that nobody touched, and that the same threads work on, is as it was.
LEMMA OtherStream ==
  ASSUME TypeOK, NEW s \in Streams, StreamOK(s),
         Handles("http", s) => enabled'[s] = enabled[s],
         inUse'[s] = inUse[s], active'[s] = active[s],
         type'[s] = type[s], streaming'[s] = streaming[s], client'[s] = client[s],
         device'[s] = device[s],
         nextSession' = nextSession \/ nextSession' = nextSession + 1,
         \A t \in Servers : Handles(t, s)' <=> Handles(t, s),
         \A t \in Servers : Handles(t, s) =>
           pc'[t] = pc[t] /\ req'[t] = req[t] /\ idx'[t] = idx[t]
  PROVE  StreamOK(s)'
<1>1. Handled(s)' <=> Handled(s)
  BY DEF Handled
<1>2. SlotsOK(s)'
  <2>1. client[s][0] \in StreamClient /\ nextSession \in Nat
    BY SlotZero DEF TypeOK
  <2>2. client[s][0].session \in Nat
    BY <2>1 DEF StreamClient
  <2>3. client[s][0].session < nextSession'
    BY <2>1, <2>2 DEF StreamOK, SlotsOK
  <2> QED BY <1>1, <2>3 DEF StreamOK, SlotsOK
<1>3. ASSUME NEW t \in Servers PROVE HandledOK(t, s)'
  BY DEF StreamOK, HandledOK, Servers
<1>4. ~(Handles("rtsp", s) /\ Handles("http", s))'
  BY DEF StreamOK, Servers
<1>5. ASSUME NEW t \in Servers PROVE Tuning(t, s)' <=> Tuning(t, s)
  BY DEF Tuning, ParsesParameters
<1>6. ASSUME NEW t \in Servers, Tuning(t, s) PROVE pc'[t] = pc[t]
  BY <1>6 DEF Tuning
<1>7. StreamingOK(s)'
  BY <1>5, <1>6 DEF StreamOK, StreamingOK, Started
<1> QED BY <1>2, <1>3, <1>4, <1>7 DEF StreamOK

LEMMA IDsGrow ==
  ASSUME NEW n \in Nat, NEW m \in Nat, n <= m, NEW id \in 1..(n - 1)
  PROVE  id \in 1..(m - 1)
OBVIOUS

\* A step of a thread that works on no stream, before and after it.
LEMMA QuietStep ==
  ASSUME IInv, TypeOK', NEW t \in Servers, ThreadOK(t)',
         UNCHANGED <<inUse, active, type, streaming, client, device>>,
         t = "http" \/ UNCHANGED enabled,
         pc[t] \notin Working, pc'[t] \notin Working,
         \A u \in Servers \ {t} :
           pc'[u] = pc[u] /\ req'[u] = req[u] /\ idx'[u] = idx[u] /\ fd'[u] = fd[u],
         \/ nextSession' = nextSession /\ issued' = issued
         \/ /\ nextSession' = nextSession /\ t = "http"
            /\ issued \subseteq issued' /\ issued' \subseteq 1..(nextSession - 1)
         \/ nextSession' = nextSession + 1 /\ issued' \in {issued, issued \cup {nextSession}},
         pc'[t] = "find" /\ req'[t].newSession =>
           \A s \in Streams : client[s][0].session # req'[t].session
  PROVE  IInv'
<1>1. ThreadInv'
  <2>1. ASSUME NEW u \in Servers, u # t PROVE ThreadOK(u)'
    <3>1. t = "http" => u = "rtsp"
      BY <2>1 DEF Servers
    <3> QED BY <2>1, <3>1, OtherThread DEF IInv, ThreadInv
  <2> QED BY <2>1 DEF ThreadInv
<1>2. ASSUME NEW s \in Streams, NEW u \in Servers
      PROVE  /\ Handles(u, s)' <=> Handles(u, s)
             /\ Handles(u, s) => u # t
  BY DEF Handles, Working
<1>3. ASSUME NEW s \in Streams PROVE StreamOK(s)'
  <2>1. Handles("http", s) => enabled'[s] = enabled[s]
    BY <1>2 DEF Servers
  <2>2. \A u \in Servers : Handles(u, s) =>
          pc'[u] = pc[u] /\ req'[u] = req[u] /\ idx'[u] = idx[u]
    BY <1>2
  <2> QED BY <1>2, <2>1, <2>2, OtherStream DEF IInv, StreamInv
<1>4. SessionInv'
  <2>1. issued' \subseteq 1..(nextSession' - 1)
    <3>1. nextSession \in Nat \ {0} /\ issued \subseteq 1..(nextSession - 1)
      BY DEF IInv, SessionInv, TypeOK
    <3>2. ASSUME NEW id \in issued' PROVE id \in 1..(nextSession' - 1)
      <4>1. \/ id \in issued \/ (id = nextSession /\ nextSession' = nextSession + 1)
            \/ id \in 1..(nextSession - 1)
        OBVIOUS
      <4>2. nextSession' \in Nat /\ nextSession <= nextSession'
        BY <3>1
      <4>3. id \in issued => id \in 1..(nextSession - 1)
        BY <3>1, Zenon
      <4>4. id = nextSession /\ nextSession' = nextSession + 1 => id \in 1..(nextSession' - 1)
        BY <3>1
      <4> QED BY <3>1, <4>1, <4>2, <4>3, <4>4, IDsGrow
    <3> QED BY <3>2
  <2>2. ASSUME NEW u \in Servers, NEW s \in Streams
        PROVE  /\ pc'[u] = "setSession" /\ client'[s][0].session = req'[u].session
                    => s = req'[u].stream
               /\ pc'[u] = "find" /\ req'[u].newSession
                    => client'[s][0].session # req'[u].session
    BY DEF IInv, SessionInv, Working
  <2> QED BY <2>1, <2>2 DEF IInv, SessionInv
<1> QED BY <1>1, <1>3, <1>4 DEF IInv, StreamInv

LEMMA PollInv ==
  ASSUME IInv, NEW t \in Servers,
         \/ PollQuiet(t) \/ Accept(t) \/ CloseConnection(t) \/ PollReturns(t)
         \/ SkipStream \/ CheckDone
  PROVE  IInv'
<1>1. TypeOK'
  BY PollType DEF IInv
<1>2. UNCHANGED <<streamVars, req, nextSession, issued>>
  BY DEF PollQuiet, Accept, CloseConnection, PollReturns, SkipStream, CheckDone
<1>3. CASE CheckDone
  <2>1. pc["rtsp"] = "check" /\ pc'["rtsp"] = "poll" /\ "rtsp" \in Servers
    BY <1>3 DEF CheckDone, GoTo, IInv, TypeOK, Servers
  <2>2. ThreadOK("rtsp")'
    BY <2>1 DEF ThreadOK, Busy, Working
  <2>3. \A v \in Servers \ {"rtsp"} : pc'[v] = pc[v] /\ idx'[v] = idx[v] /\ fd'[v] = fd[v]
    BY <1>3 DEF CheckDone, GoTo
  <2> QED BY <1>1, <1>2, <2>1, <2>2, <2>3, QuietStep DEF streamVars, Working
<1>4. CASE SkipStream
  <2>1. /\ pc["rtsp"] = "check" /\ pc' = pc /\ "rtsp" \in Servers /\ fd' = fd
        /\ idx' = [idx EXCEPT !["rtsp"] = @ + 1]
    BY <1>4 DEF SkipStream, NextSocket, Servers
  <2>2. idx'["rtsp"] # 0 /\ \A v \in Servers \ {"rtsp"} : idx'[v] = idx[v]
    BY <2>1 DEF IInv, TypeOK
  <2>3. ThreadOK("rtsp")'
    BY <2>1, <2>2 DEF ThreadOK, Busy, Working
  <2> QED BY <1>1, <1>2, <2>1, <2>2, <2>3, QuietStep DEF streamVars, Working
<1>5. CASE ~CheckDone /\ ~SkipStream
  <2>1. pc[t] = "poll" /\ pc'[t] \in {"poll", "check"}
        /\ (pc'[t] = "check" => t = "rtsp" /\ idx'[t] # 0)
    <3>1. CASE PollReturns(t)
      <4>1. CASE t = "rtsp"
        BY <3>1, <4>1 DEF PollReturns, GoTo, IInv, TypeOK
      <4>2. CASE t # "rtsp"
        BY <3>1, <4>2 DEF PollReturns
      <4> QED BY <4>1, <4>2
    <3>2. CASE PollQuiet(t) \/ Accept(t) \/ CloseConnection(t)
      BY <3>2 DEF PollQuiet, Accept, CloseConnection
    <3> QED BY <1>5, <3>1, <3>2
  <2>2. ThreadOK(t)'
    BY <2>1 DEF ThreadOK, Busy, Working
  <2>3. \A v \in Servers \ {t} : pc'[v] = pc[v] /\ idx'[v] = idx[v] /\ fd'[v] = fd[v]
    BY <1>5 DEF PollQuiet, Accept, CloseConnection, PollReturns, GoTo, NextSocket, IInv, TypeOK
  <2> QED BY <1>1, <1>2, <2>1, <2>2, <2>3, QuietStep DEF streamVars, Working
<1> QED BY <1>3, <1>5, <1>4

LEMMA SearchInv ==
  ASSUME IInv, NEW t \in Servers, TryNextStream(t) \/ ReplyNoFrontend(t)
  PROVE  IInv'
<1>1. /\ pc[t] = "find"
      /\ UNCHANGED <<streamVars, fd, slot, nextSession, nextPeer, issued>>
      /\ req[t] \in Request
  BY DEF TryNextStream, ReplyNoFrontend, IInv, TypeOK
<1>2. \A u \in Servers \ {t} : pc'[u] = pc[u] /\ req'[u] = req[u] /\ idx'[u] = idx[u]
  BY DEF TryNextStream, ReplyNoFrontend, Reply, GoTo, NextSocket, IInv, TypeOK
<1>3. CASE TryNextStream(t)
  <2>1. /\ req' = [req EXCEPT ![t] = [req[t] EXCEPT !.at = req[t].at + 1]]
        /\ pc' = pc /\ idx' = idx /\ req[t].at <= NumStreams
    BY <1>3 DEF TryNextStream
  <2>2. [req[t] EXCEPT !.at = req[t].at + 1] \in Request
    BY <1>1, <2>1, NumStreamsAssumption DEF Request
  <2>3. req' \in [Servers -> Request] /\ req'[t] = [req[t] EXCEPT !.at = req[t].at + 1]
    BY <2>1, <2>2 DEF IInv, TypeOK
  <2>4. /\ req'[t].at = req[t].at + 1
        /\ req'[t].session = req[t].session /\ req'[t].newSession = req[t].newSession
        /\ req'[t].method = req[t].method /\ req'[t].socket = req[t].socket
    BY <1>1, <2>3 DEF Request
  <2>5. TypeOK'
    BY <1>1, <2>1, <2>3 DEF IInv, TypeOK, streamVars
  <2>6. req'[t].at # 0
    BY <1>1, <2>4, NumStreamsAssumption DEF Request
  <2>7. ThreadOK(t)'
    BY <1>1, <2>1, <2>4, <2>6 DEF IInv, ThreadInv, ThreadOK, Busy, Working
  <2>8. pc'[t] = "find" /\ req'[t].newSession =>
          \A s \in Streams : client[s][0].session # req'[t].session
    BY <1>1, <2>4 DEF IInv, SessionInv
  <2> QED BY <1>1, <1>2, <2>1, <2>5, <2>7, <2>8, QuietStep DEF streamVars, Working
<1>4. CASE ReplyNoFrontend(t)
  <2>1. Reply(t)
    BY <1>4 DEF ReplyNoFrontend
  <2>2. TypeOK'
    BY <1>1, <2>1, ReplyType DEF IInv, TypeOK, streamVars
  <2>3. pc'[t] = "poll"
    BY <2>1 DEF Reply, GoTo, IInv, TypeOK
  <2>4. ThreadOK(t)'
    BY <2>3 DEF ThreadOK, Busy, Working
  <2> QED BY <1>1, <1>2, <2>2, <2>3, <2>4, QuietStep DEF streamVars, Working
<1> QED BY <1>3, <1>4

LEMMA RequestInv ==
  ASSUME IInv, NEW t \in Servers, OpenRequest(t) \/ (SessionRequest /\ t = "rtsp")
  PROVE  IInv'
<1>1. TypeOK'
  BY RequestType DEF IInv
<1>2. PICK m \in Methods[t], fe \in 0..NumStreams, can \in SUBSET Streams, id \in Nat, new \in BOOLEAN :
        /\ ReceiveRequest(t, m, id, new, fe, can)
        /\ \/ new /\ id = nextSession /\ nextSession' = nextSession + 1
              /\ issued' = IF t = "rtsp" THEN issued \cup {nextSession} ELSE issued
           \/ ~new /\ t = "rtsp" /\ id \in issued /\ nextSession' = nextSession /\ issued' = issued
  <2>1. CASE OpenRequest(t)
    <3>1. PICK m \in Methods[t], fe \in 0..NumStreams, can \in Capabilities :
            ReceiveRequest(t, m, nextSession, TRUE, fe, can)
      BY <2>1 DEF OpenRequest
    <3>2. can \in SUBSET Streams /\ nextSession \in Nat /\ TRUE \in BOOLEAN
      BY CapabilitiesAssumption DEF IInv, TypeOK, Streams
    <3> QED BY <2>1, <3>1, <3>2 DEF OpenRequest
  <2>2. CASE SessionRequest /\ t = "rtsp"
    <3>1. PICK m \in Methods["rtsp"], fe \in 0..NumStreams, id \in issued :
            ReceiveRequest("rtsp", m, id, FALSE, fe, {})
      BY <2>2 DEF SessionRequest
    <3>2. id \in Nat /\ {} \in SUBSET Streams /\ FALSE \in BOOLEAN
      BY DEF IInv, TypeOK
    <3> QED BY <2>2, <3>1, <3>2 DEF SessionRequest
  <2> QED BY <2>1, <2>2
<1> DEFINE q == [NoRequest EXCEPT !.method = m, !.newSession = new,
                         !.session = id, !.can = can,
                         !.socket = [server |-> t, index |-> idx[t] - 1],
                         !.fe = fe, !.at = IF fe = 0 THEN 1 ELSE 0]
<1>3. /\ pc[t] = "poll" /\ idx[t] \in 1..MAX_SOCKETS /\ fd[t][idx[t] - 1] # 0
      /\ req' = [req EXCEPT ![t] = q] /\ pc' = [pc EXCEPT ![t] = "find"]
      /\ UNCHANGED <<streamVars, fd, idx>>
  BY <1>2 DEF ReceiveRequest, GoTo
<1>4. req'[t] = q /\ pc'[t] = "find"
  BY <1>3 DEF IInv, TypeOK
<1>5. /\ q.method = m /\ q.newSession = new /\ q.session = id
      /\ q.socket = [server |-> t, index |-> idx[t] - 1]
      /\ q.fe = fe /\ (q.at = 0 => fe # 0)
  BY DEF NoRequest
<1> HIDE DEF q
<1>6. \A u \in Servers \ {t} : pc'[u] = pc[u] /\ req'[u] = req[u]
  BY <1>3 DEF IInv, TypeOK
<1>7. /\ nextSession \in Nat \ {0} /\ issued \subseteq 1..(nextSession - 1)
      /\ \A s \in Streams : client[s][0].session \in Nat /\ client[s][0].session < nextSession
  BY SlotZero DEF IInv, TypeOK, SessionInv, StreamInv, StreamOK, SlotsOK, StreamClient
<1>8. id \in 1..(nextSession' - 1) /\ (id \in issued' <=> t = "rtsp")
  BY <1>2, <1>7
<1>9. ThreadOK(t)'
  BY <1>2, <1>3, <1>4, <1>5, <1>8 DEF ThreadOK, Busy, Working
<1>10. new => \A s \in Streams : client[s][0].session # id
  BY <1>2, <1>7
<1>11. nextSession' = nextSession + 1 => issued' \in {issued, issued \cup {nextSession}}
  BY <1>2
<1> QED BY <1>1, <1>2, <1>3, <1>4, <1>5, <1>6, <1>9, <1>10, <1>11, QuietStep DEF streamVars, Working

LEMMA PostEnableInv ==
  ASSUME IInv, NEW s \in Configured, NEW on \in BOOLEAN, PostEnable(s, on)
  PROVE  IInv'
<1>1. /\ pc["http"] = "poll" /\ pc' = pc /\ req' = req /\ fd' = fd
      /\ enabled' = [enabled EXCEPT ![s] = on] /\ idx' = [idx EXCEPT !["http"] = @ + 1]
      /\ UNCHANGED <<inUse, active, type, streaming, client, device, owner, slot,
                     nextSession, nextPeer, issued>>
  BY DEF PostEnable, NextSocket
<1>2. TypeOK'
  <2>1. enabled' \in [Streams -> BOOLEAN]
    BY <1>1, Zenon DEF IInv, TypeOK
  <2>2. idx' \in [Servers -> Nat]
    BY <1>1 DEF IInv, TypeOK, Servers
  <2> QED BY <1>1, <2>1, <2>2 DEF IInv, TypeOK
<1>3. \A u \in Servers \ {"http"} : idx'[u] = idx[u]
  BY <1>1 DEF IInv, TypeOK
<1>4. "http" \in Servers /\ pc["http"] \notin Working /\ pc'["http"] \notin Working /\ pc'["http"] # "find"
  BY <1>1 DEF Servers, Working
<1>5. ThreadOK("http")'
  BY <1>1 DEF ThreadOK, Busy, Working
<1> QED BY <1>1, <1>2, <1>3, <1>4, <1>5, QuietStep

LEMMA GetStatusInv ==
  ASSUME IInv, GetStatus
  PROVE  IInv'
<1> DEFINE seen == {client[s][0].session : s \in Streams} \ {0}
<1>1. /\ pc["http"] = "poll" /\ issued' = issued \cup seen
      /\ idx' = [idx EXCEPT !["http"] = @ + 1]
      /\ UNCHANGED <<streamVars, fd, pc, slot, req, nextSession, nextPeer>>
  BY DEF GetStatus, NextSocket
<1>2. seen \subseteq 1..(nextSession - 1)
  <2>1. ASSUME NEW s \in Streams
        PROVE  /\ client[s][0].session \in Nat /\ client[s][0].session < nextSession
               /\ nextSession \in Nat
    BY SlotZero DEF IInv, TypeOK, StreamInv, StreamOK, SlotsOK, StreamClient
  <2> QED BY <2>1
<1> HIDE DEF seen
<1>3. issued' \subseteq 1..(nextSession - 1) /\ issued \subseteq issued'
  BY <1>1, <1>2 DEF IInv, SessionInv
<1>4. TypeOK'
  <2>1. idx' \in [Servers -> Nat]
    BY <1>1 DEF IInv, TypeOK, Servers
  <2>2. issued' \subseteq Nat
    BY <1>3 DEF IInv, TypeOK
  <2> QED BY <1>1, <2>1, <2>2 DEF IInv, TypeOK, streamVars
<1>5. \A u \in Servers \ {"http"} : idx'[u] = idx[u]
  BY <1>1 DEF IInv, TypeOK
<1>6. "http" \in Servers /\ pc["http"] \notin Working /\ pc'["http"] \notin Working /\ pc'["http"] # "find"
  BY <1>1 DEF Servers, Working
<1>7. ThreadOK("http")'
  BY <1>1 DEF ThreadOK, Busy, Working
<1> QED BY <1>1, <1>3, <1>4, <1>5, <1>6, <1>7, QuietStep DEF streamVars

-----------------------------------------------------------------------------
(* Steps that work on one stream.                                             *)

\* A step of thread t on stream s, given what it must keep for the two of them.
LEMMA StreamStep ==
  ASSUME IInv, TypeOK', NEW t \in Servers, NEW s \in Streams,
         ThreadOK(t)', StreamOK(s)', SessionInv',
         \A r \in Streams \ {s} :
           /\ enabled'[r] = enabled[r] /\ inUse'[r] = inUse[r] /\ active'[r] = active[r]
           /\ type'[r] = type[r] /\ streaming'[r] = streaming[r]
           /\ client'[r] = client[r] /\ device'[r] = device[r],
         \A r \in Streams \ {s} : ~Handles(t, r) /\ ~Handles(t, r)',
         \A u \in Servers \ {t} :
           pc'[u] = pc[u] /\ req'[u] = req[u] /\ idx'[u] = idx[u] /\ fd'[u] = fd[u],
         nextSession' = nextSession, issued' = issued
  PROVE  IInv'
<1>1. ThreadInv'
  BY OtherThread DEF IInv, ThreadInv
<1>2. ASSUME NEW r \in Streams, r # s PROVE StreamOK(r)'
  <2>1. ASSUME NEW u \in Servers
        PROVE  /\ Handles(u, r)' <=> Handles(u, r)
               /\ Handles(u, r) => pc'[u] = pc[u] /\ req'[u] = req[u] /\ idx'[u] = idx[u]
    BY <1>2 DEF Handles
  <2> QED BY <1>2, <2>1, OtherStream DEF IInv, StreamInv
<1> QED BY <1>1, <1>2 DEF IInv, StreamInv

\* When thread t alone may work on stream s, the invariant of s is about t.
LEMMA OwnStream ==
  ASSUME NEW t \in Servers, NEW s \in Streams,
         \A u \in Servers \ {t} : ~Handles(u, s)',
         SlotsOK(s)', HandledOK(t, s)', StreamingOK(s)'
  PROVE  StreamOK(s)'
<1>1. ASSUME NEW u \in Servers, u # t PROVE HandledOK(u, s)'
  BY <1>1 DEF HandledOK
<1>2. ~(Handles("rtsp", s) /\ Handles("http", s))'
  BY DEF Servers
<1> QED BY <1>1, <1>2 DEF StreamOK

\* What holds when thread t works on a stream.
LEMMA AtWork ==
  ASSUME IInv, NEW t \in Servers, pc[t] \in Working
  PROVE  /\ req[t].clientID = 0 /\ req[t] \in Request /\ ThreadOK(t)
         /\ \E s \in Streams :
              /\ s = req[t].stream
              /\ Handles(t, s) /\ HandledOK(t, s) /\ StreamOK(s)
              /\ inUse[s] /\ client[s][0] \in StreamClient
              /\ \A u \in Servers \ {t} : ~Handles(u, s)
              /\ \A r \in Streams \ {s} : ~Handles(t, r)
<1> DEFINE s == req[t].stream
<1>1. ThreadOK(t) /\ req[t] \in Request
  BY DEF IInv, ThreadInv, TypeOK
<1>2. s \in Streams /\ req[t].clientID = 0
  BY <1>1 DEF ThreadOK
<1>3. Handles(t, s) /\ \A r \in Streams \ {s} : ~Handles(t, r)
  BY DEF Handles, Working
<1>4. StreamOK(s) /\ HandledOK(t, s)
  BY <1>2 DEF IInv, StreamInv, StreamOK
<1>5. inUse[s] /\ client[s][0] \in StreamClient
  BY <1>2, <1>3, <1>4, SlotZero DEF HandledOK, IInv, TypeOK
<1>6. \A u \in Servers \ {t} : ~Handles(u, s)
  BY <1>3, <1>4 DEF StreamOK, Servers
<1> QED BY <1>1, <1>2, <1>3, <1>4, <1>5, <1>6

\* The owner's slot of a stream is written.
LEMMA OwnerSlotUpdate ==
  ASSUME TypeOK, NEW s \in Streams, NEW c \in StreamClient,
         client' = [client EXCEPT ![s][0] = c]
  PROVE  /\ client' \in [Streams -> [Slots -> StreamClient]]
         /\ client'[s][0] = c
         /\ \A i \in Slots \ {0} : client'[s][i] = client[s][i]
         /\ \A r \in Streams \ {s} : client'[r] = client[r]
<1>1. client[s] \in [Slots -> StreamClient]
  BY DEF TypeOK
<1>2. [client[s] EXCEPT ![0] = c] \in [Slots -> StreamClient]
  BY <1>1
<1> QED BY <1>1, <1>2, SlotZero DEF TypeOK

\* The ID of the session that a request is for.
LEMMA RequestSession ==
  ASSUME IInv, NEW t \in Servers, pc[t] \in Busy
  PROVE  /\ req[t].session # 0 /\ req[t].session < nextSession
         /\ pc[t] = "setSession" =>
              \A s \in Streams : client[s][0].session = req[t].session => s = req[t].stream
<1>1. ThreadOK(t) /\ nextSession \in Nat
  BY DEF IInv, ThreadInv, TypeOK
<1>2. req[t].session \in 1..(nextSession - 1)
  BY <1>1 DEF ThreadOK
<1> QED BY <1>1, <1>2 DEF IInv, SessionInv

\* Steps that store no session ID.
LEMMA SessionsShrink ==
  ASSUME IInv, UNCHANGED <<issued, nextSession>>,
         \A s \in Streams : client'[s][0].session \in {client[s][0].session, 0},
         \A u \in Servers : pc'[u] = "setSession" =>
           /\ req'[u].session # 0
           /\ \A s \in Streams : client[s][0].session = req'[u].session => s = req'[u].stream,
         \A u \in Servers : pc'[u] = "find" => pc[u] = "find" /\ req'[u] = req[u]
  PROVE  SessionInv'
<1>1. ASSUME NEW u \in Servers, pc[u] = "find" PROVE req[u].session # 0
  BY <1>1, RequestSession DEF Busy
<1> QED BY <1>1 DEF IInv, SessionInv

LEMMA SessionKept ==
  ASSUME IInv, NEW t \in Servers, UNCHANGED <<issued, nextSession>>,
         \A s \in Streams : client'[s][0].session \in {client[s][0].session, 0},
         \A u \in Servers \ {t} : pc'[u] = pc[u] /\ req'[u] = req[u],
         pc'[t] \notin {"setSession", "find"}
  PROVE  SessionInv'
<1>1. ASSUME NEW u \in Servers, pc'[u] = "setSession"
      PROVE  /\ req'[u].session # 0
             /\ \A r \in Streams : client[r][0].session = req'[u].session => r = req'[u].stream
  BY <1>1, RequestSession DEF Busy, Working
<1>2. \A u \in Servers : pc'[u] = "find" => pc[u] = "find" /\ req'[u] = req[u]
  OBVIOUS
<1> QED BY <1>1, <1>2, SessionsShrink

LEMMA SetSessionIDInv ==
  ASSUME IInv, NEW t \in Servers, SetSessionID(t)
  PROVE  IInv'
<1>1. /\ pc[t] = "setSession" /\ pc[t] \in Working /\ pc[t] \in Busy
      /\ req[t].clientID = 0 /\ req[t] \in Request /\ ThreadOK(t)
  BY AtWork DEF SetSessionID, Working, Busy
<1>2. PICK s \in Streams :
        /\ s = req[t].stream
        /\ Handles(t, s) /\ HandledOK(t, s) /\ StreamOK(s)
        /\ inUse[s] /\ client[s][0] \in StreamClient
        /\ \A u \in Servers \ {t} : ~Handles(u, s)
        /\ \A r \in Streams \ {s} : ~Handles(t, r)
  BY <1>1, AtWork
<1> DEFINE c == [client[s][0] EXCEPT !.session = req[t].session]
<1>3. /\ client' = [client EXCEPT ![s][0] = c]
      /\ pc' = [pc EXCEPT ![t] = "process"]
      /\ UNCHANGED <<enabled, inUse, active, type, streaming, device, owner,
                     fd, idx, slot, req, nextSession, nextPeer, issued>>
  BY <1>1, <1>2 DEF SetSessionID, GoTo
<1>4. /\ c \in StreamClient
      /\ c.session = req[t].session /\ c.check = client[s][0].check
      /\ c.watchdog = client[s][0].watchdog /\ c.socket = client[s][0].socket
  BY <1>1, <1>2 DEF StreamClient, Request
<1> HIDE DEF c
<1>5. /\ client' \in [Streams -> [Slots -> StreamClient]]
      /\ client'[s][0] = c
      /\ \A i \in Slots \ {0} : client'[s][i] = client[s][i]
      /\ \A r \in Streams \ {s} : client'[r] = client[r]
  BY <1>2, <1>3, <1>4, OwnerSlotUpdate DEF IInv
<1>6. pc'[t] = "process" /\ \A u \in Servers \ {t} : pc'[u] = pc[u]
  BY <1>3 DEF IInv, TypeOK
<1>7. TypeOK'
  <2>1. pc' \in [Servers -> PC]
    BY <1>3 DEF IInv, TypeOK, PC
  <2> QED BY <1>3, <1>5, <2>1 DEF IInv, TypeOK
<1>8. ThreadOK(t)'
  BY <1>1, <1>2, <1>3, <1>6 DEF ThreadOK, Busy, Working
<1>9. \A u \in Servers : Handles(u, s)' <=> Handles(u, s)
  BY <1>1, <1>2, <1>3, <1>6 DEF Handles, Working
<1>10. StreamOK(s)'
  <2>1. SlotsOK(s)'
    <3>1. req[t].session < nextSession
      BY <1>1, <1>2 DEF ThreadOK, IInv, TypeOK
    <3> QED BY <1>2, <1>3, <1>4, <1>5, <1>9, <3>1 DEF StreamOK, SlotsOK, Handled
  <2>2. HandledOK(t, s)'
    BY <1>2, <1>3, <1>4, <1>5, <1>6 DEF HandledOK
  <2>3. StreamingOK(s)'
    <3>1. \A u \in Servers : Tuning(u, s) => Tuning(u, s)' /\ pc'[u] = pc[u]
      BY <1>1, <1>3, <1>6, <1>9 DEF Tuning, ParsesParameters
    <3> QED BY <1>2, <1>3, <3>1 DEF StreamOK, StreamingOK, Started
  <2> QED BY <1>2, <1>9, <2>1, <2>2, <2>3, OwnStream
<1>11. SessionInv'
  <2>1. \A r \in Streams : client[r][0].session = req[t].session => r = s
    BY <1>1, <1>2 DEF IInv, SessionInv
  <2>2. ASSUME NEW u \in Servers, u # t, pc[u] \in {"find", "setSession"},
               pc[u] = "find" => req[u].newSession
        PROVE  req[u].session # req[t].session
    BY <1>1, <1>2, <2>2 DEF IInv, ThreadInv, ThreadOK, Busy, Working, Servers
  <2>3. ASSUME NEW r \in Streams PROVE client'[r][0].session =
          IF r = s THEN req[t].session ELSE client[r][0].session
    BY <1>4, <1>5
  <2>4. ASSUME NEW r \in Streams, NEW r2 \in Streams,
               client'[r][0].session # 0, client'[r][0].session = client'[r2][0].session
        PROVE  r = r2
    BY <2>1, <2>3, <2>4 DEF IInv, SessionInv
  <2>5. ASSUME NEW u \in Servers, NEW r \in Streams, pc'[u] = "setSession",
               client'[r][0].session = req'[u].session
        PROVE  r = req'[u].stream
    BY <1>3, <1>6, <2>2, <2>3, <2>5 DEF IInv, SessionInv
  <2>6. ASSUME NEW u \in Servers, NEW r \in Streams, pc'[u] = "find", req'[u].newSession
        PROVE  client'[r][0].session # req'[u].session
    BY <1>3, <1>6, <2>2, <2>3, <2>6 DEF IInv, SessionInv
  <2> QED BY <1>3, <2>4, <2>5, <2>6 DEF IInv, SessionInv
<1>12. \A r \in Streams \ {s} : ~Handles(t, r)'
  BY <1>2, <1>3, <1>6 DEF Handles
<1> QED BY <1>2, <1>3, <1>5, <1>6, <1>7, <1>8, <1>10, <1>11, <1>12, StreamStep

\* A thread that answers is idle again, and ready for any invariant of threads.
LEMMA ReplyThread ==
  ASSUME TypeOK, NEW t \in Servers, Reply(t)
  PROVE  /\ pc'[t] = "poll" /\ ThreadOK(t)'
         /\ \A s \in Streams : ~Handles(t, s)'
         /\ \A u \in Servers \ {t} : pc'[u] = pc[u] /\ req'[u] = req[u] /\ idx'[u] = idx[u]
<1>1. pc'[t] = "poll"
  BY DEF Reply, GoTo, TypeOK
<1>2. \A u \in Servers \ {t} : pc'[u] = pc[u] /\ req'[u] = req[u] /\ idx'[u] = idx[u]
  BY DEF Reply, GoTo, NextSocket, TypeOK
<1> QED BY <1>1, <1>2 DEF ThreadOK, Busy, Working, Handles

LEMMA AnswerOnlyInv ==
  ASSUME IInv, NEW t \in Servers, AnswerOnly(t)
  PROVE  IInv'
<1>1. /\ pc[t] = "method" /\ pc[t] \in Working /\ req[t].method = "OTHER"
      /\ Reply(t) /\ UNCHANGED <<streamVars, fd, slot, nextSession, nextPeer, issued>>
  BY DEF AnswerOnly, Working
<1>2. PICK s \in Streams :
        /\ s = req[t].stream
        /\ Handles(t, s) /\ HandledOK(t, s) /\ StreamOK(s)
        /\ inUse[s] /\ client[s][0] \in StreamClient
        /\ \A u \in Servers \ {t} : ~Handles(u, s)
        /\ \A r \in Streams \ {s} : ~Handles(t, r)
  BY <1>1, AtWork
<1>3. /\ pc'[t] = "poll" /\ ThreadOK(t)' /\ \A r \in Streams : ~Handles(t, r)'
      /\ \A u \in Servers \ {t} : pc'[u] = pc[u] /\ req'[u] = req[u] /\ idx'[u] = idx[u]
  BY <1>1, ReplyThread DEF IInv
<1>4. TypeOK'
  BY <1>1, ReplyType DEF IInv, TypeOK, streamVars
<1>5. \A u \in Servers \ {t} : ~Handles(u, s)'
  BY <1>2, <1>3 DEF Handles
<1>6. StreamOK(s)'
  <2>1. client[s][0].session # 0 /\ client[s][0].watchdog # "off"
    BY <1>1, <1>2, RequestSession DEF HandledOK, Busy
  <2>2. SlotsOK(s)'
    BY <1>1, <1>2, <2>1 DEF StreamOK, SlotsOK, streamVars
  <2>3. \A u \in Servers : ~Tuning(u, s)
    BY <1>1, <1>2 DEF Tuning, ParsesParameters
  <2>4. StreamingOK(s)'
    BY <1>1, <1>2, <2>3 DEF StreamOK, StreamingOK, streamVars, Started
  <2> QED BY <1>3, <1>5, <2>2, <2>4, OwnStream DEF HandledOK
<1>7. SessionInv'
  BY <1>1, <1>3, SessionKept DEF streamVars
<1> QED BY <1>1, <1>2, <1>3, <1>4, <1>6, <1>7, StreamStep DEF streamVars

LEMMA UpdateSucceedsInv ==
  ASSUME IInv, NEW t \in Servers, UpdateSucceeds(t)
  PROVE  IInv'
<1>1. /\ pc[t] = "method" /\ pc[t] \in Working /\ Reply(t)
      /\ UNCHANGED <<enabled, inUse, type, client, owner, fd, slot, nextSession, nextPeer, issued>>
  BY DEF UpdateSucceeds, Working
<1>2. PICK s \in Streams :
        /\ s = req[t].stream
        /\ Handles(t, s) /\ HandledOK(t, s) /\ StreamOK(s)
        /\ inUse[s] /\ client[s][0] \in StreamClient
        /\ \A u \in Servers \ {t} : ~Handles(u, s)
        /\ \A r \in Streams \ {s} : ~Handles(t, r)
  BY <1>1, AtWork
<1>3. /\ pc'[t] = "poll" /\ ThreadOK(t)' /\ \A r \in Streams : ~Handles(t, r)'
      /\ \A u \in Servers \ {t} : pc'[u] = pc[u] /\ req'[u] = req[u] /\ idx'[u] = idx[u]
  BY <1>1, ReplyThread DEF IInv
<1>4. device' = [device EXCEPT ![s] = [changed |-> FALSE, open |-> TRUE]]
  BY <1>2 DEF UpdateSucceeds, DeviceUpdates
<1>5. PICK st \in ThreadState, ac \in BOOLEAN :
        /\ streaming' = [streaming EXCEPT ![s] = st] /\ active' = [active EXCEPT ![s] = ac]
        /\ \/ ~active[s] /\ ac /\ st = "running"
           \/ ~active[s] /\ ~ac /\ st = "idle"
           \/ active[s] /\ ac /\ st = (IF device[s].changed /\ streaming[s] = "paused"
                                      THEN "running" ELSE Made(streaming[s]))
  <2>1. CASE ~active[s] /\ \E started \in BOOLEAN : StartStreaming(s, started)
    BY <2>1, Zenon DEF StartStreaming, ThreadState
  <2>2. CASE active[s] /\ RestartStreaming(s)
    <3>1. /\ Made(streaming[s]) \in ThreadState /\ "running" \in ThreadState
          /\ active = [active EXCEPT ![s] = TRUE]
      BY <2>2 DEF IInv, TypeOK, ThreadState, Made
    <3> QED BY <2>2, <3>1 DEF RestartStreaming
  <2> QED BY <1>2, <2>1, <2>2 DEF UpdateSucceeds
<1>6. /\ device'[s] = [changed |-> FALSE, open |-> TRUE]
      /\ streaming'[s] = st /\ active'[s] = ac
      /\ \A r \in Streams \ {s} :
           device'[r] = device[r] /\ streaming'[r] = streaming[r] /\ active'[r] = active[r]
  BY <1>4, <1>5 DEF IInv, TypeOK
<1>7. TypeOK'
  <2>1. device' \in [Streams -> Device]
    BY <1>4 DEF IInv, TypeOK, Device
  <2>2. streaming' \in [Streams -> ThreadState] /\ active' \in [Streams -> BOOLEAN]
    BY <1>5 DEF IInv, TypeOK
  <2> QED BY <1>1, <2>1, <2>2, ReplyType DEF IInv, TypeOK
<1>8. \A u \in Servers : ~Handles(u, s)'
  BY <1>2, <1>3 DEF Handles
<1>9. StreamOK(s)'
  <2>1. client[s][0].session # 0 /\ client[s][0].watchdog # "off"
    BY <1>1, <1>2, RequestSession DEF HandledOK, Busy
  <2>2. SlotsOK(s)'
    BY <1>1, <1>2, <2>1 DEF StreamOK, SlotsOK
  <2>3. streaming[s] = "paused" => device[s].changed
    BY <1>1, <1>2 DEF StreamOK, StreamingOK, Tuning
  <2>4. st # "paused" /\ (st = "running" => ac)
    BY <1>2, <1>5, <2>3 DEF StreamOK, StreamingOK, Made
  <2>5. StreamingOK(s)'
    BY <1>6, <2>4 DEF StreamingOK, Started
  <2> QED BY <1>8, <2>2, <2>5, OwnStream DEF HandledOK
<1>10. SessionInv'
  BY <1>1, <1>3, SessionKept
<1> QED BY <1>1, <1>2, <1>3, <1>6, <1>7, <1>9, <1>10, StreamStep

LEMMA UpdateFailsInv ==
  ASSUME IInv, NEW t \in Servers, UpdateFails(t)
  PROVE  IInv'
<1>1. /\ pc[t] = "method" /\ pc[t] \in Working /\ pc[t] \in Busy /\ ParsesParameters(req[t])
      /\ UNCHANGED <<enabled, inUse, active, type, client, owner, fd, slot,
                     nextSession, nextPeer, issued>>
  BY DEF UpdateFails, Working, Busy
<1>2. PICK s \in Streams :
        /\ s = req[t].stream
        /\ Handles(t, s) /\ HandledOK(t, s) /\ StreamOK(s)
        /\ inUse[s] /\ client[s][0] \in StreamClient
        /\ \A u \in Servers \ {t} : ~Handles(u, s)
        /\ \A r \in Streams \ {s} : ~Handles(t, r)
  BY <1>1, AtWork
<1>3. t = "rtsp" \/ (t = "http" /\ streaming[s] = "none")
  BY <1>2 DEF HandledOK, Servers
<1>4. ThreadOK(t)
  BY DEF IInv, ThreadInv
<1>5. CASE req[t].method = "GET"
  <2>1. t = "http" /\ Reply(t)
    BY <1>1, <1>3, <1>4, <1>5 DEF UpdateFails, ThreadOK, Methods
  <2>2. /\ pc'[t] = "poll" /\ ThreadOK(t)' /\ \A r \in Streams : ~Handles(t, r)'
        /\ \A u \in Servers \ {t} : pc'[u] = pc[u] /\ req'[u] = req[u] /\ idx'[u] = idx[u]
    BY <2>1, ReplyThread DEF IInv
  <2>3. PICK st \in ThreadState, d \in Device :
          /\ streaming' = [streaming EXCEPT ![s] = st] /\ device' = [device EXCEPT ![s] = d]
          /\ st \in {"none", "idle"} /\ (st = "idle" => ~d.changed)
    <3>1. CASE ~HasStreaming(s) /\ UNCHANGED <<device, streaming>>
      BY <3>1, <2>1, <1>3 DEF IInv, TypeOK
    <3>2. CASE DeviceUpdates(s, FALSE) /\ streaming' = [streaming EXCEPT ![s] = Made(@)]
      <4>1. [changed |-> FALSE, open |-> FALSE] \in Device /\ "idle" \in ThreadState
        BY DEF Device, ThreadState
      <4>2. streaming' = [streaming EXCEPT ![s] = "idle"]
        BY <3>2, <1>3, <2>1 DEF IInv, TypeOK, Made
      <4> QED BY <3>2, <4>1, <4>2 DEF DeviceUpdates
    <3> QED BY <1>2, <3>1, <3>2 DEF UpdateFails
  <2>4. /\ streaming'[s] = st /\ device'[s] = d
        /\ \A r \in Streams \ {s} : streaming'[r] = streaming[r] /\ device'[r] = device[r]
    BY <2>3 DEF IInv, TypeOK
  <2>5. TypeOK'
    <3>1. streaming' \in [Streams -> ThreadState] /\ device' \in [Streams -> Device]
      BY <2>3 DEF IInv, TypeOK
    <3> QED BY <1>1, <2>1, <3>1, ReplyType DEF IInv, TypeOK
  <2>6. \A u \in Servers : ~Handles(u, s)'
    BY <1>2, <2>2 DEF Handles
  <2>7. StreamOK(s)'
    <3>1. client[s][0].session # 0 /\ client[s][0].watchdog # "off"
      BY <1>1, <1>2, RequestSession DEF HandledOK
    <3>2. SlotsOK(s)'
      BY <1>1, <1>2, <3>1 DEF StreamOK, SlotsOK
    <3>3. ~active[s]
      BY <1>2, <2>1 DEF HandledOK
    <3>4. StreamingOK(s)'
      BY <1>1, <2>3, <2>4, <3>3 DEF StreamingOK, Started
    <3> QED BY <2>6, <3>2, <3>4, OwnStream DEF HandledOK
  <2>8. SessionInv'
    BY <1>1, <2>2, SessionKept
  <2> QED BY <1>1, <1>2, <2>2, <2>4, <2>5, <2>7, <2>8, StreamStep
<1>6. CASE req[t].method # "GET"
  <2>1. t = "rtsp" /\ pc' = [pc EXCEPT ![t] = "failed"] /\ idx' = idx /\ req' = req
    BY <1>1, <1>3, <1>4, <1>6 DEF UpdateFails, ThreadOK, Methods, GoTo, ParsesParameters
  <2>2. /\ pc'[t] = "failed" /\ \A u \in Servers \ {t} : pc'[u] = pc[u]
        /\ pc' \in [Servers -> PC]
    BY <2>1 DEF IInv, TypeOK, PC
  <2>3. ThreadOK(t)'
    BY <1>1, <1>4, <2>1, <2>2 DEF ThreadOK, Busy, Working
  <2>4. \A u \in Servers, r \in Streams : Handles(u, r)' <=> Handles(u, r)
    BY <1>1, <2>1, <2>2 DEF Handles, Working
  <2>5. Tuning(t, s)'
    BY <1>2, <2>2, <2>4 DEF Tuning
  <2>6. HandledOK(t, s)'
    BY <1>1, <1>2, <2>1, <2>2, <2>4 DEF HandledOK
  <2>7. SlotsOK(s)'
    BY <1>1, <1>2, <2>4 DEF StreamOK, SlotsOK, Handled
  <2>8. PICK st \in ThreadState, d \in Device :
          /\ streaming' = [streaming EXCEPT ![s] = st] /\ device' = [device EXCEPT ![s] = d]
          /\ st = streaming[s] \/ (streaming[s] = "none" /\ st = "idle")
          /\ st # "running" /\ (d.changed => st = "none")
    <3>1. CASE ~HasStreaming(s) /\ UNCHANGED <<device, streaming>>
      BY <3>1 DEF IInv, TypeOK, HasStreaming
    <3>2. CASE DeviceUpdates(s, FALSE) /\ streaming' = [streaming EXCEPT ![s] = Made(@)]
      <4>1. [changed |-> FALSE, open |-> FALSE] \in Device /\ "idle" \in ThreadState
        BY DEF Device, ThreadState
      <4>2. device[s].changed \/ ~device[s].open
        BY <3>2 DEF DeviceUpdates
      <4>3. streaming[s] # "running" /\ streaming[s] \in ThreadState
        BY <1>2, <4>2 DEF StreamOK, StreamingOK, IInv, TypeOK
      <4> QED BY <3>2, <4>1, <4>3 DEF DeviceUpdates, Made
    <3> QED BY <1>2, <3>1, <3>2 DEF UpdateFails
  <2>9. /\ streaming'[s] = st /\ device'[s] = d
        /\ \A r \in Streams \ {s} : streaming'[r] = streaming[r] /\ device'[r] = device[r]
    BY <2>8 DEF IInv, TypeOK
  <2>10. StreamingOK(s)'
    BY <1>1, <1>2, <2>2, <2>5, <2>8, <2>9 DEF StreamOK, StreamingOK, Started
  <2>11. StreamOK(s)'
    BY <1>2, <2>4, <2>6, <2>7, <2>10, OwnStream
  <2>12. TypeOK'
    <3>1. streaming' \in [Streams -> ThreadState] /\ device' \in [Streams -> Device]
      BY <2>8 DEF IInv, TypeOK
    <3> QED BY <1>1, <2>1, <2>2, <3>1 DEF IInv, TypeOK
  <2>13. SessionInv'
    BY <1>1, <2>1, <2>2, SessionKept
  <2> QED BY <1>1, <1>2, <2>1, <2>2, <2>3, <2>4, <2>9, <2>11, <2>12, <2>13, StreamStep
<1> QED BY <1>5, <1>6

\* teardown of the owner's slot leaves nothing of the session.
LEMMA OwnerTornDown ==
  ASSUME TypeOK, NEW s \in Streams, Teardown(s, 0)
  PROVE  /\ ~inUse'[s] /\ ~active'[s] /\ type'[s] = "NONE" /\ streaming'[s] = "none"
         /\ device'[s] = ClosedDevice /\ \A i \in Slots : client'[s][i] = FreeClient
         /\ \A r \in Streams \ {s} :
              /\ inUse'[r] = inUse[r] /\ active'[r] = active[r] /\ type'[r] = type[r]
              /\ streaming'[r] = streaming[r] /\ client'[r] = client[r] /\ device'[r] = device[r]
         /\ enabled' = enabled /\ UNCHANGED <<fd, nextSession, nextPeer, issued>> /\ slot' \in Slots
              /\ pc' \in [Servers -> PC] /\ idx' \in [Servers -> Nat] /\ req' \in [Servers -> Request]
            => TypeOK'
<1>1. client' = [client EXCEPT ![s] = [i \in Slots |-> FreeClient]]
  BY DEF Teardown, TornDown
<1>2. [i \in Slots |-> FreeClient] \in [Slots -> StreamClient]
  BY FreeClientType
<1>3. client' \in [Streams -> [Slots -> StreamClient]]
  BY <1>1, <1>2 DEF TypeOK
<1>4. \A i \in Slots : client'[s][i] = FreeClient
  BY <1>1 DEF TypeOK
<1>5. /\ device' = [device EXCEPT ![s] = ClosedDevice]
      /\ streaming' = [streaming EXCEPT ![s] = "none"]
      /\ type' = [type EXCEPT ![s] = "NONE"]
      /\ active' = [active EXCEPT ![s] = FALSE]
      /\ inUse' = [inUse EXCEPT ![s] = FALSE]
      /\ owner' = [owner EXCEPT ![s] = 0]
  BY DEF Teardown, ResetStream
<1>6. /\ device' \in [Streams -> Device] /\ streaming' \in [Streams -> ThreadState]
      /\ type' \in [Streams -> StreamingType] /\ active' \in [Streams -> BOOLEAN]
      /\ inUse' \in [Streams -> BOOLEAN] /\ owner' \in [Streams -> Nat]
  BY <1>5 DEF TypeOK, Device, ClosedDevice, ThreadState, StreamingType
<1>7. /\ ~inUse'[s] /\ ~active'[s] /\ type'[s] = "NONE" /\ streaming'[s] = "none"
      /\ device'[s] = ClosedDevice
      /\ \A r \in Streams \ {s} :
              /\ inUse'[r] = inUse[r] /\ active'[r] = active[r] /\ type'[r] = type[r]
              /\ streaming'[r] = streaming[r] /\ client'[r] = client[r] /\ device'[r] = device[r]
  BY <1>1, <1>5 DEF TypeOK
<1> QED BY <1>3, <1>4, <1>6, <1>7 DEF TypeOK

\* teardown of a slot that is free takes the streaming object and the device only.
LEMMA OtherTornDown ==
  ASSUME IInv, NEW s \in Streams, NEW i \in Slots, i # 0, Teardown(s, i)
  PROVE  /\ UNCHANGED <<inUse, active, type, client, owner>>
         /\ streaming'[s] = "none" /\ device'[s] = ClosedDevice
         /\ \A r \in Streams \ {s} : streaming'[r] = streaming[r] /\ device'[r] = device[r]
         /\ streaming' \in [Streams -> ThreadState] /\ device' \in [Streams -> Device]
<1>1. /\ streaming' = [streaming EXCEPT ![s] = "none"]
      /\ device' = [device EXCEPT ![s] = ClosedDevice]
      /\ client' = [client EXCEPT ![s] =
           [j \in Slots |-> IF i \in {0, j} THEN FreeClient ELSE client[s][j]]]
      /\ UNCHANGED <<inUse, active, type, owner>>
  BY DEF Teardown, TornDown
<1>2. client \in [Streams -> [Slots -> StreamClient]] /\ client[s][i] = FreeClient
  BY DEF IInv, TypeOK, StreamInv, StreamOK, SlotsOK
<1>3. [j \in Slots |-> IF i \in {0, j} THEN FreeClient ELSE client[s][j]] = client[s]
  <2>1. client[s] \in [Slots -> StreamClient]
    BY <1>2
  <2> QED BY <1>2, <2>1
<1>4. client' = client
  BY <1>1, <1>2, <1>3
<1>5. "none" \in ThreadState /\ ClosedDevice \in Device
  BY DEF ThreadState, ClosedDevice, Device
<1> QED BY <1>1, <1>4, <1>5 DEF IInv, TypeOK

\* A stream that nobody works on after its teardown is as good as new.
LEMMA TornDownOK ==
  ASSUME TypeOK, NEW s \in Streams, NEW t \in Servers, \A u \in Servers : ~Handles(u, s)',
         ~inUse'[s], ~active'[s], type'[s] = "NONE", streaming'[s] = "none",
         device'[s] = ClosedDevice, \A i \in Slots : client'[s][i] = FreeClient,
         nextSession' = nextSession
  PROVE  StreamOK(s)'
<1>1. SlotsOK(s)'
  BY SlotZero DEF SlotsOK, FreeClient, TypeOK
<1>2. StreamingOK(s)'
  BY DEF StreamingOK, Started, ClosedDevice
<1> QED BY <1>1, <1>2, OwnStream DEF HandledOK

LEMMA TeardownRequestInv ==
  ASSUME IInv, NEW t \in Servers, TeardownRequest(t)
  PROVE  IInv'
<1>1. /\ pc[t] \in Working /\ Reply(t) /\ Teardown(req[t].stream, req[t].clientID)
      /\ UNCHANGED <<enabled, fd, slot, nextSession, nextPeer, issued>>
  BY DEF TeardownRequest, Working
<1>2. PICK s \in Streams :
        /\ s = req[t].stream
        /\ Handles(t, s) /\ HandledOK(t, s) /\ StreamOK(s)
        /\ inUse[s] /\ client[s][0] \in StreamClient
        /\ \A u \in Servers \ {t} : ~Handles(u, s)
        /\ \A r \in Streams \ {s} : ~Handles(t, r)
  BY <1>1, AtWork
<1>3. Teardown(s, 0)
  BY <1>1, <1>2, AtWork
<1>4. /\ pc'[t] = "poll" /\ ThreadOK(t)' /\ \A r \in Streams : ~Handles(t, r)'
      /\ \A u \in Servers \ {t} : pc'[u] = pc[u] /\ req'[u] = req[u] /\ idx'[u] = idx[u]
  BY <1>1, ReplyThread DEF IInv
<1>5. TypeOK'
  <2>1. slot' \in Slots
    BY <1>1 DEF IInv, TypeOK
  <2> QED BY <1>1, <1>3, <2>1, OwnerTornDown, ReplyType DEF IInv
<1>6. \A u \in Servers : ~Handles(u, s)'
  BY <1>2, <1>4 DEF Handles
<1>7. StreamOK(s)'
  BY <1>1, <1>3, <1>6, OwnerTornDown, TornDownOK DEF IInv
<1>8. \A r \in Streams : client'[r][0].session \in {client[r][0].session, 0}
  BY <1>3, OwnerTornDown, SlotZero DEF FreeClient, IInv
<1>9. SessionInv'
  BY <1>1, <1>4, <1>8, SessionKept
<1> QED BY <1>1, <1>2, <1>3, <1>4, <1>5, <1>7, <1>9, OwnerTornDown, StreamStep DEF IInv

\* The timeout check tears down nothing of a stream that the HTTP thread works on, and
\* of an enabled stream the owner's slot only.
LEMMA TimedOutOwner ==
  ASSUME IInv, NEW s \in Streams, NEW i \in Slots, TimedOut(s, i)
  PROVE  ~Handles("http", s) /\ (i # 0 => ~enabled[s])
<1>1. StreamOK(s) /\ SlotsOK(s)
  BY DEF IInv, StreamInv, StreamOK
<1>2. i # 0 => ~SessionTimeout(s, i)
  BY <1>1 DEF SlotsOK, SessionTimeout, FreeClient
<1>3. i # 0 => ~enabled[s]
  BY <1>2 DEF TimedOut
<1>4. ASSUME Handles("http", s) PROVE FALSE
  <2>1. HandledOK("http", s) /\ ThreadOK("http") /\ "http" \in Servers /\ pc["http"] \in Busy
    BY <1>1, <1>4 DEF StreamOK, Servers, IInv, ThreadInv, Handles, Busy, Working
  <2>2. SocketFD(client[s][0].socket) # 0
    BY <1>4, <2>1 DEF HandledOK, ThreadOK, SocketFD
  <2>3. ~SessionTimeout(s, 0) /\ enabled[s]
    BY <1>4, <2>1, <2>2 DEF HandledOK, SessionTimeout
  <2> QED BY <1>3, <2>3 DEF TimedOut
<1> QED BY <1>3, <1>4

\* Where the timeout check is, and where it goes.
LEMMA CheckIs ==
  ASSUME IInv, CheckSlot
  PROVE  /\ "rtsp" \in Servers /\ pc["rtsp"] = "check" /\ idx["rtsp"] \in Streams /\ slot \in Slots
         /\ UNCHANGED <<fd, pc, req, nextSession, nextPeer, issued>>
         /\ idx' \in [Servers -> Nat] /\ idx'["rtsp"] # 0 /\ slot' \in Slots
         /\ \A u \in Servers \ {"rtsp"} : idx'[u] = idx[u]
<1>1. /\ "rtsp" \in Servers /\ pc["rtsp"] = "check" /\ slot \in Slots
      /\ UNCHANGED <<fd, pc, req, nextSession, nextPeer, issued>>
  BY DEF CheckSlot, Servers, IInv, TypeOK
<1>2. idx["rtsp"] \in Streams
  <2>1. idx["rtsp"] # 0 /\ idx["rtsp"] \in Nat
    BY <1>1 DEF IInv, ThreadInv, ThreadOK, TypeOK
  <2> QED BY <2>1, NumStreamsAssumption DEF CheckSlot, Streams
<1>3. idx' \in [Servers -> Nat] /\ idx'["rtsp"] # 0 /\ \A u \in Servers \ {"rtsp"} : idx'[u] = idx[u]
  <2>1. idx' = idx \/ idx' = [idx EXCEPT !["rtsp"] = @ + 1]
    BY DEF CheckSlot, NextSocket
  <2>2. idx \in [Servers -> Nat] /\ idx["rtsp"] # 0
    BY <1>1 DEF IInv, TypeOK, ThreadInv, ThreadOK
  <2> QED BY <1>1, <2>1, <2>2
<1>4. slot' \in Slots
  <2>1. \/ slot = MAX_CLIENTS - 1 /\ slot' = 0
        \/ slot # MAX_CLIENTS - 1 /\ slot' = slot + 1
    BY DEF CheckSlot
  <2> QED BY <1>1, <2>1, MaxClientsAssumption DEF Slots
<1> QED BY <1>1, <1>2, <1>3, <1>4

LEMMA CheckSlotInv ==
  ASSUME IInv, CheckSlot
  PROVE  IInv'
<1> DEFINE t == "rtsp"
<1>1. /\ t \in Servers /\ pc[t] = "check" /\ idx[t] \in Streams /\ slot \in Slots
      /\ UNCHANGED <<fd, pc, req, nextSession, nextPeer, issued>>
      /\ idx' \in [Servers -> Nat] /\ idx'[t] # 0 /\ slot' \in Slots
      /\ \A u \in Servers \ {t} : idx'[u] = idx[u]
  BY CheckIs
<1>2. ThreadOK(t)'
  BY <1>1 DEF ThreadOK, Busy, Working
<1>3. \A r \in Streams : ~Handles(t, r) /\ ~Handles(t, r)'
  BY <1>1 DEF Handles
<1>4. PICK s \in Streams : s = idx["rtsp"]
  BY <1>1
<1>5. CASE TimedOut(s, slot)
  <2>1. Teardown(s, slot) /\ UNCHANGED enabled
    BY <1>5, <1>4 DEF CheckSlot
  <2>2. \A u \in Servers : ~Handles(u, s) /\ ~Handles(u, s)'
    BY <1>1, <1>3, <1>5, TimedOutOwner DEF Handles, Servers
  <2>3. CASE slot = 0
    <3>1. /\ ~inUse'[s] /\ ~active'[s] /\ type'[s] = "NONE" /\ streaming'[s] = "none"
          /\ device'[s] = ClosedDevice /\ \A i \in Slots : client'[s][i] = FreeClient
          /\ \A r \in Streams \ {s} :
                /\ inUse'[r] = inUse[r] /\ active'[r] = active[r] /\ type'[r] = type[r]
                /\ streaming'[r] = streaming[r] /\ client'[r] = client[r] /\ device'[r] = device[r]
          /\ TypeOK'
      BY <1>1, <2>1, <2>3, OwnerTornDown DEF IInv, TypeOK
    <3>2. StreamOK(s)'
      BY <1>1, <2>2, <3>1, TornDownOK DEF IInv
    <3>3. \A r \in Streams : client'[r][0].session \in {client[r][0].session, 0}
      BY <3>1, SlotZero DEF FreeClient
    <3>4. SessionInv'
      BY <1>1, <3>3, SessionKept
    <3> QED BY <1>1, <1>2, <1>3, <2>1, <3>1, <3>2, <3>4, StreamStep
  <2>4. CASE slot # 0
    <3>1. /\ UNCHANGED <<inUse, active, type, client, owner>>
          /\ streaming'[s] = "none" /\ device'[s] = ClosedDevice
          /\ \A r \in Streams \ {s} : streaming'[r] = streaming[r] /\ device'[r] = device[r]
          /\ streaming' \in [Streams -> ThreadState] /\ device' \in [Streams -> Device]
      BY <1>1, <2>1, <2>4, OtherTornDown
    <3>2. TypeOK'
      BY <1>1, <2>1, <3>1 DEF IInv, TypeOK
    <3>3. StreamOK(s)'
      <4>1. SlotsOK(s)
        BY <1>1 DEF IInv, StreamInv, StreamOK
      <4>2. SlotsOK(s)'
        BY <1>1, <2>2, <3>1, <4>1 DEF SlotsOK, Handled
      <4>3. StreamingOK(s)'
        BY <3>1 DEF StreamingOK, Started, ClosedDevice
      <4> QED BY <1>1, <2>2, <4>2, <4>3, OwnStream DEF HandledOK
    <3>4. SessionInv'
      BY <1>1, <3>1, SessionKept
    <3> QED BY <1>1, <1>2, <1>3, <2>1, <3>1, <3>2, <3>3, <3>4, StreamStep
  <2> QED BY <2>3, <2>4
<1>6. CASE ~TimedOut(s, slot)
  <2>1. UNCHANGED streamVars
    BY <1>6, <1>4 DEF CheckSlot
  <2>2. TypeOK'
    BY <1>1, <2>1 DEF IInv, TypeOK, streamVars
  <2> QED BY <1>1, <1>2, <2>1, <2>2, QuietStep DEF streamVars, Working
<1> QED BY <1>5, <1>6

\* The watchdog of the owner of a stream changes, by a step of no server thread.
LEMMA WatchdogInv ==
  ASSUME IInv, NEW s \in Streams, NEW w \in {"expired", "self"},
         client' = [client EXCEPT ![s][0].watchdog = w],
         inUse[s], ~Handles("http", s),
         UNCHANGED <<enabled, inUse, active, type, streaming, device, owner,
                     serverVars, nextSession, nextPeer, issued>>
  PROVE  IInv'
<1>1. client[s][0] \in StreamClient /\ StreamOK(s)
  BY SlotZero DEF IInv, TypeOK, StreamInv
<1> DEFINE c == [client[s][0] EXCEPT !.watchdog = w]
<1>2. /\ c \in StreamClient
      /\ c.session = client[s][0].session /\ c.check = client[s][0].check
      /\ c.watchdog = w /\ c.socket = client[s][0].socket
  BY <1>1 DEF StreamClient, Watchdog
<1>3. client' = [client EXCEPT ![s][0] = c]
  OBVIOUS
<1> HIDE DEF c
<1>4. /\ client' \in [Streams -> [Slots -> StreamClient]]
      /\ client'[s][0] = c
      /\ \A i \in Slots \ {0} : client'[s][i] = client[s][i]
      /\ \A r \in Streams \ {s} : client'[r] = client[r]
  BY <1>2, <1>3, OwnerSlotUpdate DEF IInv
<1>5. TypeOK' /\ pc' = pc /\ req' = req /\ idx' = idx /\ fd' = fd
  BY <1>4 DEF IInv, TypeOK, serverVars
<1>6. \A u \in Servers, r \in Streams : Handles(u, r)' <=> Handles(u, r)
  BY <1>5 DEF Handles
<1>7. StreamOK(s)'
  <2>1. SlotsOK(s)'
    BY <1>1, <1>2, <1>4, <1>6 DEF StreamOK, SlotsOK, Handled
  <2>2. ASSUME NEW u \in Servers PROVE HandledOK(u, s)'
    BY <1>1, <1>2, <1>4, <1>5, <1>6 DEF StreamOK, HandledOK
  <2>3. StreamingOK(s)'
    <3>1. \A u \in Servers : Tuning(u, s)' <=> Tuning(u, s)
      BY <1>5, <1>6 DEF Tuning, ParsesParameters
    <3> QED BY <1>1, <1>5, <3>1 DEF StreamOK, StreamingOK, Started
  <2> QED BY <1>1, <1>6, <2>1, <2>2, <2>3 DEF StreamOK, Servers
<1>8. \A r \in Streams : client'[r][0].session = client[r][0].session
  BY <1>2, <1>4
<1>9. SessionInv'
  BY <1>5, <1>8 DEF IInv, SessionInv
<1>10. ThreadInv'
  BY <1>5 DEF IInv, ThreadInv, ThreadOK
<1>11. ASSUME NEW r \in Streams, r # s PROVE StreamOK(r)'
  <2>1. \A u \in Servers : Handles(u, r)' <=> Handles(u, r)
    BY <1>6
  <2>2. \A u \in Servers : pc'[u] = pc[u] /\ req'[u] = req[u] /\ idx'[u] = idx[u]
    BY <1>5
  <2> QED BY <1>4, <1>11, <2>1, <2>2, OtherStream DEF IInv, StreamInv
<1> QED BY <1>5, <1>7, <1>9, <1>10, <1>11 DEF IInv, StreamInv

LEMMA WatchdogExpiresInv ==
  ASSUME IInv, NEW s \in Streams, NEW i \in Slots, WatchdogExpires(s, i)
  PROVE  IInv'
<1>1. StreamOK(s)
  BY DEF IInv, StreamInv
<1>2. i = 0 /\ inUse[s]
  BY <1>1 DEF WatchdogExpires, StreamOK, SlotsOK, FreeClient
<1>3. ~Handles("http", s)
  BY DEF WatchdogExpires, Handled, Servers
<1> QED BY <1>2, <1>3, WatchdogInv DEF WatchdogExpires

LEMMA StreamWriteFailsInv ==
  ASSUME IInv, NEW s \in Streams, StreamWriteFails(s)
  PROVE  IInv'
<1>1. StreamOK(s)
  BY DEF IInv, StreamInv
<1>2. streaming[s] = "running" /\ inUse[s]
  BY <1>1 DEF StreamWriteFails, StreamOK, SlotsOK
<1>3. ~Handles("http", s)
  BY <1>1, <1>2 DEF StreamOK, HandledOK, Servers
<1> QED BY <1>2, <1>3, WatchdogInv DEF StreamWriteFails

LEMMA ProcessRequestInv ==
  ASSUME IInv, NEW t \in Servers, ProcessRequest(t)
  PROVE  IInv'
<1>1. /\ pc[t] = "process" /\ pc[t] \in Working /\ pc[t] \in Busy
      /\ req[t].clientID = 0 /\ ThreadOK(t)
      /\ pc' = [pc EXCEPT ![t] = "method"]
      /\ UNCHANGED <<enabled, inUse, active, owner, fd, idx, slot, req,
                     nextSession, nextPeer, issued>>
  BY AtWork DEF ProcessRequest, Working, Busy, GoTo
<1>2. PICK s \in Streams :
        /\ s = req[t].stream
        /\ Handles(t, s) /\ HandledOK(t, s) /\ StreamOK(s)
        /\ inUse[s] /\ client[s][0] \in StreamClient
        /\ \A u \in Servers \ {t} : ~Handles(u, s)
        /\ \A r \in Streams \ {s} : ~Handles(t, r)
  BY <1>1, AtWork
<1>3. PICK new \in BOOLEAN :
        /\ new => ParsesParameters(req[t])
        /\ device' = [device EXCEPT ![s] = [device[s] EXCEPT !.changed = device[s].changed \/ new]]
        /\ streaming' = [streaming EXCEPT ![s] = Paused(streaming[s], device[s].changed \/ new)]
  BY <1>2 DEF ProcessRequest
<1>4. PICK tp \in StreamingType, n \in StreamingType :
        /\ type' = [type EXCEPT ![s] = tp]
        /\ client' = [client EXCEPT ![s][0] = RestartWatchDog(WithCheck(client[s][0], n))]
  <2>1. PICK transport \in Transports(req[t].method) :
          LET new2 == IF type[req[t].stream] = "NONE" THEN SetupType(req[t].method, transport) ELSE "NONE"
          IN  /\ type' = [type EXCEPT ![req[t].stream] = IF new2 = "NONE" THEN @ ELSE new2]
              /\ client' = [client EXCEPT ![req[t].stream][req[t].clientID] =
                   RestartWatchDog(WithCheck(@, new2))]
    BY Zenon DEF ProcessRequest
  <2> DEFINE n == IF type[s] = "NONE" THEN SetupType(req[t].method, transport) ELSE "NONE"
  <2>2. n \in StreamingType /\ type[s] \in StreamingType
    BY DEF SetupType, StreamingType, IInv, TypeOK
  <2>3. req[t].stream = s /\ req[t].clientID = 0
    BY <1>1, <1>2
  <2>4. type' = [type EXCEPT ![s] = IF n = "NONE" THEN type[s] ELSE n]
    BY <2>1, <2>3
  <2>5. client' = [client EXCEPT ![s][0] = RestartWatchDog(WithCheck(client[s][0], n))]
    BY <2>1, <2>3
  <2> QED BY <2>2, <2>4, <2>5
<1> DEFINE ch == device[s].changed \/ new
           d == [device[s] EXCEPT !.changed = ch]
           st == Paused(streaming[s], ch)
           c == RestartWatchDog(WithCheck(client[s][0], n))
<1>5. /\ c \in StreamClient
      /\ c.session = client[s][0].session /\ c.watchdog = "armed" /\ c.socket = client[s][0].socket
  <2>1. CheckFor(n) \in SessionTimeoutCheck
    BY DEF CheckFor, SessionTimeoutCheck
  <2> QED BY <1>2, <2>1 DEF RestartWatchDog, WithCheck, StreamClient, Watchdog
<1>6. device[s] \in Device /\ d \in Device /\ d.changed = ch /\ d.open = device[s].open
  BY DEF IInv, TypeOK, Device
<1>7. st \in ThreadState
  BY DEF Paused, IInv, TypeOK, ThreadState
<1>8. /\ client' \in [Streams -> [Slots -> StreamClient]]
      /\ client'[s][0] = c
      /\ \A i \in Slots \ {0} : client'[s][i] = client[s][i]
      /\ \A r \in Streams \ {s} : client'[r] = client[r]
  BY <1>4, <1>5, OwnerSlotUpdate DEF IInv
<1>9. /\ device'[s].changed = ch /\ device'[s].open = device[s].open /\ streaming'[s] = st
      /\ \A r \in Streams \ {s} :
           device'[r] = device[r] /\ streaming'[r] = streaming[r] /\ type'[r] = type[r]
  BY <1>3, <1>4, <1>6 DEF IInv, TypeOK
<1> HIDE DEF c, d, st
<1>10. /\ pc'[t] = "method" /\ \A u \in Servers \ {t} : pc'[u] = pc[u]
       /\ pc' \in [Servers -> PC]
  BY <1>1 DEF IInv, TypeOK, PC
<1>11. TypeOK'
  <2>1. device' \in [Streams -> Device] /\ streaming' \in [Streams -> ThreadState]
        /\ type' \in [Streams -> StreamingType]
    BY <1>3, <1>4, <1>6, <1>7 DEF IInv, TypeOK, d, st
  <2> QED BY <1>1, <1>8, <1>10, <2>1 DEF IInv, TypeOK
<1>12. ThreadOK(t)'
  BY <1>1, <1>10 DEF ThreadOK, Busy, Working
<1>13. \A u \in Servers, r \in Streams : Handles(u, r)' <=> Handles(u, r)
  BY <1>1, <1>10 DEF Handles, Working
<1>14. ~(streaming[s] = "paused") /\ (device[s].changed => streaming[s] = "none")
  <2>1. \A u \in Servers : ~Tuning(u, s)
    BY <1>1, <1>2 DEF Tuning
  <2> QED BY <1>2, <2>1 DEF StreamOK, StreamingOK
<1>15. StreamOK(s)'
  <2>1. SlotsOK(s)'
    BY <1>1, <1>2, <1>5, <1>8, <1>13 DEF StreamOK, SlotsOK, HandledOK, Handled
  <2>2. HandledOK(t, s)'
    <3>1. st = "none" <=> streaming[s] = "none"
      BY DEF Paused, st
    <3> QED BY <1>1, <1>2, <1>5, <1>8, <1>9, <1>10, <1>13, <3>1 DEF HandledOK
  <2>3. ParsesParameters(req[t]) => Tuning(t, s)'
    BY <1>1, <1>2, <1>10, <1>13 DEF Tuning, ParsesParameters
  <2>4. /\ st = "paused" => new /\ ch
        /\ st \in {"running", "paused"} => streaming[s] \in {"running", "paused"}
        /\ st = "running" => streaming[s] = "running" /\ ~ch
        /\ ch /\ st # "none" => new
    BY <1>14 DEF Paused, st
  <2>5. StreamingOK(s)'
    BY <1>1, <1>2, <1>3, <1>9, <1>10, <2>3, <2>4 DEF StreamOK, StreamingOK, Started
  <2> QED BY <1>2, <1>13, <2>1, <2>2, <2>5, OwnStream
<1>16. SessionInv'
  <2>1. \A r \in Streams : client'[r][0].session = client[r][0].session
    BY <1>5, <1>8
  <2> QED BY <1>1, <1>10, <2>1, SessionKept
<1> QED BY <1>1, <1>2, <1>8, <1>9, <1>10, <1>11, <1>12, <1>13, <1>15, <1>16, StreamStep

\* The slot that findClientIDFor chooses is the owner's, of a stream that is free or
\* that the session has already, and that no other thread works on.
LEMMA FoundSlot ==
  ASSUME IInv, NEW t \in Servers, pc[t] = "find", req[t].at <= NumStreams,
         FoundIn(Candidate(req[t]), req[t])
  PROVE  LET s == Candidate(req[t]) IN
         /\ s \in Streams /\ FirstOf(Matching(s, req[t])) = 0
         /\ \A u \in Servers : ~Handles(u, s)
         /\ req[t].newSession =>
              /\ ~inUse[s] /\ enabled[s] /\ client[s][0] = FreeClient
              /\ \A r \in Streams : client[r][0].session # req[t].session
         /\ ~req[t].newSession =>
              /\ t = "rtsp" /\ inUse[s] /\ client[s][0].session = req[t].session
              /\ \A r \in Streams : client[r][0].session = req[t].session => r = s
<1> DEFINE q == req[t]
           s == Candidate(q)
<1>1. /\ ThreadOK(t) /\ q \in Request /\ pc[t] \in Busy
      /\ q.session # 0 /\ (q.session \in issued <=> t = "rtsp")
  BY RequestSession DEF IInv, ThreadInv, TypeOK, ThreadOK, Busy
<1>2. s \in Streams
  BY <1>1, NumStreamsAssumption DEF ThreadOK, Candidate, Request, Streams
<1>3. StreamOK(s) /\ SlotsOK(s) /\ client[s][0] \in StreamClient
  BY <1>2, SlotZero DEF IInv, StreamInv, StreamOK, TypeOK
<1>4. Matching(s, q) \in SUBSET Slots /\ Matching(s, q) # {} /\ ~Refuses(s, q)
  BY DEF FoundIn, Matching
<1>5. \A i \in Slots \ {0} : client[s][i].session = 0
  BY <1>3 DEF SlotsOK, FreeClient
<1>6. CASE q.newSession
  <2>1. ~inUse[s] /\ enabled[s] /\ client[s][0] = FreeClient
    BY <1>3, <1>4, <1>6 DEF Refuses, SlotsOK
  <2>2. 0 \in Matching(s, q)
    BY <1>6, <2>1, SlotZero DEF Matching, FreeClient
  <2>3. \A u \in Servers : ~Handles(u, s)
    BY <1>3, <2>1 DEF StreamOK, HandledOK
  <2>4. \A r \in Streams : client[r][0].session # q.session
    BY <1>6 DEF IInv, SessionInv
  <2> QED BY <1>2, <1>4, <1>6, <2>1, <2>2, <2>3, <2>4, FirstSlot
<1>7. CASE ~q.newSession
  <2>1. t = "rtsp" /\ q.session \in issued
    BY <1>1, <1>7 DEF ThreadOK
  <2>2. 0 \in Matching(s, q) /\ client[s][0].session = q.session
    BY <1>1, <1>4, <1>5, <1>7 DEF Matching
  <2>3. inUse[s]
    BY <1>1, <1>3, <2>2 DEF SlotsOK, FreeClient
  <2>4. \A r \in Streams : client[r][0].session = q.session => r = s
    BY <1>1, <1>2, <2>2 DEF IInv, SessionInv
  <2>5. ASSUME NEW u \in Servers, Handles(u, s) PROVE FALSE
    <3>1. u = "http" /\ pc[u] \in Busy
      BY <2>1, <2>5 DEF Handles, Servers, Busy, Working
    <3>2. req[u].session \notin issued
      BY <3>1 DEF IInv, ThreadInv, ThreadOK
    <3>3. client[s][0].session \in {req[u].session, 0}
      BY <1>3, <2>5 DEF StreamOK, HandledOK
    <3> QED BY <1>1, <2>1, <2>2, <3>2, <3>3
  <2> QED BY <1>2, <1>4, <1>7, <2>1, <2>2, <2>3, <2>4, <2>5, FirstSlot
<1> QED BY <1>6, <1>7

LEMMA FindClientIDInv ==
  ASSUME IInv, NEW t \in Servers, FindClientID(t)
  PROVE  IInv'
<1>1. /\ pc[t] = "find" /\ pc[t] \in Busy /\ req[t].at <= NumStreams
      /\ FoundIn(Candidate(req[t]), req[t])
      /\ ThreadOK(t) /\ req[t] \in Request
  BY DEF FindClientID, Busy, IInv, ThreadInv, TypeOK
<1>2. PICK s \in Streams :
        /\ s = Candidate(req[t]) /\ FirstOf(Matching(s, req[t])) = 0
        /\ \A u \in Servers : ~Handles(u, s)
        /\ req[t].newSession =>
             /\ ~inUse[s] /\ enabled[s] /\ client[s][0] = FreeClient
             /\ \A r \in Streams : client[r][0].session # req[t].session
        /\ ~req[t].newSession =>
             /\ t = "rtsp" /\ inUse[s] /\ client[s][0].session = req[t].session
             /\ \A r \in Streams : client[r][0].session = req[t].session => r = s
  BY <1>1, FoundSlot
<1> DEFINE c == [client[s][0] EXCEPT !.socket = req[t].socket]
           q == [NoRequest EXCEPT !.method = req[t].method, !.session = req[t].session,
                                  !.stream = s, !.clientID = 0]
<1>3. /\ client' = [client EXCEPT ![s][0] = c]
      /\ owner' = [owner EXCEPT ![s] = fd[t][req[t].socket.index]]
      /\ inUse' = [inUse EXCEPT ![s] = TRUE]
      /\ req' = [req EXCEPT ![t] = q]
      /\ pc' = [pc EXCEPT ![t] = "setSession"]
      /\ UNCHANGED <<enabled, active, type, streaming, device, fd, idx, slot,
                     nextSession, nextPeer, issued>>
  BY <1>2 DEF FindClientID, GoTo
<1>4. client[s][0] \in StreamClient /\ StreamOK(s) /\ SlotsOK(s) /\ StreamingOK(s)
  BY SlotZero DEF IInv, TypeOK, StreamInv, StreamOK
<1>5. /\ c \in StreamClient
      /\ c.session = client[s][0].session /\ c.check = client[s][0].check
      /\ c.watchdog = client[s][0].watchdog /\ c.socket = req[t].socket
  BY <1>1, <1>4 DEF StreamClient, Request
<1>6. /\ q \in Request /\ q.method = req[t].method /\ q.session = req[t].session
      /\ q.stream = s /\ q.clientID = 0
  <2>1. s \in 0..NumStreams /\ 0 \in Slots
    BY SlotZero, NumStreamsAssumption DEF Streams
  <2>2. /\ req[t].method \in UNION {Methods[u] : u \in Servers}
        /\ req[t].session \in Nat
    BY <1>1 DEF Request
  <2>3. NoRequest \in Request
    BY NoRequestType
  <2>4. /\ q.method = req[t].method /\ q.session = req[t].session
        /\ q.stream = s /\ q.clientID = 0
    BY DEF NoRequest
  <2> QED BY <2>1, <2>2, <2>3, <2>4 DEF Request
<1> HIDE DEF c, q
<1>7. /\ client' \in [Streams -> [Slots -> StreamClient]]
      /\ client'[s][0] = c
      /\ \A i \in Slots \ {0} : client'[s][i] = client[s][i]
      /\ \A r \in Streams \ {s} : client'[r] = client[r]
  BY <1>3, <1>5, OwnerSlotUpdate DEF IInv
<1>8. /\ pc'[t] = "setSession" /\ req'[t] = q
      /\ \A u \in Servers \ {t} : pc'[u] = pc[u] /\ req'[u] = req[u]
      /\ pc' \in [Servers -> PC] /\ req' \in [Servers -> Request]
  BY <1>3, <1>6 DEF IInv, TypeOK, PC
<1>9. inUse'[s] /\ \A r \in Streams \ {s} : inUse'[r] = inUse[r]
  BY <1>3 DEF IInv, TypeOK
<1>10. req[t].socket = [server |-> t, index |-> idx[t] - 1] /\ req[t].socket.server # "none"
       /\ idx[t] - 1 \in Sockets
  BY <1>1, MaxSocketsAssumption DEF ThreadOK, Servers, Sockets
<1>11. TypeOK'
  <2>1. req[t].socket.index = idx[t] - 1
    BY <1>10
  <2>2. fd[t][idx[t] - 1] \in Nat
    BY <1>10 DEF IInv, TypeOK
  <2>3. owner' \in [Streams -> Nat]
    BY <1>3, <2>1, <2>2 DEF IInv, TypeOK
  <2>4. inUse' \in [Streams -> BOOLEAN]
    BY <1>3 DEF IInv, TypeOK
  <2> QED BY <1>3, <1>7, <1>8, <2>3, <2>4 DEF IInv, TypeOK
<1>12. ThreadOK(t)'
  BY <1>1, <1>3, <1>6, <1>8 DEF ThreadOK, Busy, Working
<1>13. Handles(t, s)' /\ \A u \in Servers \ {t} : ~Handles(u, s)'
  BY <1>2, <1>6, <1>8 DEF Handles
<1>14. \A r \in Streams \ {s} : ~Handles(t, r) /\ ~Handles(t, r)'
  BY <1>1, <1>6, <1>8 DEF Handles
<1>15. StreamOK(s)'
  <2>1. SlotsOK(s)'
    BY <1>3, <1>4, <1>5, <1>7, <1>9, <1>10, <1>13 DEF SlotsOK, Handled
  <2>2. HandledOK(t, s)'
    <3>1. client'[s][0].session = req'[t].session \/ client'[s][0].session = 0
      BY <1>2, <1>5, <1>6, <1>7, <1>8 DEF FreeClient
    <3>2. ASSUME t = "http"
          PROVE  /\ enabled'[s] /\ streaming'[s] = "none" /\ ~active'[s]
                 /\ client'[s][0].watchdog \in {"off", "armed"}
                 /\ client'[s][0].socket = [server |-> "http", index |-> idx'["http"] - 1]
      <4>1. ~inUse[s] /\ enabled[s] /\ client[s][0] = FreeClient
        BY <1>1, <1>2, <3>2 DEF ThreadOK
      <4> QED BY <1>3, <1>4, <1>5, <1>7, <1>10, <3>2, <4>1 DEF SlotsOK, FreeClient
    <3> QED BY <1>5, <1>7, <1>8, <1>9, <1>10, <3>1, <3>2 DEF HandledOK
  <2>3. StreamingOK(s)'
    BY <1>2, <1>3, <1>4 DEF StreamingOK, Tuning, Started
  <2> QED BY <1>13, <2>1, <2>2, <2>3, OwnStream
<1>16. SessionInv'
  <2>1. \A r \in Streams : client'[r][0].session = client[r][0].session
    BY <1>5, <1>7
  <2>2. ASSUME NEW u \in Servers, pc'[u] = "setSession"
        PROVE  /\ req'[u].session # 0
               /\ \A r \in Streams : client[r][0].session = req'[u].session => r = req'[u].stream
    <3>1. CASE u = t
      BY <1>1, <1>2, <1>6, <1>8, <3>1, RequestSession
    <3>2. CASE u # t
      BY <1>8, <2>2, <3>2, RequestSession DEF Busy, Working
    <3> QED BY <3>1, <3>2
  <2>3. \A u \in Servers : pc'[u] = "find" => pc[u] = "find" /\ req'[u] = req[u]
    BY <1>8
  <2> QED BY <1>3, <2>1, <2>2, <2>3, SessionsShrink
<1> QED BY <1>3, <1>7, <1>8, <1>9, <1>11, <1>12, <1>14, <1>15, <1>16, StreamStep

-----------------------------------------------------------------------------
(* The invariant.                                                             *)

LEMMA InitInv == Init => IInv
<1> SUFFICES ASSUME Init PROVE IInv
  OBVIOUS
<1>1. TypeOK
  BY InitType
<1>2. \A t \in Servers : pc[t] = "poll"
  BY DEF Init
<1>3. ThreadInv
  BY <1>2 DEF ThreadInv, ThreadOK, Busy, Working
<1>4. ASSUME NEW s \in Streams
      PROVE  /\ ~inUse[s] /\ ~active[s] /\ type[s] = "NONE" /\ streaming[s] = "none"
             /\ device[s] = ClosedDevice /\ \A i \in Slots : client[s][i] = FreeClient
             /\ \A t \in Servers : ~Handles(t, s)
  BY <1>2 DEF Init, Handles
<1>5. StreamInv
  BY <1>4, SlotZero DEF Init, StreamInv, StreamOK, SlotsOK, HandledOK, StreamingOK, Started,
     Servers, FreeClient, ClosedDevice
<1>6. SessionInv
  BY <1>2, <1>4, SlotZero DEF Init, SessionInv, FreeClient
<1> QED BY <1>1, <1>3, <1>5, <1>6 DEF IInv

LEMMA NextInv == IInv /\ [Next]_vars => IInv'
<1> SUFFICES ASSUME IInv, [Next]_vars PROVE IInv'
  OBVIOUS
<1>1. ASSUME NEW t \in Servers, PollStep(t) PROVE IInv'
  BY <1>1, PollInv, RequestInv DEF PollStep
<1>2. ASSUME NEW t \in Servers, HandleStep(t) PROVE IInv'
  BY <1>2, FindClientIDInv, SearchInv, SetSessionIDInv, ProcessRequestInv, UpdateSucceedsInv,
     UpdateFailsInv, AnswerOnlyInv, TeardownRequestInv DEF HandleStep
<1>3. "rtsp" \in Servers /\ "http" \in Servers
  BY DEF Servers
<1>4. CASE RtspStep
  BY <1>1, <1>2, <1>3, <1>4, RequestInv, CheckSlotInv, PollInv DEF RtspStep
<1>5. CASE HttpStep
  BY <1>1, <1>2, <1>3, <1>5, PostEnableInv, GetStatusInv DEF HttpStep
<1>6. CASE Environment
  BY <1>6, WatchdogExpiresInv, StreamWriteFailsInv DEF Environment
<1>7. CASE UNCHANGED vars
  <2>1. UNCHANGED streamVars /\ UNCHANGED serverVars
        /\ UNCHANGED <<nextSession, nextPeer, issued>>
    BY <1>7 DEF vars
  <2>2. TypeOK'
    BY <2>1 DEF IInv, TypeOK, streamVars, serverVars
  <2>3. ThreadInv'
    BY <2>1 DEF IInv, ThreadInv, ThreadOK, serverVars
  <2>4. StreamInv'
    <3>1. ASSUME NEW t \in Servers, NEW s \in Streams PROVE Handles(t, s)' <=> Handles(t, s)
      BY <2>1 DEF Handles, serverVars
    <3> QED BY <2>1, <3>1, OtherStream DEF IInv, StreamInv, streamVars, serverVars
  <2>5. SessionInv'
    BY <2>1 DEF IInv, SessionInv, streamVars, serverVars
  <2> QED BY <2>2, <2>3, <2>4, <2>5 DEF IInv
<1> QED BY <1>4, <1>5, <1>6, <1>7 DEF Next

\* The inductive invariant holds in every reachable state.
THEOREM InvariantHolds == Spec => []IInv
BY InitInv, NextInv, PTL DEF Spec

-----------------------------------------------------------------------------
(* What it implies.                                                           *)

\* Every variable keeps its type.
THEOREM TypeCorrect == Spec => []TypeOK
<1>1. IInv => TypeOK
  BY DEF IInv
<1> QED BY <1>1, InvariantHolds, PTL

\* A stream that is not in use keeps nothing of the session it had.
THEOREM FreeStreamsAreIdle == Spec => []FreeStreamIsIdle
<1>1. IInv => FreeStreamIsIdle
  BY DEF IInv, FreeStreamIsIdle, StreamInv, StreamOK, SlotsOK
<1> QED BY <1>1, InvariantHolds, PTL

\* The streaming object of a stream is destroyed by a teardown only.
LEMMA DestroyedBy ==
  ASSUME IInv, [Next]_vars, NEW s \in Streams, streaming[s] # "none", streaming'[s] = "none"
  PROVE  \/ \E t \in Servers : TeardownRequest(t) /\ s = req[t].stream
         \/ CheckSlot /\ s = idx["rtsp"] /\ TimedOut(s, slot) /\ Teardown(s, slot)
<1>1. streaming \in [Streams -> ThreadState]
  BY DEF IInv, TypeOK
<1>2. ASSUME NEW t \in Servers, PollStep(t) PROVE FALSE
  BY <1>2 DEF PollStep, PollQuiet, Accept, CloseConnection, OpenRequest, ReceiveRequest,
     PollReturns, streamVars
<1>3. ASSUME NEW t \in Servers, HandleStep(t) PROVE TeardownRequest(t) /\ s = req[t].stream
  <2>1. CASE FindClientID(t) \/ TryNextStream(t) \/ ReplyNoFrontend(t) \/ SetSessionID(t)
             \/ AnswerOnly(t)
    BY <2>1 DEF FindClientID, TryNextStream, ReplyNoFrontend, SetSessionID, AnswerOnly, streamVars
  <2>2. CASE ProcessRequest(t)
    <3>1. PICK changed \in BOOLEAN :
            streaming' = [streaming EXCEPT ![req[t].stream] = Paused(@, changed)]
      BY <2>2, <1>1 DEF ProcessRequest, IInv, TypeOK, Device
    <3> QED BY <1>1, <3>1 DEF Paused
  <2>3. CASE UpdateSucceeds(t)
    <3>1. \/ \E started \in BOOLEAN : StartStreaming(req[t].stream, started)
          \/ RestartStreaming(req[t].stream)
      BY <2>3 DEF UpdateSucceeds
    <3> QED BY <1>1, <3>1 DEF StartStreaming, RestartStreaming, Made
  <2>4. CASE UpdateFails(t)
    BY <1>1, <2>4 DEF UpdateFails, Made
  <2>5. CASE TeardownRequest(t)
    <3>1. streaming' = [streaming EXCEPT ![req[t].stream] = "none"]
      BY <2>5 DEF TeardownRequest, Teardown
    <3> QED BY <1>1, <2>5, <3>1
  <2> QED BY <1>3, <2>1, <2>2, <2>3, <2>4, <2>5 DEF HandleStep
<1>4. ASSUME CheckSlot PROVE s = idx["rtsp"] /\ TimedOut(s, slot) /\ Teardown(s, slot)
  <2>1. TimedOut(idx["rtsp"], slot) /\ Teardown(idx["rtsp"], slot)
    BY <1>4 DEF CheckSlot, streamVars
  <2>2. streaming' = [streaming EXCEPT ![idx["rtsp"]] = "none"]
    BY <2>1 DEF Teardown
  <2> QED BY <1>1, <2>1, <2>2
<1>5. "rtsp" \in Servers /\ "http" \in Servers
  BY DEF Servers
<1>6. CASE RtspStep
  <2>1. ~(SessionRequest \/ SkipStream \/ CheckDone)
    BY DEF SessionRequest, ReceiveRequest, SkipStream, CheckDone, streamVars
  <2> QED BY <1>2, <1>3, <1>4, <1>5, <1>6, <2>1 DEF RtspStep
<1>7. CASE HttpStep
  <2>1. ~(GetStatus \/ \E r \in Configured, on \in BOOLEAN : PostEnable(r, on))
    BY DEF GetStatus, PostEnable, streamVars
  <2> QED BY <1>2, <1>3, <1>5, <1>7, <2>1 DEF HttpStep
<1>8. ~Environment /\ ~UNCHANGED vars
  BY DEF Environment, WatchdogExpires, StreamWriteFails, vars, streamVars
<1> QED BY <1>6, <1>7, <1>8 DEF Next

\* No slot but the owner's is ever taken, and a stream is torn down as a whole unless it
\* was disabled while the timeout check was between its slots.
THEOREM OnlyOwnersSlot == Spec => []OwnerSlotOnly /\ TornDownWhole
<1>1. IInv => OwnerSlotOnly
  BY DEF IInv, OwnerSlotOnly, StreamInv, StreamOK, SlotsOK
<1> DEFINE Whole(s) == \/ ~inUse'[s] /\ ~active'[s] /\ client'[s][0] = FreeClient
                       \/ InCheck(s) /\ ~enabled[s]
           A == \A s \in Streams : streaming[s] # "none" /\ streaming'[s] = "none" => Whole(s)
<1>2. ASSUME IInv, [Next]_vars PROVE A
  <2> SUFFICES ASSUME NEW s \in Streams, streaming[s] # "none", streaming'[s] = "none"
               PROVE  Whole(s)
    OBVIOUS
  <2>1. CASE Teardown(s, 0)
    BY <1>2, <2>1, OwnerTornDown, SlotZero DEF IInv
  <2>2. ASSUME NEW t \in Servers, TeardownRequest(t), s = req[t].stream PROVE Teardown(s, 0)
    <3>1. pc[t] \in Working /\ Teardown(s, req[t].clientID)
      BY <2>2 DEF TeardownRequest, Working
    <3> QED BY <1>2, <3>1, AtWork
  <2>3. ASSUME CheckSlot, s = idx["rtsp"], TimedOut(s, slot), slot # 0 PROVE Whole(s)
    BY <1>2, <2>3, CheckIs, TimedOutOwner DEF InCheck
  <2> QED BY <1>2, <2>1, <2>2, <2>3, DestroyedBy
<1>3. IInv /\ [Next]_vars => [A]_vars
  BY <1>2
<1> HIDE DEF A
<1>4. Spec => []OwnerSlotOnly /\ [][A]_vars
  BY <1>1, <1>3, InvariantHolds, PTL DEF Spec
<1> QED BY <1>4 DEF TornDownWhole, A

\* A stream in use that no thread works on can be ended.
THEOREM NoTunerLeaks == Spec => []NoOrphan
<1>1. IInv => NoOrphan
  BY DEF IInv, NoOrphan, StreamInv, StreamOK, SlotsOK
<1> QED BY <1>1, InvariantHolds, PTL

\* A session ID is in one slot of one stream.
THEOREM SessionsAreUnique == Spec => []SessionUnique
<1>1. IInv => SessionUnique
  <2> SUFFICES ASSUME IInv, NEW s \in Streams, NEW r \in Streams, NEW i \in Slots, NEW j \in Slots,
                      client[s][i].session # 0, client[s][i].session = client[r][j].session
               PROVE  s = r /\ i = j
    BY DEF SessionUnique
  <2>1. i = 0 /\ j = 0
    BY DEF IInv, StreamInv, StreamOK, SlotsOK, FreeClient
  <2> QED BY <2>1 DEF IInv, SessionInv
<1> QED BY <1>1, InvariantHolds, PTL

\* A pause for a channel change never outlives the request that made it.
THEOREM PausesEnd == Spec => []NoStuckPause
<1>1. IInv => NoStuckPause
  BY DEF IInv, NoStuckPause, Handled, StreamInv, StreamOK, StreamingOK, Tuning
<1> QED BY <1>1, InvariantHolds, PTL

\* A streaming thread that was started counts as active, and is not started again.
THEOREM ActiveIsStarted == Spec => []StartedIsActive
<1>1. IInv => StartedIsActive
  BY DEF IInv, StartedIsActive, StreamInv, StreamOK, StreamingOK
<1> QED BY <1>1, InvariantHolds, PTL

\* A running streaming thread reads from a device that is open and set up.
THEOREM DeviceOpenWhileRead == Spec => []ReadsOpenDevice
<1>1. IInv => ReadsOpenDevice
  BY DEF IInv, ReadsOpenDevice, StreamInv, StreamOK, StreamingOK
<1> QED BY <1>1, InvariantHolds, PTL

\* The timeout check never follows a null pointer.
THEOREM SocketNeverNull == Spec => []NoNullSocket
<1>1. IInv => NoNullSocket
  <2> SUFFICES ASSUME IInv, NEW s \in Streams, NEW i \in Slots,
                      client[s][i].check = "FILE_DESCRIPTOR"
               PROVE  client[s][i].socket.server # "none"
    BY DEF NoNullSocket
  <2>1. i = 0
    BY DEF IInv, StreamInv, StreamOK, SlotsOK, FreeClient
  <2> QED BY <2>1 DEF IInv, StreamInv, StreamOK, SlotsOK
<1> QED BY <1>1, InvariantHolds, PTL

-----------------------------------------------------------------------------
(* The refinement of TunerPool.  "holder" and "gone" are those of StreamSession. *)

\* What the mapping says of a stream: the session that it is given to, which is that of the
\* request that a thread handles on it.
HolderOK(s) ==
  /\ ~inUse[s] => holder[s] = 0
  /\ inUse[s] => holder[s] \in 1..(nextSession - 1)
  /\ inUse[s] /\ client[s][0].session # 0 => holder[s] = client[s][0].session
  /\ \A t \in Servers : Handles(t, s) => inUse[s] /\ holder[s] = req[t].session

HoldersOK ==
  /\ holder = [s \in Streams |-> holder[s]]
  /\ \A s \in Streams : HolderOK(s)

LEMMA HolderIs == IInv => HoldersOK
<1> SUFFICES ASSUME IInv, NEW s \in Streams PROVE HolderOK(s)
  BY DEF holder, HoldersOK
<1> DEFINE id == client[s][0].session
<1>1. /\ StreamOK(s) /\ SlotsOK(s) /\ id \in Nat /\ nextSession \in Nat
      /\ \A t \in Servers : HandledOK(t, s)
  BY SlotZero DEF IInv, StreamInv, StreamOK, TypeOK, StreamClient
<1>2. ASSUME NEW t \in Servers, Handles(t, s)
      PROVE  /\ inUse[s] /\ id \in {req[t].session, 0} /\ Claimant(s) = t
             /\ req[t].session \in 1..(nextSession - 1)
  <2>1. inUse[s] /\ id \in {req[t].session, 0}
    BY <1>1, <1>2 DEF HandledOK
  <2>2. \A u \in Servers : Handles(u, s) => u = t
    BY <1>1, <1>2 DEF StreamOK, Servers
  <2>3. Claimant(s) = t
    BY <1>2, <2>2 DEF Claimant
  <2>4. pc[t] \in Busy
    BY <1>2 DEF Handles, Busy, Working
  <2> QED BY <2>1, <2>3, <2>4 DEF IInv, ThreadInv, ThreadOK
<1>3. holder[s] = IF ~inUse[s] THEN 0 ELSE IF id # 0 THEN id ELSE req[Claimant(s)].session
  BY DEF holder
<1>4. ~inUse[s] => holder[s] = 0
  BY <1>3
<1>5. inUse[s] /\ id # 0 => holder[s] = id
  BY <1>3
<1>6. ASSUME NEW t \in Servers, Handles(t, s) PROVE inUse[s] /\ holder[s] = req[t].session
  BY <1>2, <1>3, <1>6
<1>7. ASSUME inUse[s] PROVE holder[s] \in 1..(nextSession - 1)
  <2>1. CASE Handled(s)
    BY <1>2, <1>6, <2>1 DEF Handled
  <2>2. CASE ~Handled(s)
    <3>1. id # 0 /\ id < nextSession
      BY <1>1, <1>7, <2>2 DEF SlotsOK
    <3> QED BY <1>1, <1>3, <1>7, <3>1
  <2> QED BY <2>1, <2>2
<1> QED BY <1>4, <1>5, <1>6, <1>7 DEF HolderOK

\* Threads have different sessions, and each session has one stream.
Searching(t) == pc[t] = "find" /\ req[t].newSession

LEMMA SearchersDiffer ==
  ASSUME IInv, NEW t \in Servers, NEW u \in Servers, t # u, pc[t] \in Busy, pc[u] \in Busy
  PROVE  req[t].session # req[u].session
BY DEF IInv, ThreadInv, ThreadOK, Servers

LEMMA SearcherHoldsNothing ==
  ASSUME IInv, NEW t \in Servers, Searching(t)
  PROVE  /\ req[t].session \in 1..(nextSession - 1)
         /\ \A s \in Streams : holder[s] # req[t].session
<1>1. pc[t] \in Busy /\ req[t].session \in 1..(nextSession - 1)
  BY DEF Searching, Busy, IInv, ThreadInv, ThreadOK
<1>2. ASSUME NEW s \in Streams PROVE holder[s] # req[t].session
  <2>1. HolderOK(s) /\ SlotsOK(s)
    BY HolderIs DEF HoldersOK, IInv, StreamInv, StreamOK
  <2>2. ASSUME NEW u \in Servers, Handles(u, s) PROVE holder[s] # req[t].session
    <3>1. u # t /\ pc[u] \in Busy
      BY <2>2 DEF Handles, Searching, Busy, Working
    <3> QED BY <1>1, <2>1, <2>2, <3>1, SearchersDiffer DEF HolderOK
  <2>3. client[s][0].session # req[t].session
    BY DEF IInv, SessionInv, Searching
  <2> QED BY <1>1, <2>1, <2>2, <2>3 DEF HolderOK, SlotsOK, Handled
<1> QED BY <1>1, <1>2

LEMMA OneStreamEach ==
  ASSUME IInv, NEW s \in Streams, NEW r \in Streams, inUse[s], holder[r] = holder[s]
  PROVE  r = s
<1>1. /\ HolderOK(s) /\ HolderOK(r) /\ SlotsOK(s) /\ SlotsOK(r) /\ inUse[r]
  BY HolderIs DEF HoldersOK, IInv, StreamInv, StreamOK, HolderOK
<1>2. ASSUME NEW x \in Streams, NEW y \in Streams, x # y, HolderOK(x), HolderOK(y), SlotsOK(y),
             inUse[x], inUse[y], holder[x] = holder[y], NEW t \in Servers, Handles(t, x)
      PROVE  FALSE
  <2>1. holder[x] = req[t].session /\ pc[t] \in Busy /\ ~Handles(t, y)
    BY <1>2 DEF HolderOK, Handles, Busy, Working
  <2>2. \A u \in Servers : ~Handles(u, y)
    BY <1>2, <2>1, SearchersDiffer DEF HolderOK, Handles, Busy, Working
  <2>3. client[y][0].session = req[t].session /\ client[y][0].session # 0
    BY <1>2, <2>1, <2>2 DEF HolderOK, SlotsOK, Handled
  <2>4. pc[t] = "setSession" => y = x
    BY <1>2, <2>1, <2>3, RequestSession DEF Handles
  <2>5. pc[t] # "setSession" => client[x][0].session = req[t].session
    BY <1>2 DEF IInv, StreamInv, StreamOK, HandledOK
  <2> QED BY <1>2, <2>3, <2>4, <2>5 DEF IInv, SessionInv
<1>3. CASE Handled(s) \/ Handled(r)
  BY <1>1, <1>2, <1>3 DEF Handled
<1>4. CASE ~Handled(s) /\ ~Handled(r)
  BY <1>1, <1>4 DEF HolderOK, SlotsOK, IInv, SessionInv
<1> QED BY <1>3, <1>4

LEMMA HolderNext == IInv' => HoldersOK'
BY HolderIs, PTL

LEMMA GoneIs ==
  /\ gone \subseteq 1..(nextSession - 1)
  /\ \A id \in 1..(nextSession - 1) :
       id \in gone <=> /\ \A s \in Streams : holder[s] # id
                       /\ \A t \in Servers : Searching(t) => req[t].session # id
BY DEF gone, Searching

LEMMA GoneNext ==
  /\ gone' \subseteq 1..(nextSession' - 1)
  /\ \A id \in 1..(nextSession' - 1) :
       id \in gone' <=> /\ \A s \in Streams : holder'[s] # id
                        /\ \A t \in Servers : Searching(t)' => req'[t].session # id
BY DEF gone, Searching

\* What a step does not disturb.
LEMMA SameHolder ==
  ASSUME IInv, IInv', NEW s \in Streams, inUse'[s] = inUse[s],
         client'[s][0].session = client[s][0].session,
         \A t \in Servers : Handles(t, s) /\ client[s][0].session = 0 =>
           Handles(t, s)' /\ req'[t].session = req[t].session
  PROVE  holder'[s] = holder[s]
<1>1. HolderOK(s) /\ HolderOK(s)' /\ SlotsOK(s)
  BY HolderIs, HolderNext DEF HoldersOK, IInv, StreamInv, StreamOK
<1>2. CASE inUse[s] /\ client[s][0].session = 0
  <2>1. PICK t \in Servers : Handles(t, s)
    BY <1>1, <1>2 DEF SlotsOK, Handled
  <2> QED BY <1>1, <1>2, <2>1 DEF HolderOK
<1> QED BY <1>1, <1>2 DEF HolderOK

LEMMA SameHolders ==
  ASSUME IInv, IInv', \A s \in Streams : holder'[s] = holder[s]
  PROVE  holder' = holder
BY HolderIs, HolderNext, Zenon DEF HoldersOK

LEMMA SameGone ==
  ASSUME holder' = holder, nextSession' = nextSession,
         \A t \in Servers : Searching(t)' <=> Searching(t),
         \A t \in Servers : Searching(t) => req'[t].session = req[t].session
  PROVE  gone' = gone
<1>1. \A id \in 1..(nextSession - 1) :
        (\A t \in Servers : Searching(t)' => req'[t].session # id)
          <=> (\A t \in Servers : Searching(t) => req[t].session # id)
  OBVIOUS
<1>2. \A id \in 1..(nextSession - 1) : id \in gone' <=> id \in gone
  BY <1>1, GoneIs, GoneNext
<1> QED BY <1>2, GoneIs, GoneNext

-----------------------------------------------------------------------------
(* Each step of StreamSession is one of TunerPool, or a stutter.              *)

Stutter == UNCHANGED <<holder, gone>>

LEMMA PollPool ==
  ASSUME IInv, IInv', NEW t \in Servers,
         \/ PollQuiet(t) \/ Accept(t) \/ CloseConnection(t) \/ PollReturns(t)
         \/ SkipStream \/ CheckDone \/ GetStatus
         \/ \E s \in Configured, on \in BOOLEAN : PostEnable(s, on)
  PROVE  Stutter
<1>1. UNCHANGED <<inUse, client, req, nextSession>>
  BY DEF PollQuiet, Accept, CloseConnection, PollReturns, SkipStream, CheckDone, GetStatus, PostEnable, streamVars
<1>2. ASSUME NEW u \in Servers
      PROVE  pc'[u] = pc[u] \/ {pc[u], pc'[u]} \subseteq {"poll", "check"}
  BY DEF IInv, TypeOK, PollQuiet, Accept, CloseConnection, PollReturns, SkipStream, CheckDone, GetStatus, PostEnable, GoTo, Servers
<1>3. \A u \in Servers : Searching(u)' <=> Searching(u)
  BY <1>1, <1>2 DEF Searching
<1>4. \A u \in Servers, s \in Streams : Handles(u, s)' <=> Handles(u, s)
  BY <1>1, <1>2 DEF Handles
<1>5. holder' = holder
  <2>1. ASSUME NEW s \in Streams PROVE holder'[s] = holder[s]
    BY <1>1, <1>4, SameHolder
  <2> QED BY <2>1, SameHolders
<1> QED BY <1>1, <1>3, <1>5, SameGone DEF Stutter

\* What the request that ReceiveRequest stores says of its session.
LEMMA ReceivedIs ==
  ASSUME TypeOK, NEW t \in Servers, NEW m, NEW id, NEW n, NEW fe, NEW can,
         ReceiveRequest(t, m, id, n, fe, can)
  PROVE  req'[t].session = id /\ req'[t].newSession = n
<1> DEFINE q == [NoRequest EXCEPT !.method = m, !.newSession = n,
                         !.session = id, !.can = can,
                         !.socket = [server |-> t, index |-> idx[t] - 1],
                         !.fe = fe, !.at = IF fe = 0 THEN 1 ELSE 0]
<1>1. q.session = id /\ q.newSession = n
  BY Zenon DEF NoRequest
<1>2. req' = [req EXCEPT ![t] = q]
  BY DEF ReceiveRequest
<1> QED BY <1>1, <1>2 DEF TypeOK

LEMMA RequestPool ==
  ASSUME IInv, IInv', NEW t \in Servers, OpenRequest(t) \/ (t = "rtsp" /\ SessionRequest)
  PROVE  Stutter
<1>1. /\ UNCHANGED <<inUse, client>> /\ pc[t] = "poll" /\ pc'[t] = "find"
      /\ \A u \in Servers \ {t} : pc'[u] = pc[u] /\ req'[u] = req[u]
  BY ZenonT(60) DEF OpenRequest, SessionRequest, ReceiveRequest, streamVars, GoTo, IInv, TypeOK
<1>2. holder' = holder
  <2>1. \A s \in Streams, u \in Servers : Handles(u, s) => Handles(u, s)' /\ req'[u].session = req[u].session
    BY <1>1 DEF Handles
  <2>2. ASSUME NEW s \in Streams PROVE holder'[s] = holder[s]
    BY <1>1, <2>1, SameHolder
  <2> QED BY <2>2, SameHolders
<1>3. \A u \in Servers \ {t} : Searching(u)' <=> Searching(u)
  BY <1>1 DEF Searching
<1>4. ~Searching(t) /\ nextSession \in Nat \ {0}
  BY <1>1 DEF Searching, IInv, TypeOK
<1>5. CASE OpenRequest(t)
  <2>1. nextSession' = nextSession + 1 /\ Searching(t)' /\ req'[t].session = nextSession
    <3>1. PICK m, fe, can : ReceiveRequest(t, m, nextSession, TRUE, fe, can)
      BY <1>5 DEF OpenRequest
    <3>2. req'[t].session = nextSession /\ req'[t].newSession = TRUE
      BY <3>1, ReceivedIs DEF IInv
    <3> QED BY <1>1, <1>5, <3>2 DEF OpenRequest, Searching
  <2>2. \A s \in Streams : holder[s] # nextSession
    BY <1>4, HolderIs DEF HoldersOK, HolderOK
  <2>3. \A u \in Servers : Searching(u) => req[u].session # nextSession
    BY <1>4, SearcherHoldsNothing
  <2>4. ASSUME NEW id \in 1..nextSession PROVE id \in gone' <=> id \in gone
    <3>1. CASE id = nextSession
      BY <1>4, <2>1, <3>1, GoneIs, GoneNext
    <3>2. CASE id \in 1..(nextSession - 1)
      <4>1. (Searching(t)' => req'[t].session # id) /\ (Searching(t) => req[t].session # id)
        BY <1>4, <2>1, <3>2
      <4>2. \A u \in Servers : (Searching(u)' => req'[u].session # id) <=> (Searching(u) => req[u].session # id)
        BY <1>1, <1>3, <4>1
      <4>3. id \in 1..(nextSession' - 1)
        BY <1>4, <2>1, <3>2
      <4>4. id \in gone' <=> /\ \A s \in Streams : holder'[s] # id
                             /\ \A u \in Servers : Searching(u)' => req'[u].session # id
        BY <4>3, GoneNext
      <4>5. id \in gone <=> /\ \A s \in Streams : holder[s] # id
                            /\ \A u \in Servers : Searching(u) => req[u].session # id
        BY <3>2, GoneIs
      <4> QED BY <1>2, <4>2, <4>4, <4>5
    <3> QED BY <1>4, <3>1, <3>2
  <2>5. nextSession' - 1 = nextSession /\ gone \subseteq 1..nextSession /\ gone' \subseteq 1..nextSession
    BY <1>4, <2>1, GoneIs, GoneNext
  <2> QED BY <1>2, <2>4, <2>5 DEF Stutter
<1>6. CASE t = "rtsp" /\ SessionRequest
  <2>1. nextSession' = nextSession /\ ~Searching(t)'
    <3>1. PICK m, fe, id : ReceiveRequest(t, m, id, FALSE, fe, {})
      BY <1>6 DEF SessionRequest
    <3>2. req'[t].newSession = FALSE
      BY <3>1, ReceivedIs DEF IInv
    <3> QED BY <1>6, <3>2 DEF SessionRequest, Searching
  <2> QED BY <1>1, <1>2, <1>3, <1>4, <2>1, SameGone DEF Stutter, Searching
<1> QED BY <1>5, <1>6

\* A step that neither begins nor ends a search, nor changes whose stream is whose.
LEMMA QuietPool ==
  ASSUME IInv, IInv', NEW t \in Servers, nextSession' = nextSession, inUse' = inUse,
         \A s \in Streams : client'[s][0].session = client[s][0].session,
         \A u \in Servers \ {t} : pc'[u] = pc[u] /\ req'[u] = req[u],
         pc[t] # "setSession",
         Searching(t)' <=> Searching(t), Searching(t) => req'[t].session = req[t].session
  PROVE  Stutter
<1>1. ASSUME NEW s \in Streams PROVE holder'[s] = holder[s]
  <2>1. ASSUME NEW u \in Servers, Handles(u, s), client[s][0].session = 0
        PROVE  Handles(u, s)' /\ req'[u].session = req[u].session
    <3>1. HandledOK(u, s) /\ pc[u] \in Busy
      BY <2>1 DEF IInv, StreamInv, StreamOK, Handles, Busy, Working
    <3>2. u # t
      BY <2>1, <3>1, RequestSession DEF HandledOK
    <3> QED BY <2>1, <3>2 DEF Handles
  <2> QED BY <2>1, SameHolder
<1>2. \A u \in Servers : Searching(u)' <=> Searching(u)
  BY DEF Searching
<1>3. \A u \in Servers : Searching(u) => req'[u].session = req[u].session
  BY DEF Searching
<1> QED BY <1>1, <1>2, <1>3, SameHolders, SameGone DEF Stutter

LEMMA StreamPool ==
  ASSUME IInv, IInv', NEW t \in Servers,
         \/ ProcessRequest(t) \/ UpdateSucceeds(t) \/ UpdateFails(t) \/ AnswerOnly(t)
         \/ TryNextStream(t)
  PROVE  Stutter
<1>1. /\ nextSession' = nextSession /\ inUse' = inUse /\ pc[t] \in {"find", "process", "method"}
  BY DEF ProcessRequest, UpdateSucceeds, UpdateFails, AnswerOnly, TryNextStream, streamVars
<1>2. CASE TryNextStream(t)
  <2>1. /\ pc' = pc /\ client' = client /\ req[t] \in Request
        /\ req' = [req EXCEPT ![t] = [req[t] EXCEPT !.at = req[t].at + 1]]
    BY <1>2 DEF TryNextStream, streamVars, IInv, TypeOK
  <2>2. /\ req'[t].session = req[t].session /\ req'[t].newSession = req[t].newSession
        /\ \A u \in Servers \ {t} : req'[u] = req[u]
    BY <2>1 DEF IInv, TypeOK, Request
  <2> QED BY <1>1, <1>2, <2>1, <2>2, QuietPool DEF Searching, TryNextStream
<1>3. CASE ~TryNextStream(t)
  <2>1. pc[t] \in {"process", "method"} /\ pc'[t] \in {"poll", "method", "failed"}
    BY <1>3, ZenonT(60) DEF ProcessRequest, UpdateSucceeds, UpdateFails, AnswerOnly, Reply, GoTo, IInv, TypeOK
  <2>2. \A u \in Servers \ {t} : pc'[u] = pc[u] /\ req'[u] = req[u]
    BY <1>3, ZenonT(60) DEF ProcessRequest, UpdateSucceeds, UpdateFails, AnswerOnly, Reply, GoTo, IInv, TypeOK
  <2>3. \A s \in Streams : client'[s][0].session = client[s][0].session
    <3>1. CASE ProcessRequest(t)
      <4>1. PICK s \in Streams : s = req[t].stream /\ client[s][0] \in StreamClient
        BY <2>1, AtWork DEF Working
      <4>2. req[t].clientID = 0
        BY <2>1, AtWork DEF Working
      <4>3. PICK new \in StreamingType : client' = [client EXCEPT ![s] = [client[s] EXCEPT ![0] =
                    RestartWatchDog(WithCheck(client[s][0], new))]]
        BY <3>1, <4>1, <4>2 DEF ProcessRequest, SetupType, StreamingType
      <4>4. RestartWatchDog(WithCheck(client[s][0], new)).session = client[s][0].session
        BY <4>1 DEF RestartWatchDog, WithCheck, StreamClient
      <4> HIDE DEF StreamingType
      <4>5. client'[s][0] = RestartWatchDog(WithCheck(client[s][0], new))
            /\ \A r \in Streams \ {s} : client'[r] = client[r]
        BY <4>3, SlotZero DEF IInv, TypeOK
      <4> QED BY <4>4, <4>5
    <3>2. CASE ~ProcessRequest(t)
      BY <1>3, <3>2 DEF UpdateSucceeds, UpdateFails, AnswerOnly, streamVars
    <3> QED BY <3>1, <3>2
  <2> QED BY <1>1, <2>1, <2>2, <2>3, QuietPool DEF Searching
<1> QED BY <1>2, <1>3

LEMMA WatchdogPool ==
  ASSUME IInv, IInv', NEW s \in Streams,
         (\E i \in Slots : WatchdogExpires(s, i)) \/ StreamWriteFails(s)
  PROVE  Stutter
<1>1. UNCHANGED <<inUse, nextSession, pc, req>>
  BY DEF WatchdogExpires, StreamWriteFails, serverVars
<1>2. \A r \in Streams : client'[r][0].session = client[r][0].session
  <2>1. PICK i \in Slots, w \in Watchdog :
          client' = [client EXCEPT ![s] = [client[s] EXCEPT ![i] = [client[s][i] EXCEPT !.watchdog = w]]]
    BY SlotZero DEF WatchdogExpires, StreamWriteFails, Watchdog
  <2>2. client[s][i] \in StreamClient /\ client[s] \in [Slots -> StreamClient]
    BY DEF IInv, TypeOK
  <2>3. [client[s][i] EXCEPT !.watchdog = w].session = client[s][i].session
    BY <2>2 DEF StreamClient
  <2>4. client'[s][0] = IF i = 0 THEN [client[s][i] EXCEPT !.watchdog = w] ELSE client[s][0]
    BY <2>1, <2>2, SlotZero DEF IInv, TypeOK
  <2>5. \A r \in Streams \ {s} : client'[r] = client[r]
    BY <2>1 DEF IInv, TypeOK
  <2> QED BY <2>3, <2>4, <2>5
<1>3. ASSUME NEW r \in Streams PROVE holder'[r] = holder[r]
  <2>1. \A u \in Servers : Handles(u, r)' <=> Handles(u, r)
    BY <1>1 DEF Handles
  <2> QED BY <1>1, <1>2, <2>1, SameHolder
<1>4. \A u \in Servers : Searching(u)' <=> Searching(u)
  BY <1>1 DEF Searching
<1> QED BY <1>1, <1>3, <1>4, SameHolders, SameGone DEF Stutter

LEMMA SetSessionPool ==
  ASSUME IInv, IInv', NEW t \in Servers, SetSessionID(t)
  PROVE  Stutter
<1>1. pc[t] = "setSession" /\ pc[t] \in Working /\ req[t].clientID = 0
  BY AtWork DEF SetSessionID, Working
<1>2. PICK s \in Streams : s = req[t].stream /\ client[s][0] \in StreamClient
  BY <1>1, AtWork
<1>3. /\ client' = [client EXCEPT ![s] = [client[s] EXCEPT ![0].session = req[t].session]]
      /\ pc' = [pc EXCEPT ![t] = "process"]
      /\ UNCHANGED <<inUse, req, nextSession>>
  BY <1>1, <1>2 DEF SetSessionID, GoTo
<1>4. \A r \in Streams \ {s} : client'[r] = client[r]
  BY <1>3 DEF IInv, TypeOK
<1>5. \A u \in Servers, r \in Streams : Handles(u, r) => Handles(u, r)'
  BY <1>3 DEF Handles, IInv, TypeOK
<1>6. Handles(t, s)
  BY <1>1, <1>2 DEF Handles
<1>7. ASSUME NEW r \in Streams PROVE holder'[r] = holder[r]
  <2>1. CASE r = s
    BY <1>3, <1>5, <1>6, <2>1, HolderIs, HolderNext DEF HoldersOK, HolderOK
  <2>2. CASE r # s
    BY <1>3, <1>4, <1>5, <2>2, SameHolder
  <2> QED BY <2>1, <2>2
<1>8. \A u \in Servers : Searching(u)' <=> Searching(u)
  BY <1>1, <1>3 DEF Searching, IInv, TypeOK
<1> QED BY <1>3, <1>7, <1>8, SameHolders, SameGone DEF Stutter

\* The step that ends the session of stream s, and touches no other.
LEMMA ReleasePool ==
  ASSUME IInv, IInv', NEW s \in Streams, inUse[s], ~inUse'[s], nextSession' = nextSession,
         \A r \in Streams \ {s} : inUse'[r] = inUse[r] /\ client'[r] = client[r],
         \A u \in Servers, r \in Streams \ {s} : Handles(u, r) =>
           Handles(u, r)' /\ req'[u].session = req[u].session,
         \A u \in Servers : Searching(u)' <=> Searching(u),
         \A u \in Servers : Searching(u) => req'[u].session = req[u].session
  PROVE  Pool!Release(s)
<1>1. HolderOK(s) /\ HolderOK(s)' /\ nextSession \in Nat
  BY HolderIs, HolderNext DEF HoldersOK, IInv, TypeOK
<1>2. holder[s] \in 1..(nextSession - 1) /\ holder[s] # 0 /\ holder'[s] = 0
  BY <1>1 DEF HolderOK
<1>3. ASSUME NEW r \in Streams, r # s PROVE holder'[r] = holder[r]
  BY <1>3, SameHolder
<1>4. holder' = [holder EXCEPT ![s] = 0]
  <2>1. holder = [r \in Streams |-> holder[r]] /\ holder' = [r \in Streams |-> holder'[r]]
    BY HolderIs, HolderNext DEF HoldersOK
  <2>2. \A r \in Streams : holder'[r] = [holder EXCEPT ![s] = 0][r]
    BY <1>2, <1>3, <2>1
  <2> QED BY <2>1, <2>2, Zenon
<1>5. /\ \A r \in Streams \ {s} : holder[r] # holder[s]
      /\ \A u \in Servers : Searching(u) => req[u].session # holder[s]
  BY OneStreamEach, SearcherHoldsNothing
<1>6. \A id \in 1..(nextSession - 1) :
        (\A u \in Servers : Searching(u)' => req'[u].session # id)
          <=> (\A u \in Servers : Searching(u) => req[u].session # id)
  OBVIOUS
<1>7. ASSUME NEW id \in 1..(nextSession - 1) PROVE id \in gone' <=> id \in gone \/ id = holder[s]
  <2>1. id \in gone' <=> /\ \A r \in Streams : holder'[r] # id
                         /\ \A u \in Servers : Searching(u)' => req'[u].session # id
    BY GoneNext
  <2>2. id \in gone <=> /\ \A r \in Streams : holder[r] # id
                        /\ \A u \in Servers : Searching(u) => req[u].session # id
    BY GoneIs
  <2>3. CASE id = holder[s]
    BY <1>2, <1>3, <1>5, <1>6, <2>1, <2>3
  <2>4. CASE id # holder[s]
    BY <1>2, <1>3, <1>6, <2>1, <2>2, <2>4
  <2> QED BY <2>3, <2>4
<1>8. gone' = gone \cup {holder[s]}
  <2>1. gone \subseteq 1..(nextSession - 1) /\ gone' \subseteq 1..(nextSession - 1)
    BY GoneIs, GoneNext
  <2> QED BY <1>2, <1>7, <2>1
<1> QED BY <1>2, <1>4, <1>8 DEF Pool!Release

LEMMA TeardownRequestPool ==
  ASSUME IInv, IInv', NEW t \in Servers, TeardownRequest(t)
  PROVE  \E s \in Streams : Pool!Release(s)
<1>1. /\ pc[t] \in Working /\ Reply(t) /\ Teardown(req[t].stream, req[t].clientID)
      /\ nextSession' = nextSession
  BY DEF TeardownRequest, Working
<1>2. PICK s \in Streams :
        /\ s = req[t].stream
        /\ inUse[s] /\ \A r \in Streams \ {s} : ~Handles(t, r)
  BY <1>1, AtWork
<1>3. Teardown(s, 0)
  BY <1>1, <1>2, AtWork
<1>4. ~inUse'[s] /\ \A r \in Streams \ {s} : inUse'[r] = inUse[r] /\ client'[r] = client[r]
  BY <1>3, OwnerTornDown DEF IInv
<1>5. pc'[t] = "poll" /\ \A u \in Servers \ {t} : pc'[u] = pc[u] /\ req'[u] = req[u]
  BY <1>1, ReplyThread DEF IInv
<1>6. \A u \in Servers, r \in Streams \ {s} : Handles(u, r) =>
           Handles(u, r)' /\ req'[u].session = req[u].session
  BY <1>2, <1>5 DEF Handles
<1>7. ~Searching(t) /\ ~Searching(t)'
  BY <1>1, <1>5 DEF Searching, Working
<1>8. \A u \in Servers : (Searching(u)' <=> Searching(u)) /\ (Searching(u) => req'[u].session = req[u].session)
  BY <1>5, <1>7 DEF Searching
<1> QED BY <1>1, <1>2, <1>4, <1>6, <1>8, ReleasePool

LEMMA CheckSlotPool ==
  ASSUME IInv, IInv', CheckSlot
  PROVE  Stutter \/ \E s \in Streams : Pool!Release(s)
<1> DEFINE s == idx["rtsp"]
<1>1. /\ UNCHANGED <<pc, req, nextSession>> /\ pc["rtsp"] = "check"
      /\ s \in Streams /\ slot \in Slots
  BY CheckIs
<1>2. \A u \in Servers, r \in Streams : Handles(u, r)' <=> Handles(u, r)
  BY <1>1 DEF Handles
<1>3. \A u \in Servers : Searching(u)' <=> Searching(u)
  BY <1>1 DEF Searching
<1>4. CASE slot = 0 /\ TimedOut(s, slot)
  <2>1. Teardown(s, 0) /\ inUse[s]
    BY <1>4 DEF CheckSlot
  <2>2. ~inUse'[s] /\ \A r \in Streams \ {s} : inUse'[r] = inUse[r] /\ client'[r] = client[r]
    BY <1>1, <2>1, OwnerTornDown DEF IInv
  <2> HIDE DEF s
  <2> QED BY <1>1, <1>2, <1>3, <2>1, <2>2, ReleasePool
<1>5. CASE ~(slot = 0 /\ TimedOut(s, slot))
  <2>1. UNCHANGED <<inUse, client>>
    <3>1. CASE TimedOut(s, slot)
      <4>1. Teardown(s, slot) /\ slot # 0
        BY <1>5, <3>1 DEF CheckSlot
      <4> QED BY <1>1, <4>1, OtherTornDown
    <3>2. CASE ~TimedOut(s, slot)
      BY <3>2 DEF CheckSlot, streamVars
    <3> QED BY <3>1, <3>2
  <2>2. ASSUME NEW r \in Streams PROVE holder'[r] = holder[r]
    BY <1>1, <1>2, <2>1, SameHolder
  <2> QED BY <1>1, <1>3, <2>2, SameHolders, SameGone DEF Stutter
<1> QED BY <1>4, <1>5

\* The session IDs handed out.
IDsOK == nextSession <= MaxSessions + 1

LEMMA RefusePool ==
  ASSUME IInv, IInv', IDsOK, NEW t \in Servers, ReplyNoFrontend(t)
  PROVE  Stutter \/ \E id \in 1..MaxSessions : Pool!Refuse(id)
<1>1. /\ pc[t] = "find" /\ pc'[t] = "poll" /\ UNCHANGED <<inUse, client, nextSession>>
      /\ \A u \in Servers \ {t} : pc'[u] = pc[u] /\ req'[u] = req[u]
  BY ReplyThread DEF ReplyNoFrontend, streamVars, IInv
<1>2. CASE ~req[t].newSession
  BY <1>1, <1>2, QuietPool DEF Searching
<1>3. CASE req[t].newSession
  <2> DEFINE id == req[t].session
  <2>1. /\ Searching(t) /\ ~Searching(t)' /\ id \in 1..(nextSession - 1)
        /\ \A s \in Streams : holder[s] # id
    BY <1>1, <1>3, SearcherHoldsNothing DEF Searching
  <2>2. id \in 1..MaxSessions /\ nextSession \in Nat
    BY <2>1, BoundsAssumption DEF IDsOK, IInv, TypeOK
  <2>3. ASSUME NEW s \in Streams PROVE holder'[s] = holder[s]
    <3>1. \A u \in Servers : Handles(u, s) => Handles(u, s)' /\ req'[u].session = req[u].session
      BY <1>1 DEF Handles
    <3> QED BY <1>1, <3>1, SameHolder
  <2>4. holder' = holder
    BY <2>3, SameHolders
  <2>5. \A u \in Servers \ {t} :
          /\ Searching(u)' <=> Searching(u)
          /\ Searching(u) => req'[u].session = req[u].session /\ req[u].session # id
    BY <1>1, <2>1, SearchersDiffer DEF Searching, Busy
  <2>6. ASSUME NEW i \in 1..(nextSession - 1) PROVE i \in gone' <=> i \in gone \/ i = id
    <3>1. i \in gone' <=> /\ \A r \in Streams : holder'[r] # i
                          /\ \A u \in Servers : Searching(u)' => req'[u].session # i
      BY <1>1, GoneNext
    <3>2. i \in gone <=> /\ \A r \in Streams : holder[r] # i
                         /\ \A u \in Servers : Searching(u) => req[u].session # i
      BY GoneIs
    <3>3. CASE i = id
      BY <2>1, <2>4, <2>5, <3>1, <3>3
    <3>4. CASE i # id
      <4>1. (\A u \in Servers : Searching(u)' => req'[u].session # i)
              <=> (\A u \in Servers : Searching(u) => req[u].session # i)
        BY <2>1, <2>5, <3>4
      <4> QED BY <2>4, <3>1, <3>2, <3>4, <4>1
    <3> QED BY <3>3, <3>4
  <2>7. id \notin gone
    BY <2>1, GoneIs
  <2>8. gone' = gone \cup {id}
    <3>1. gone \subseteq 1..(nextSession - 1) /\ gone' \subseteq 1..(nextSession - 1)
      BY <1>1, GoneIs, GoneNext
    <3> QED BY <2>1, <2>6, <3>1
  <2> QED BY <2>1, <2>2, <2>4, <2>7, <2>8 DEF Pool!Refuse
<1> QED BY <1>2, <1>3

\* A new session claims the stream that is found; a known one comes back to its own.
LEMMA FindPool ==
  ASSUME IInv, IInv', IDsOK, NEW t \in Servers, FindClientID(t)
  PROVE  Stutter \/ \E s \in Streams, id \in 1..MaxSessions : Pool!Claim(s, id)
<1> DEFINE id == req[t].session
<1>1. /\ pc[t] = "find" /\ pc'[t] = "setSession" /\ req[t].at <= NumStreams
      /\ FoundIn(Candidate(req[t]), req[t]) /\ nextSession' = nextSession
      /\ \A u \in Servers \ {t} : pc'[u] = pc[u] /\ req'[u] = req[u]
  BY DEF FindClientID, GoTo, IInv, TypeOK
<1>2. PICK s \in Streams :
        /\ s = Candidate(req[t]) /\ FirstOf(Matching(s, req[t])) = 0
        /\ \A u \in Servers : ~Handles(u, s)
        /\ req[t].newSession => ~inUse[s]
        /\ ~req[t].newSession => inUse[s] /\ client[s][0].session = id
  BY <1>1, FoundSlot
<1>3. /\ client' = [client EXCEPT ![s] = [client[s] EXCEPT ![0] = [client[s][0] EXCEPT !.socket = req[t].socket]]]
      /\ inUse' = [inUse EXCEPT ![s] = TRUE]
      /\ req' = [req EXCEPT ![t] = [NoRequest EXCEPT !.method = req[t].method, !.session = id,
                                                   !.stream = s, !.clientID = 0]]
  BY <1>2 DEF FindClientID
<1>4. client'[s][0].session = client[s][0].session
  <2>1. client[s][0] \in StreamClient /\ client[s] \in [Slots -> StreamClient]
    BY SlotZero DEF IInv, TypeOK
  <2>2. [client[s][0] EXCEPT !.socket = req[t].socket].session = client[s][0].session
    BY <2>1 DEF StreamClient
  <2>3. client'[s][0] = [client[s][0] EXCEPT !.socket = req[t].socket]
    BY <1>3, <2>1, SlotZero DEF IInv, TypeOK
  <2> QED BY <2>2, <2>3
<1>5. inUse'[s] /\ \A r \in Streams \ {s} : inUse'[r] = inUse[r] /\ client'[r] = client[r]
  BY <1>3 DEF IInv, TypeOK
<1>6. req'[t].session = id /\ req'[t].stream = s
  <2> DEFINE q == [NoRequest EXCEPT !.method = req[t].method, !.session = id,
                                    !.stream = s, !.clientID = 0]
  <2>1. q.session = id /\ q.stream = s
    BY Zenon DEF NoRequest
  <2>2. req'[t] = q
    BY <1>3 DEF IInv, TypeOK
  <2> QED BY <2>1, <2>2
<1>7. ASSUME NEW r \in Streams, r # s PROVE holder'[r] = holder[r]
  <2>1. \A u \in Servers : Handles(u, r) => Handles(u, r)' /\ req'[u].session = req[u].session
    BY <1>1 DEF Handles
  <2> QED BY <1>5, <1>7, <2>1, SameHolder
<1>8. holder'[s] = id
  <2>1. Handles(t, s)'
    BY <1>1, <1>6 DEF Handles
  <2> QED BY <1>6, <2>1, HolderNext DEF HoldersOK, HolderOK
<1>9. /\ ~Searching(t)'
      /\ \A u \in Servers \ {t} :
           /\ Searching(u)' <=> Searching(u)
           /\ Searching(u) => req'[u].session = req[u].session
  BY <1>1 DEF Searching
<1>10. CASE ~req[t].newSession
  <2>1. holder[s] = id
    BY <1>2, <1>10, RequestSession, HolderIs, <1>1 DEF HoldersOK, HolderOK, Busy
  <2>2. holder' = holder
    BY <1>7, <1>8, <2>1, SameHolders
  <2>3. ~Searching(t)
    BY <1>10 DEF Searching
  <2> QED BY <1>1, <1>9, <2>2, <2>3, SameGone DEF Stutter
<1>11. CASE req[t].newSession
  <2>1. /\ Searching(t) /\ id \in 1..(nextSession - 1) /\ nextSession \in Nat
        /\ \A r \in Streams : holder[r] # id
    BY <1>1, <1>11, SearcherHoldsNothing DEF Searching, IInv, TypeOK
  <2>2. id \in 1..MaxSessions
    BY <2>1, BoundsAssumption DEF IDsOK
  <2>3. holder[s] = 0
    BY <1>2, <1>11, HolderIs DEF HoldersOK, HolderOK
  <2>4. holder' = [holder EXCEPT ![s] = id]
    <3>1. holder = [r \in Streams |-> holder[r]] /\ holder' = [r \in Streams |-> holder'[r]]
      BY HolderIs, HolderNext DEF HoldersOK
    <3>2. \A r \in Streams : holder'[r] = [holder EXCEPT ![s] = id][r]
      BY <1>7, <1>8, <3>1
    <3> QED BY <3>1, <3>2, Zenon
  <2>5. id \notin gone
    BY <2>1, GoneIs
  <2>6. \A u \in Servers \ {t} : Searching(u) => req[u].session # id
    BY <1>1, SearchersDiffer DEF Searching, Busy
  <2>7. ASSUME NEW i \in 1..(nextSession - 1) PROVE i \in gone' <=> i \in gone
    <3>1. i \in gone' <=> /\ \A r \in Streams : holder'[r] # i
                          /\ \A u \in Servers : Searching(u)' => req'[u].session # i
      BY <1>1, GoneNext
    <3>2. i \in gone <=> /\ \A r \in Streams : holder[r] # i
                         /\ \A u \in Servers : Searching(u) => req[u].session # i
      BY GoneIs
    <3>3. CASE i = id
      BY <1>8, <2>5, <3>1, <3>3
    <3>4. CASE i # id
      <4>1. (\A u \in Servers : Searching(u)' => req'[u].session # i)
              <=> (\A u \in Servers : Searching(u) => req[u].session # i)
        BY <1>9, <2>1, <3>4
      <4>2. (\A r \in Streams : holder'[r] # i) <=> (\A r \in Streams : holder[r] # i)
        BY <1>7, <1>8, <2>3, <3>4
      <4> QED BY <3>1, <3>2, <4>1, <4>2
    <3> QED BY <3>3, <3>4
  <2>8. gone' = gone
    <3>1. gone \subseteq 1..(nextSession - 1) /\ gone' \subseteq 1..(nextSession - 1)
      BY <1>1, GoneIs, GoneNext
    <3> QED BY <2>7, <3>1
  <2> QED BY <2>1, <2>2, <2>3, <2>4, <2>5, <2>8 DEF Pool!Claim
<1> QED BY <1>10, <1>11

LEMMA PoolStep ==
  IInv /\ IInv' /\ IDsOK /\ [Next]_vars => [Pool!Next]_Pool!poolVars
<1> SUFFICES ASSUME IInv, IInv', IDsOK, [Next]_vars PROVE Pool!Next \/ Stutter
  BY DEF Stutter, Pool!poolVars
<1>1. "rtsp" \in Servers /\ "http" \in Servers
  BY DEF Servers
<1>2. ASSUME NEW t \in Servers, PollStep(t) PROVE Stutter
  BY <1>2, PollPool, RequestPool DEF PollStep
<1>3. ASSUME NEW t \in Servers, HandleStep(t) PROVE Pool!Next \/ Stutter
  <2>1. CASE FindClientID(t)
    BY <2>1, FindPool DEF Pool!Next
  <2>2. CASE ReplyNoFrontend(t)
    BY <2>2, RefusePool DEF Pool!Next
  <2>3. CASE TeardownRequest(t)
    BY <2>3, TeardownRequestPool DEF Pool!Next
  <2> QED BY <1>3, <2>1, <2>2, <2>3, SetSessionPool, StreamPool DEF HandleStep
<1>4. CASE RtspStep
  <2>1. CASE CheckSlot
    BY <2>1, CheckSlotPool DEF Pool!Next
  <2>2. CASE SessionRequest \/ SkipStream \/ CheckDone
    BY <1>1, <2>2, RequestPool, PollPool
  <2> QED BY <1>1, <1>2, <1>3, <1>4, <2>1, <2>2 DEF RtspStep
<1>5. CASE HttpStep
  BY <1>1, <1>2, <1>3, <1>5, PollPool DEF HttpStep
<1>6. CASE Environment
  BY <1>6, WatchdogPool DEF Environment
<1>7. CASE UNCHANGED vars
  <2>1. UNCHANGED <<inUse, client, pc, req, nextSession>>
    BY <1>7 DEF vars, streamVars, serverVars
  <2>2. ASSUME NEW s \in Streams PROVE holder'[s] = holder[s]
    <3>1. \A u \in Servers : Handles(u, s)' <=> Handles(u, s)
      BY <2>1 DEF Handles
    <3> QED BY <2>1, <3>1, SameHolder
  <2>3. \A u \in Servers : Searching(u)' <=> Searching(u)
    BY <2>1 DEF Searching
  <2> QED BY <2>1, <2>2, <2>3, SameHolders, SameGone DEF Stutter
<1> QED BY <1>4, <1>5, <1>6, <1>7 DEF Next

LEMMA IDsStep == IInv /\ IDsOK /\ [Next]_vars => IDsOK'
<1> SUFFICES ASSUME IInv, IDsOK, [Next]_vars PROVE IDsOK'
  BY ZenonT(60)
<1>1. nextSession' = nextSession \/ (nextSession <= MaxSessions /\ nextSession' = nextSession + 1)
  BY DEF Next, RtspStep, HttpStep, Environment, PollStep, HandleStep, PollQuiet, Accept,
     CloseConnection, OpenRequest, PollReturns, SessionRequest, FindClientID, TryNextStream,
     ReplyNoFrontend, SetSessionID, ProcessRequest, UpdateSucceeds, UpdateFails, AnswerOnly,
     TeardownRequest, CheckSlot, SkipStream, CheckDone, GetStatus, PostEnable, WatchdogExpires,
     StreamWriteFails, vars
<1> QED BY <1>1, BoundsAssumption DEF IDsOK, IInv, TypeOK

LEMMA PoolInit == Init => Pool!Init /\ IDsOK
<1> SUFFICES ASSUME Init PROVE Pool!Init /\ IDsOK
  OBVIOUS
<1>1. IDsOK
  BY BoundsAssumption DEF Init, IDsOK
<1>2. holder = [s \in Streams |-> 0]
  BY DEF Init, holder
<1>3. gone = {}
  BY DEF Init, gone
<1> QED BY <1>1, <1>2, <1>3 DEF Pool!Init

\* The server keeps the promise of TunerPool: a tuner goes to a session only while it is
\* free, to one session at a time, and a session that ended never holds one again.
THEOREM ImplementsPool == Spec => PoolSpec
<1>1. Spec => [](IInv /\ IDsOK)
  BY InitInv, NextInv, PoolInit, IDsStep, PTL DEF Spec
<1> QED BY <1>1, PoolInit, PoolStep, PTL DEF Spec, PoolSpec, Pool!Spec
=============================================================================
