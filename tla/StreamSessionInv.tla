--------------------------- MODULE StreamSessionInv ---------------------------
(***************************************************************************)
(* The inductive invariant of StreamSession: what holds of each server     *)
(* thread, of each Stream, and of the session IDs in all of them.          *)
(***************************************************************************)
EXTENDS StreamSession

Working == {"setSession", "process", "method", "failed"}
Busy == Working \cup {"find"}

\* What a server thread that handles a request knows of itself.  Only the RTSP thread
\* checks timeouts and gives up after a failed update, and only its clients know IDs.
ThreadOK(t) ==
  /\ pc[t] \in {"failed", "check"} => t = "rtsp"
  /\ pc[t] = "check" => idx[t] # 0
  /\ pc[t] \in Busy =>
       /\ idx[t] \in 1..MAX_SOCKETS
       /\ fd[t][idx[t] - 1] # 0
       /\ req[t].session \in 1..(nextSession - 1)
       /\ req[t].method \in Methods[t]
       /\ (req[t].session \in issued) <=> (t = "rtsp")
  /\ pc[t] = "find" =>
       /\ req[t].socket = [server |-> t, index |-> idx[t] - 1]
       /\ req[t].newSession \/ t = "rtsp"
       /\ req[t].at = 0 => req[t].fe # 0
  /\ pc[t] \in Working => req[t].stream \in Streams /\ req[t].clientID = 0

ThreadInv == \A t \in Servers : ThreadOK(t)

-----------------------------------------------------------------------------
\* FreeStreamIsIdle and OwnerSlotOnly of one stream.
SlotsOK(s) ==
  /\ ~inUse[s] =>
       /\ client[s][0] = FreeClient
       /\ streaming[s] = "none" /\ ~active[s] /\ type[s] = "NONE"
       /\ device[s] = ClosedDevice
  /\ \A i \in Slots \ {0} : client[s][i] = FreeClient
  /\ inUse[s] /\ ~Handled(s) => client[s][0].session # 0 /\ client[s][0].watchdog # "off"
  /\ client[s][0].session < nextSession
  /\ client[s][0].check = "FILE_DESCRIPTOR" => client[s][0].socket.server # "none"

\* The stream that thread t works on is in use, by the session of the request or, until
\* that is stored, by no session.  The HTTP thread only opens sessions: its stream does
\* not stream yet, and nothing makes the timeout check of the RTSP thread end it.
HandledOK(t, s) ==
  Handles(t, s) =>
    /\ inUse[s]
    /\ client[s][0].socket.server # "none"
    /\ \/ client[s][0].session = req[t].session
       \/ (pc[t] = "setSession" /\ client[s][0].session = 0)
    /\ pc[t] \in {"method", "failed"} => client[s][0].watchdog # "off"
    /\ t = "http" =>
         /\ enabled[s]
         /\ streaming[s] = "none" /\ ~active[s]
         /\ client[s][0].watchdog \in {"off", "armed"}
         /\ client[s][0].socket = [server |-> "http", index |-> idx["http"] - 1]

\* Thread t is about to set up the device of stream s, or to tear it down since that
\* failed.
Tuning(t, s) ==
  Handles(t, s) /\ (pc[t] = "failed" \/ (pc[t] = "method" /\ ParsesParameters(req[t])))

\* The streaming thread and the device: data that changed while there is a streaming
\* object, and a pause, wait for the thread that is tuning.
StreamingOK(s) ==
  /\ Started(s) => active[s]
  /\ streaming[s] = "running" => device[s].open /\ ~device[s].changed
  /\ device[s].changed /\ streaming[s] # "none" =>
       \E t \in Servers : Tuning(t, s) /\ pc[t] = "method"
  /\ streaming[s] = "paused" =>
       \E t \in Servers : Tuning(t, s) /\ (pc[t] = "failed" \/ device[s].changed)

StreamOK(s) ==
  /\ SlotsOK(s)
  /\ \A t \in Servers : HandledOK(t, s)
  /\ ~(Handles("rtsp", s) /\ Handles("http", s))
  /\ StreamingOK(s)

StreamInv == \A s \in Streams : StreamOK(s)

-----------------------------------------------------------------------------
\* An ID is in one stream at most, and one that a thread is about to store is in no
\* other stream.
SessionInv ==
  /\ issued \subseteq 1..(nextSession - 1)
  /\ \A s, r \in Streams :
       client[s][0].session # 0 /\ client[s][0].session = client[r][0].session => s = r
  /\ \A t \in Servers, s \in Streams :
       /\ pc[t] = "setSession" /\ client[s][0].session = req[t].session => s = req[t].stream
       /\ pc[t] = "find" /\ req[t].newSession => client[s][0].session # req[t].session

IInv == TypeOK /\ ThreadInv /\ StreamInv /\ SessionInv
=============================================================================
