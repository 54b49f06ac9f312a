---------------------------- MODULE DvbApiClient ----------------------------
(***************************************************************************)
(* decrypt::dvbapi::Client and the OSCam server: the connection that the   *)
(* client thread keeps, and the list of the channels that OSCam decrypts.  *)
(* The streaming threads add their channel to the list and send the whole  *)
(* list anew, one CAPMT after the other, without a lock; a server thread   *)
(* stops a channel; the web interface may switch the client off at any     *)
(* time; OSCam may close the connection, be gone or answer late.           *)
(*                                                                         *)
(* OSCam is external: what it does with a list is what the comments on the *)
(* LIST_ constants in Client.cpp say.  Abstracted: the content of a CAPMT, *)
(* and the messages with filters and keys (PidFilters and PacketRing have  *)
(* what those change).                                                     *)
(***************************************************************************)
EXTENDS Integers, FiniteSets

CONSTANTS
  Channels,    \* the frontends' indexes, by which _capmtMap is sorted
  MaxTrouble   \* bound: failed sends, connections closed by OSCam, times switched off

ASSUME DvbApiAssumption ==
  Channels \subseteq Nat /\ IsFiniteSet(Channels) /\ MaxTrouble \in Nat

VARIABLES
  enabled, connected,  \* _enabled, _connected
  fd,                  \* the socket is open
  link,                \* it is connected to OSCam
  asked, answered,     \* on this connection: SERVER_INFO may come, and has come
  pfd,                 \* poll() has a descriptor to look at
  waiting,             \* retryTime is not over
  client,              \* where the client thread is
  pmt,                 \* PMT of each channel: none, collected (with the SDT), sent
  capmt,               \* the keys of _capmtMap
  cursor, count,       \* sendPMT() of each channel: the last key sent and how many
  list, working,       \* OSCam: the list it receives, the list it works with
  up,                  \* OSCam runs
  trouble,
  unstopped,           \* history: channels whose stopDecrypt() failed
  trust                \* history: yes after a list that nothing came into, until trouble

connectionVars == <<enabled, connected, fd, link, asked, answered, pfd, waiting, client, up>>
channelVars == <<pmt, capmt, cursor, count, unstopped>>
oscamVars == <<list, working>>
dvbapiVars == <<connectionVars, channelVars, oscamVars, trouble, trust>>

Idle == -2   \* cursor of a channel outside sendPMT()
Sending == {c \in Channels : cursor[c] # Idle}

DvbApiTypeOK ==
  /\ enabled \in BOOLEAN /\ connected \in BOOLEAN /\ up \in BOOLEAN
  /\ fd \in BOOLEAN /\ link \in BOOLEAN /\ asked \in BOOLEAN /\ answered \in BOOLEAN
  /\ pfd \in BOOLEAN /\ waiting \in BOOLEAN
  /\ client \in {"loop", "connect", "poll", "info"}
  /\ pmt \in [Channels -> {"none", "collected", "sent"}]
  /\ capmt \subseteq Channels /\ unstopped \subseteq Channels
  /\ cursor \in [Channels -> Channels \cup {-1, Idle}]
  /\ count \in [Channels -> Nat]
  /\ list \subseteq Channels /\ working \subseteq Channels
  /\ trouble \in 0..MaxTrouble /\ trust \in {"no", "sending", "yes"}

\* restoreXML() has switched the client on.
DvbApiInit ==
  /\ enabled = TRUE /\ connected = FALSE /\ fd = FALSE /\ link = FALSE
  /\ asked = FALSE /\ answered = FALSE /\ pfd = FALSE /\ waiting = TRUE /\ up = TRUE
  /\ client = "loop"
  /\ pmt = [c \in Channels |-> "none"] /\ capmt = {} /\ unstopped = {}
  /\ cursor = [c \in Channels |-> Idle] /\ count = [c \in Channels |-> 0]
  /\ list = {} /\ working = {}
  /\ trouble = 0 /\ trust = "no"

Trouble == trouble < MaxTrouble /\ trouble' = trouble + 1

\* What came into the sending of the list, if there is one.
Disturbed == IF trust = "sending" THEN "no" ELSE trust

-----------------------------------------------------------------------------
(* The client thread *)

\* The top of the loop; _enabled is read before the connection is made.
Loop ==
  /\ client = "loop"
  /\ \/ /\ connected \/ ~enabled \/ waiting
        /\ client' = "poll"
     \/ /\ ~connected /\ enabled /\ ~waiting
        /\ client' = "connect"
  /\ pfd' = (pfd /\ connected)
  /\ UNCHANGED <<enabled, connected, fd, link, asked, answered, waiting, up,
                 channelVars, oscamVars, trouble, trust>>

RetryTime ==
  /\ waiting /\ waiting' = FALSE
  /\ UNCHANGED <<enabled, connected, fd, link, asked, answered, pfd, client, up,
                 channelVars, oscamVars, trouble, trust>>

\* Mutant: the socket stays open when it could not be connected.
Connect_StaysOpen ==
  /\ client = "connect" /\ client' = "poll"
  /\ IF ~fd /\ up
     THEN /\ fd' = TRUE /\ link' = TRUE /\ pfd' = TRUE /\ asked' = TRUE
          /\ UNCHANGED waiting
     ELSE /\ fd' = TRUE /\ link' = FALSE /\ asked' = FALSE /\ waiting' = TRUE
          /\ UNCHANGED pfd
  /\ answered' = FALSE
  /\ list' = {} /\ working' = {} /\ trust' = "no"
  /\ UNCHANGED <<enabled, connected, up, channelVars, trouble>>

\* initClientSocket() and sendClientInfo(): on a socket that is open already, because OSCam
\* did not answer within one poll(), connect() fails, and the socket is closed.
Connect ==
  /\ client = "connect" /\ client' = "poll"
  /\ IF ~fd /\ up
     THEN /\ fd' = TRUE /\ link' = TRUE /\ pfd' = TRUE /\ asked' = TRUE
          /\ UNCHANGED waiting
     ELSE /\ fd' = FALSE /\ link' = FALSE /\ asked' = FALSE /\ waiting' = TRUE
          /\ UNCHANGED pfd
  /\ answered' = FALSE
  /\ list' = {} /\ working' = {} /\ trust' = "no"
  /\ UNCHANGED <<enabled, connected, up, channelVars, trouble>>

\* poll() reports an answer, the end of the connection, or that the descriptor was closed.
Reported == pfd /\ (answered \/ ~fd \/ ~link)

PollTimeout ==
  /\ client = "poll" /\ ~Reported /\ client' = "loop"
  /\ UNCHANGED <<enabled, connected, fd, link, asked, answered, pfd, waiting, up,
                 channelVars, oscamVars, trouble, trust>>

\* recvDatafrom() returns the server info.
Receive ==
  /\ client = "poll" /\ Reported /\ fd /\ answered
  /\ client' = "info" /\ answered' = FALSE
  /\ UNCHANGED <<enabled, connected, fd, link, asked, pfd, waiting, up,
                 channelVars, oscamVars, trouble, trust>>

\* It returns nothing: the connection is lost.
ConnectionLost ==
  /\ client = "poll" /\ Reported /\ ~(fd /\ answered)
  /\ client' = "loop" /\ connected' = FALSE
  /\ fd' = FALSE /\ link' = FALSE /\ asked' = FALSE /\ answered' = FALSE /\ pfd' = FALSE
  /\ list' = {} /\ working' = {} /\ trust' = "no"
  /\ UNCHANGED <<enabled, waiting, up, channelVars, trouble>>

\* DVBAPI_SERVER_INFO; the web interface may have closed the socket in between.
ServerInfo ==
  /\ client = "info" /\ client' = "loop" /\ connected' = TRUE
  /\ UNCHANGED <<enabled, fd, link, asked, answered, pfd, waiting, up,
                 channelVars, oscamVars, trouble, trust>>

-----------------------------------------------------------------------------
(* OSCam and the web interface *)

Answer ==
  /\ fd /\ link /\ up /\ asked
  /\ asked' = FALSE /\ answered' = TRUE
  /\ UNCHANGED <<enabled, connected, fd, link, pfd, waiting, client, up,
                 channelVars, oscamVars, trouble, trust>>

\* OSCam ends or closes the connection, and forgets its list.
OSCamCloses ==
  /\ Trouble
  /\ link' = FALSE /\ asked' = FALSE /\ up' \in BOOLEAN
  /\ list' = {} /\ working' = {} /\ trust' = "no"
  /\ UNCHANGED <<enabled, connected, fd, answered, pfd, waiting, client, channelVars>>

OSCamStarts ==
  /\ ~up /\ up' = TRUE
  /\ UNCHANGED <<enabled, connected, fd, link, asked, answered, pfd, waiting, client,
                 channelVars, oscamVars, trouble, trust>>

\* Client::doFromXML() with OSCamEnabled false.
Disable ==
  /\ Trouble
  /\ enabled' = FALSE /\ connected' = FALSE
  /\ fd' = FALSE /\ link' = FALSE /\ asked' = FALSE /\ answered' = FALSE
  /\ list' = {} /\ working' = {} /\ trust' = "no"
  /\ UNCHANGED <<pfd, waiting, client, up, channelVars>>

\* The same with true.
Enable ==
  /\ ~enabled /\ enabled' = TRUE
  /\ UNCHANGED <<connected, fd, link, asked, answered, pfd, waiting, client, up,
                 channelVars, oscamVars, trouble, trust>>

-----------------------------------------------------------------------------
(* The channels *)

\* A stream plays the channel, and its PMT and SDT are collected.
ChannelStarts(c) ==
  /\ pmt[c] = "none" /\ pmt' = [pmt EXCEPT ![c] = "collected"]
  /\ UNCHANGED <<connectionVars, capmt, cursor, count, unstopped, oscamVars, trouble, trust>>

\* sendPMT(), called by decrypt() with every packet of the PMT: once, by isReadySend().
SendPMT(c) ==
  /\ connected /\ enabled /\ pmt[c] = "collected"
  /\ pmt' = [pmt EXCEPT ![c] = "sent"]
  /\ capmt' = capmt \cup {c} /\ unstopped' = unstopped \ {c}
  /\ cursor' = [cursor EXCEPT ![c] = -1] /\ count' = [count EXCEPT ![c] = 0]
  /\ trust' = IF Sending = {} THEN "sending" ELSE "no"
  /\ UNCHANGED <<connectionVars, oscamVars, trouble>>

\* The entries of the map that the loop has not come to.
Left(c) == {k \in capmt : k > cursor[c]}

\* Mutant: a list of one entry is begun and never ended.
Management_NoOnly(n) ==
  IF n = 0 THEN "first" ELSE IF n + 1 = Cardinality(capmt) THEN "last" ELSE "more"

\* The list management of the entry after n others, by the size of the map.
Management(n) ==
  IF n = 0 THEN IF Cardinality(capmt) = 1 THEN "only" ELSE "first"
  ELSE IF n + 1 = Cardinality(capmt) THEN "last" ELSE "more"

\* OSCam receives entry k.
Receives(k, management) ==
  /\ list' = IF management \in {"only", "first"} THEN {k} ELSE list \cup {k}
  /\ working' = IF management \in {"only", "last"} THEN list' ELSE working

\* send() fails, also on a socket that is closed or was closed by OSCam.
Fails == (~link /\ UNCHANGED trouble) \/ (link /\ Trouble)

SendEntry(c) ==
  \E k \in Left(c) :
    /\ c \in Sending /\ \A j \in Left(c) : k <= j
    /\ cursor' = [cursor EXCEPT ![c] = k] /\ count' = [count EXCEPT ![c] = @ + 1]
    /\ \/ /\ link /\ Receives(k, Management(count[c]))
          /\ UNCHANGED <<trouble, trust>>
       \/ /\ Fails
          /\ trust' = "no"
          /\ UNCHANGED oscamVars
    /\ UNCHANGED <<connectionVars, pmt, capmt, unstopped>>

SendDone(c) ==
  /\ c \in Sending /\ Left(c) = {}
  /\ cursor' = [cursor EXCEPT ![c] = Idle] /\ count' = [count EXCEPT ![c] = 0]
  /\ trust' = IF trust = "sending" THEN "yes" ELSE trust
  /\ UNCHANGED <<connectionVars, pmt, capmt, unstopped, oscamVars, trouble>>

\* stopDecrypt(), when the stream is paused or ends; the streaming thread is not in
\* sendPMT() then.
StopDecrypt(c) ==
  /\ pmt[c] # "none" /\ c \notin Sending
  /\ pmt' = [pmt EXCEPT ![c] = "none"]
  /\ \/ /\ connected /\ link
        /\ list' = list \ {c} /\ working' = working \ {c}
        /\ capmt' = capmt \ {c} /\ trust' = Disturbed
        /\ UNCHANGED <<unstopped, trouble>>
     \/ /\ connected /\ Fails
        /\ unstopped' = unstopped \cup (capmt \cap {c})
        /\ UNCHANGED <<capmt, oscamVars, trust>>
     \/ /\ ~connected
        /\ capmt' = capmt \ {c}
        /\ UNCHANGED <<unstopped, oscamVars, trouble, trust>>
  /\ UNCHANGED <<connectionVars, cursor, count>>

ClientStep == Loop \/ Connect \/ PollTimeout \/ Receive \/ ConnectionLost \/ ServerInfo

DvbApiNext ==
  \/ ClientStep \/ RetryTime \/ Answer \/ OSCamCloses \/ OSCamStarts \/ Disable \/ Enable
  \/ \E c \in Channels : ChannelStarts(c) \/ SendPMT(c) \/ SendEntry(c) \/ SendDone(c)
                         \/ StopDecrypt(c)

\* The client thread runs, time passes, and OSCam, when it was closed, is started again.
\* Of the answers that OSCam may give, infinitely many come while the client polls.
DvbApiFairness ==
  /\ WF_dvbapiVars(ClientStep) /\ WF_dvbapiVars(RetryTime) /\ WF_dvbapiVars(OSCamStarts)
  /\ SF_dvbapiVars(Answer /\ client = "poll")

DvbApiSpec == DvbApiInit /\ [][DvbApiNext]_dvbapiVars /\ DvbApiFairness

-----------------------------------------------------------------------------

\* After a list that was sent without a failure and without another thread coming in, and
\* until the next trouble, OSCam works with the channels of _capmtMap and no other: the list
\* management of the entries makes the old list be replaced as a whole.
OSCamHasTheList == trust = "yes" => working = capmt

\* _capmtMap has the channels whose PMT was sent, and of the others at most those whose
\* stopDecrypt() failed.
MapIsRight ==
  /\ {c \in Channels : pmt[c] = "sent"} \subseteq capmt
  /\ capmt \subseteq {c \in Channels : pmt[c] = "sent"} \cup unstopped

\* What a list that nothing came into has come to, when s is the channel that sends it.
Sent(c) == {k \in capmt : k <= cursor[c]}

Progress(s) ==
  /\ Sending = {s} /\ count[s] = Cardinality(Sent(s))
  /\ (Sent(s) # {} => list = Sent(s))
  /\ (Left(s) = {} => working = capmt)

\* The inductive invariant.
SendingInv ==
  /\ \A c \in Sending : pmt[c] = "sent" /\ c \in capmt
  /\ (trust # "no" => connected)
  /\ (trust = "yes" => Sending = {})
  /\ (trust = "sending" => \E s \in Sending : Progress(s))

DvbApiInv == DvbApiTypeOK /\ MapIsRight /\ SendingInv /\ OSCamHasTheList

\* What the client comes to while it is switched on.
InTouch == (connected /\ fd /\ link) \/ ~enabled
=============================================================================
