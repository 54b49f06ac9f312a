------------------------------ MODULE DeviceIds ------------------------------
(***************************************************************************)
(* The device IDs of several SatPI servers on one network, which           *)
(* upnp::ssdp::Server compares with those that the others announce: who    *)
(* hears its own ID tells the announcer, and that one takes the next ID.   *)
(* Module SsdpServer has the rest of the server; here all servers run,     *)
(* announce themselves for ever, and begin with whatever their files hold. *)
(*                                                                         *)
(* All announce with the same period, in whole seconds, so two servers     *)
(* whose announcements cross once may cross every time: nothing bounds it. *)
(*                                                                         *)
(* Abstracted: the byebye and the boot ID that follow a new device ID,     *)
(* during which the server sees to no message.                             *)
(***************************************************************************)
EXTENDS Integers, FiniteSets

CONSTANTS
  Peers,
  DeviceMod,   \* the numbers of a std::size_t
  MaxInFlight  \* bound: messages on their way at once

ASSUME DeviceIdsAssumption ==
  /\ IsFiniteSet(Peers) /\ DeviceMod \in Nat /\ DeviceMod >= Cardinality(Peers)
  /\ MaxInFlight \in Nat /\ MaxInFlight >= Cardinality(Peers)

VARIABLES
  ownID,       \* _deviceID
  inFlight,    \* messages on their way
  disturbed    \* history: the last step was a message lost, or an announcement that crosses others

deviceIdsVars == <<ownID, inFlight, disturbed>>

DeviceIDs == 0..DeviceMod-1

\* "alive" is the NOTIFY, "contact" the M-SEARCH with a device ID, sent to one server.
DeviceMessages == [kind : {"alive", "contact"}, from : Peers, to : Peers, device : DeviceIDs]

DeviceIdsTypeOK ==
  /\ ownID \in [Peers -> DeviceIDs] /\ inFlight \subseteq DeviceMessages /\ disturbed \in BOOLEAN

DeviceIdsInit == ownID \in [Peers -> DeviceIDs] /\ inFlight = {} /\ disturbed = FALSE

\* sendAnnounce(), every _announceTimeSec seconds
AnnounceID(s) ==
  /\ disturbed' = (inFlight # {})
  /\ inFlight' = inFlight \cup [kind : {"alive"}, from : {s}, to : Peers \ {s}, device : {ownID[s]}]
  /\ Cardinality(inFlight') <= MaxInFlight
  /\ UNCHANGED ownID

\* Mutant: a message of another server is taken for one of its own.
HearID_ToItself(m) ==
  /\ m \in inFlight /\ m.kind = "alive"
  /\ inFlight' = inFlight \ {m} /\ disturbed' = FALSE
  /\ UNCHANGED ownID

\* checkReply() of a NOTIFY, and checkDefendDeviceID()
HearID(m) ==
  /\ m \in inFlight /\ m.kind = "alive"
  /\ inFlight' = (inFlight \ {m}) \cup
       (IF m.device = ownID[m.to]
        THEN {[kind |-> "contact", from |-> m.to, to |-> m.from, device |-> ownID[m.to]]}
        ELSE {})
  /\ disturbed' = FALSE /\ UNCHANGED ownID

\* checkReply() of an M-SEARCH with a device ID, whichever; incrementDeviceID()
HearDefence(m) ==
  /\ m \in inFlight /\ m.kind = "contact"
  /\ inFlight' = inFlight \ {m} /\ disturbed' = FALSE
  /\ ownID' = [ownID EXCEPT ![m.to] = (@ + 1) % DeviceMod]

\* The network
LoseNotice(m) ==
  /\ m \in inFlight /\ inFlight' = inFlight \ {m}
  /\ disturbed' = TRUE /\ UNCHANGED ownID

Hear == \E m \in inFlight : HearID(m) \/ HearDefence(m)

DeviceIdsNext ==
  \/ \E s \in Peers : AnnounceID(s)
  \/ \E m \in inFlight : HearID(m) \/ HearDefence(m) \/ LoseNotice(m)

\* The loop of each server sees to the messages, and announces it when it is time: strong
\* fairness, for the bound on the messages may forbid it for a while.
DeviceIdsFairness ==
  WF_deviceIdsVars(Hear) /\ \A s \in Peers : SF_deviceIdsVars(AnnounceID(s))

DeviceIdsSpec == DeviceIdsInit /\ [][DeviceIdsNext]_deviceIdsVars /\ DeviceIdsFairness

-----------------------------------------------------------------------------

AllDiffer == \A s, t \in Peers : ownID[s] = ownID[t] => s = t

\* Whatever the servers begin with, they come to have different device IDs for good, if there
\* comes a time from which no message is lost and no announcement crosses another message.
DevicesDiffer == <>[]~disturbed => <>[]AllDiffer
=============================================================================
