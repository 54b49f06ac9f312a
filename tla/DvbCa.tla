--------------------------------- MODULE DvbCa ---------------------------------
(***************************************************************************)
(* DVBCA: the thread that talks to the CI module in the slot of an         *)
(* adapter.  The module opens a session for each resource of the host that *)
(* it wants to use; on these sessions the host asks what the module is,    *)
(* tells it the time, and sends it the CA_PMT of the channel.              *)
(*                                                                         *)
(* Abstracted: a message is its tag, its session number and its content;   *)
(* the PMT and time tables that come through the FIFO are events.  The     *)
(* module (the device) is external.  ENIGMA builds and the code that is    *)
(* commented out are left out.                                             *)
(***************************************************************************)
EXTENDS Integers, Sequences, FiniteSets

CONSTANTS
  Resources,     \* that the module asks for
  MaxSessions,   \* MAX_SESSIONS
  MaxOnTheWay,   \* bound: messages that are on the way, each way
  MaxLost        \* bound: messages that could not be written

ASSUME DvbCaAssumption ==
  /\ Resources \subseteq {"resource_manager", "application_manager", "ca_manager", "date_time",
                          "mmi_manager", "authentication", "host_controler"}
  /\ MaxSessions \in Nat \ {0} /\ MaxOnTheWay \in Nat /\ MaxLost \in Nat

VARIABLES
  sessions,      \* _sessions: of each number the resource
  caConnected, timeDateInterval, repeatTime,   \* the last two: not 0
  host,          \* the program runs; an array was overrun; or it has ended
  toHost, toModule,
  moduleSessions,        \* the sessions that the module has
  closes,        \* history: the module has closed a session
  lostPdus

hostCaVars == <<sessions, caConnected, timeDateInterval, repeatTime, host>>
dvbCaVars == <<hostCaVars, toHost, toModule, moduleSessions, closes, lostPdus>>

None == "none"
SessionNBs == 1..MaxSessions

SPDU(tag, nb, content) == [tag |-> tag, nb |-> nb, content |-> content]
APDU(nb, content) == SPDU("SESSION_NUMBER", nb, content)

\* The resource that an APDU of the host is for
ResourceOf ==
  [PROFILE_ENQUIRY |-> "resource_manager", PROFILE |-> "resource_manager",
   PROFILE_CHANGE |-> "resource_manager", APPLICATION_INFO_ENQUIRY |-> "application_manager",
   CA_INFO_ENQUIRY |-> "ca_manager", CA_PMT |-> "ca_manager", DATE_TIME |-> "date_time",
   MMI_DISPLAY_REPLY |-> "mmi_manager"]

-----------------------------------------------------------------------------
(* What the host does with a message: the sessions after it, and the messages it writes *)

Result(ss, out) == [sessions |-> ss, out |-> out]

\* The first number, of those of the resource; 0: there is none.
findSessionNumberForRecource(resource) ==
  LET found == {n \in SessionNBs : sessions[n] = resource} IN
  IF found = {} THEN 0 ELSE CHOOSE n \in found : \A m \in found : n <= m

\* Mutant: when there are no more sessions the last one is given away again.
createSessionFor_Last(resource) ==
  LET free == findSessionNumberForRecource(None) IN IF free = 0 THEN MaxSessions ELSE free

createSessionFor(resource) == findSessionNumberForRecource(None)

\* What a new session begins with
Enquiry(resource, nb) ==
  CASE nb = 0 -> <<>>
    [] nb # 0 /\ resource = "resource_manager" -> <<APDU(nb, "PROFILE_ENQUIRY")>>
    [] nb # 0 /\ resource = "application_manager" -> <<APDU(nb, "APPLICATION_INFO_ENQUIRY")>>
    [] nb # 0 /\ resource = "ca_manager" -> <<APDU(nb, "CA_INFO_ENQUIRY")>>
    [] nb # 0 /\ resource \in {"date_time", "mmi_manager"} -> <<>>

\* The module waits in vain for two of the resources; number 0 says that there are no more.
openSessionRequest(resource) ==
  LET nb == createSessionFor(resource) IN
  IF resource \in {"authentication", "host_controler"} THEN Result(sessions, <<>>)
  ELSE Result([n \in SessionNBs |-> IF n = nb THEN resource ELSE sessions[n]],
            <<SPDU("OPEN_SESSION_RESPONSE", nb, resource)>> \o Enquiry(resource, nb))

\* clearSessionFor() takes the number for the index: the session behind is cleared.
closeSessionRequest(nb) ==
  Result([n \in SessionNBs |-> IF n = nb + 1 THEN None ELSE sessions[n]],
       <<SPDU("CLOSE_SESSION_RESPONSE", nb, None)>>)

parseAPDUTag(nb, content) ==
  Result(sessions,
       CASE content = "PROFILE" -> <<APDU(nb, "PROFILE_CHANGE")>>
         [] content = "PROFILE_ENQUIRY" -> <<APDU(nb, "PROFILE")>>
         [] content = "MMI_DISPLAY_CONTROL" -> <<APDU(nb, "MMI_DISPLAY_REPLY")>>
         [] OTHER -> <<>>)

Handled(m) ==
  CASE m.tag = "OPEN_SESSION_REQUEST" -> openSessionRequest(m.content)
    [] m.tag = "CLOSE_SESSION_REQUEST" -> closeSessionRequest(m.nb)
    [] m.tag = "SESSION_NUMBER" -> parseAPDUTag(m.nb, m.content)

-----------------------------------------------------------------------------

DvbCaTypeOK ==
  /\ sessions \in [SessionNBs -> Resources \cup {None}]
  /\ caConnected \in BOOLEAN /\ timeDateInterval \in BOOLEAN /\ repeatTime \in BOOLEAN
  /\ host \in {"runs", "overrun", "ended"}
  /\ Len(toHost) <= MaxOnTheWay /\ Len(toModule) <= MaxOnTheWay + 1
  /\ moduleSessions \in [SessionNBs \cup {MaxSessions + 1} -> Resources \cup {None}]
  /\ closes \in BOOLEAN /\ lostPdus \in 0..MaxLost

DvbCaInit ==
  /\ sessions = [n \in SessionNBs |-> None]
  /\ caConnected = FALSE /\ timeDateInterval = FALSE /\ repeatTime = FALSE /\ host = "runs"
  /\ toHost = <<>> /\ toModule = <<>>
  /\ moduleSessions = [n \in SessionNBs \cup {MaxSessions + 1} |-> None]
  /\ closes = FALSE /\ lostPdus = 0

\* sendPDU(): nobody looks whether it was written.
WriteOut(out) ==
  /\ Len(toModule) < MaxOnTheWay
  /\ \E fails \in SUBSET DOMAIN out :
       /\ lostPdus' = lostPdus + Cardinality(fails) /\ lostPdus' <= MaxLost
       /\ toModule' = toModule \o [i \in 1..(Len(out) - Cardinality(fails)) |->
                                     out[IF 1 \in fails THEN i + 1 ELSE i]]

-----------------------------------------------------------------------------
(* The host *)

HostReads ==
  /\ host # "ended" /\ toHost # <<>>
  /\ LET m == Head(toHost) IN
     /\ toHost' = Tail(toHost)
     /\ \E d \in {Handled(m)} : sessions' = d.sessions /\ WriteOut(d.out)
     /\ caConnected' = (caConnected \/ m.content = "DATE_TIME_ENQUIRY")
     /\ timeDateInterval' = (timeDateInterval \/ m.content = "DATE_TIME_ENQUIRY")
     /\ host' = IF m.tag = "CLOSE_SESSION_REQUEST" /\ m.nb = MaxSessions THEN "overrun" ELSE host
  /\ UNCHANGED <<repeatTime, moduleSessions, closes>>

\* A read that fails: its result is a length.
ReadFails ==
  /\ host # "ended" /\ host' = "ended"
  /\ UNCHANGED <<sessions, caConnected, timeDateInterval, repeatTime, toHost, toModule, moduleSessions,
                 closes, lostPdus>>

\* The first second after the enquiry
AsksAgain ==
  /\ host # "ended" /\ timeDateInterval /\ ~repeatTime /\ repeatTime' = TRUE
  /\ LET nb == findSessionNumberForRecource("ca_manager") IN
     WriteOut(IF nb > 0 THEN <<APDU(nb, "CA_INFO_ENQUIRY")>> ELSE <<>>)
  /\ UNCHANGED <<sessions, caConnected, timeDateInterval, host, toHost, moduleSessions, closes>>

\* A PMT has been collected.  The module may have no session for it.
SendsCAPMT ==
  /\ host # "ended" /\ caConnected
  /\ WriteOut(<<APDU(findSessionNumberForRecource("ca_manager"), "CA_PMT")>>)
  /\ UNCHANGED <<hostCaVars, toHost, moduleSessions, closes>>

\* The time has come, and is kept where the overrun wrote.
SendsTime ==
  /\ host = "runs" /\ caConnected
  /\ LET nb == findSessionNumberForRecource("date_time") IN
     nb > 0 /\ WriteOut(<<APDU(nb, "DATE_TIME")>>)
  /\ UNCHANGED <<hostCaVars, toHost, moduleSessions, closes>>

TimeEndsIt ==
  /\ host = "overrun" /\ caConnected /\ host' = "ended"
  /\ UNCHANGED <<sessions, caConnected, timeDateInterval, repeatTime, toHost, toModule, moduleSessions,
                 closes, lostPdus>>

-----------------------------------------------------------------------------
(* The module *)

ModuleWrites(m) ==
  /\ Len(toHost) < MaxOnTheWay /\ toHost' = Append(toHost, m)
  /\ UNCHANGED <<hostCaVars, toModule, moduleSessions, lostPdus>>

Opens(resource) ==
  /\ \A i \in DOMAIN toHost : toHost[i].content # resource
  /\ ModuleWrites(SPDU("OPEN_SESSION_REQUEST", 0, resource)) /\ UNCHANGED closes

Closes(nb) ==
  /\ moduleSessions[nb] # None /\ ~closes
  /\ ModuleWrites(SPDU("CLOSE_SESSION_REQUEST", nb, None)) /\ closes' = TRUE

ModuleAsks(nb) ==
  /\ \/ moduleSessions[nb] = "date_time" /\ ModuleWrites(APDU(nb, "DATE_TIME_ENQUIRY"))
     \/ moduleSessions[nb] = "resource_manager" /\ ModuleWrites(APDU(nb, "PROFILE_ENQUIRY"))
     \/ moduleSessions[nb] = "mmi_manager" /\ ModuleWrites(APDU(nb, "MMI_DISPLAY_CONTROL"))
  /\ UNCHANGED closes

ReplyOf(m) == IF m.content = "PROFILE_ENQUIRY" THEN <<APDU(m.nb, "PROFILE")>> ELSE <<>>

ModuleReads ==
  /\ toModule # <<>>
  /\ LET m == Head(toModule) IN
     /\ toModule' = Tail(toModule)
     /\ Len(toHost) < MaxOnTheWay /\ toHost' = toHost \o ReplyOf(m)
     /\ moduleSessions' = CASE m.tag = "OPEN_SESSION_RESPONSE" /\ m.nb # 0 -> [moduleSessions EXCEPT ![m.nb] = m.content]
                    [] m.tag = "CLOSE_SESSION_RESPONSE" -> [moduleSessions EXCEPT ![m.nb] = None]
                    [] OTHER -> moduleSessions
  /\ UNCHANGED <<hostCaVars, closes, lostPdus>>

DvbCaNext ==
  \/ HostReads \/ ReadFails \/ AsksAgain \/ SendsCAPMT \/ SendsTime \/ TimeEndsIt
  \/ \E r \in Resources : Opens(r)
  \/ \E nb \in DOMAIN moduleSessions : Closes(nb) \/ ModuleAsks(nb)
  \/ ModuleReads

DvbCaSpec == DvbCaInit /\ [][DvbCaNext]_dvbCaVars

-----------------------------------------------------------------------------

\* DVBCA: what the host sends on a session is for the resource that the module opened it for,
\* although messages are lost and cross, as long as no session was closed: closing one makes
\* the host forget another.
ApdusFitSessions ==
  closes \/
    /\ \A n \in DOMAIN moduleSessions : moduleSessions[n] # None => n \in SessionNBs /\ sessions[n] = moduleSessions[n]
    /\ \A i \in DOMAIN toModule :
         LET m == toModule[i] IN
         m.tag = "SESSION_NUMBER" /\ m.nb # 0 => sessions[m.nb] = ResourceOf[m.content]

\* Sessions are given to one resource each, as long as none was closed, and what is on the way
\* to the host and to the module is on the sessions of its resource.
AskedOn ==
  [DATE_TIME_ENQUIRY |-> "date_time", PROFILE_ENQUIRY |-> "resource_manager",
   PROFILE |-> "resource_manager", MMI_DISPLAY_CONTROL |-> "mmi_manager"]
OfKind(tag, nbs, contents) == [tag : {tag}, nb : nbs, content : contents]
ForHost(ss) ==
  OfKind("OPEN_SESSION_REQUEST", {0}, Resources)
  \cup {m \in OfKind("SESSION_NUMBER", SessionNBs, DOMAIN AskedOn) : ss[m.nb] = AskedOn[m.content]}
ForModule(ss) ==
  OfKind("OPEN_SESSION_RESPONSE", {0}, Resources) \cup {APDU(0, "CA_PMT")}
  \cup {m \in OfKind("OPEN_SESSION_RESPONSE", SessionNBs, Resources) : ss[m.nb] = m.content}
  \cup {m \in OfKind("SESSION_NUMBER", SessionNBs, DOMAIN ResourceOf) : ss[m.nb] = ResourceOf[m.content]}

SessionsInv ==
  closes \/
    /\ sessions \in [SessionNBs -> Resources \cup {None}]
    /\ moduleSessions \in [SessionNBs \cup {MaxSessions + 1} -> Resources \cup {None}]
    /\ \A n \in DOMAIN moduleSessions :
         moduleSessions[n] # None => n \in SessionNBs /\ sessions[n] = moduleSessions[n]
    /\ toHost \in Seq(ForHost(sessions)) /\ toModule \in Seq(ForModule(sessions))
=============================================================================
