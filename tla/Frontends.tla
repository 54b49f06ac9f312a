------------------------------- MODULE Frontends -------------------------------
(***************************************************************************)
(* Which streams there are, what they can receive, and what the program    *)
(* says that it has: the frontends found at start                          *)
(* (Frontend::getAttachedFrontends, setupFrontend) and the readers behind  *)
(* them; the delivery systems that the description counts                  *)
(* (addDeliverySystemCount), which the page changes; and the new sessions  *)
(* that ask for one of them (findStreamAndClientIDFor, findClientIDFor).   *)
(*                                                                         *)
(* Abstracted: a directory of adapters is a sequence; what an M3U file     *)
(* maps a frequency to is one system; the session of a stream is module    *)
(* StreamSession's, the map itself InputSource's.                          *)
(***************************************************************************)
EXTENDS Integers, Sequences, FiniteSets, SequencesExt

CONSTANTS
  Trees,         \* what /dev/dvb may hold: adapters, each a sequence of entries
  NumChildPipes, \* --childpipe
  Unsecure,      \* --enable-unsecure-frontends
  PageSettings,      \* what the page may set a stream to: switched on, whether it transforms,
                 \* what it is advertised as, and what its M3U file maps to (NoSystem: no file)
  AskedSystems   \* msys= of the requests

ASSUME FrontendsAssumption ==
  /\ NumChildPipes \in Nat /\ Unsecure \in BOOLEAN
  /\ \A tree \in Trees :
       /\ tree \in Seq(Seq(UNION {Range(adapter) : adapter \in Range(tree)}))
       /\ \A adapter \in Range(tree) : \A entry \in Range(adapter) :
            /\ {"name", "info", "enum", "type", "second"} \subseteq DOMAIN entry
            /\ IsInjective(entry.enum)   \* a driver enumerates each system once

VARIABLES
  devices,   \* the devices by their index: what they are, and what they count
  setting,  \* by index: what the page can change
  claimed,  \* by index: the system of the session that has the stream, OtherFrequency for one
            \* without a mapped frequency, Nobody for none
  tunable   \* history: no session was refused that a description had promised

frontendsVars == <<devices, setting, claimed, tunable>>

NoSystem == "none"
Nobody == "nobody"
OtherFrequency == "other"
CountedSystems == {"dvbs2", "dvbt", "dvbt2", "dvbc", "dvbc2"}
Frequencies == {"psi", "mapped", "unmapped"}

-----------------------------------------------------------------------------
(* At start *)

\* DTV_ENUM_DELSYS, or, from a driver without it, what type and capabilities say.
Enumerated(entry) ==
  CASE entry.enum # <<>> -> entry.enum
    [] entry.enum = <<>> /\ entry.type = "qpsk" ->
         IF entry.second THEN <<"dvbs2", "dvbs">> ELSE <<"dvbs">>
    [] entry.enum = <<>> /\ entry.type = "ofdm" ->
         IF entry.second THEN <<"dvbt2", "dvbt">> ELSE <<"dvbt">>
    [] entry.enum = <<>> /\ entry.type = "qam" -> <<"annexA">>
    [] entry.enum = <<>> /\ entry.type = "atsc" /\ entry.second -> <<"annexB">>
    [] OTHER -> <<>>

Cable == {"annexA", "annexB", "annexC"}

\* Each annex for itself.
CountCable_Each(entry) == Cardinality({k \in DOMAIN Enumerated(entry) : Enumerated(entry)[k] \in Cable})

\* The annexes of DVB-C are one delivery system.
CountCable(entry) == IF \E s \in Range(Enumerated(entry)) : s \in Cable THEN 1 ELSE 0

\* setupFrontend(): one that cannot be opened has no delivery system, but is there.
Frontend(entry) ==
  LET of(system) ==
        Cardinality({k \in DOMAIN Enumerated(entry) : entry.info /\ Enumerated(entry)[k] = system})
  IN [kind |-> "dvb", dvbs |-> of("dvbs"), dvbs2 |-> of("dvbs2"), dvbt |-> of("dvbt"),
      dvbt2 |-> of("dvbt2"), dvbc |-> IF entry.info THEN CountCable(entry) ELSE 0]

NoFrontend(name) == [kind |-> name, dvbs |-> 0, dvbs2 |-> 0, dvbt |-> 0, dvbt2 |-> 0, dvbc |-> 0]

\* The places in the tree that hold a frontend, each an adapter and an entry of it.
Attached(tree) ==
  UNION {{<<a, n>> : n \in {m \in DOMAIN tree[a] : tree[a][m].name = "frontend"}} : a \in DOMAIN tree}
Before(p, q) == p[1] < q[1] \/ (p[1] = q[1] /\ p[2] < q[2])

\* getAttachedFrontends(): in the order of the directory, the entries of an adapter before
\* those of the next.  There is one such order.
GetAttachedFrontends(tree) ==
  {[i \in DOMAIN at |-> Frontend(tree[at[i][1]][at[i][2]])] :
     at \in {o \in [1..Cardinality(Attached(tree)) -> Attached(tree)] :
              \A i, j \in DOMAIN o : i < j => Before(o[i], o[j])}}

\* StreamManager::enumerateDevices(): fe= of a stream is its place in this sequence.
EnumerateDevices(frontends) ==
  frontends \o <<NoFrontend("file"), NoFrontend("streamer")>>
    \o [i \in 1..NumChildPipes |-> NoFrontend("childpipe")]

Indexes == DOMAIN devices

DefaultSetting == [enabled |-> TRUE, transforms |-> FALSE, advertise |-> NoSystem, maps |-> NoSystem]

FrontendsInit ==
  /\ \E tree \in Trees : \E frontends \in GetAttachedFrontends(tree) :
       devices = EnumerateDevices(frontends)
  /\ setting = [i \in Indexes |-> DefaultSetting]
  /\ claimed = [i \in Indexes |-> Nobody]
  /\ tunable = TRUE

-----------------------------------------------------------------------------
(* What is advertised *)

AdvertiseAsDVBS2(i) == setting[i].transforms /\ setting[i].advertise = "dvbs2"
AdvertiseAsDVBC(i) == setting[i].transforms /\ setting[i].advertise = "dvbc"
SatelliteCount(d) == IF d.dvbs2 > 0 THEN d.dvbs2 ELSE d.dvbs

\* addDeliverySystemCount() of a device.  No frontend counts for DVB-C2.
DeliverySystemCount(i) ==
  LET d == devices[i]
      one(yes) == IF yes THEN 1 ELSE 0
  IN IF d.kind = "dvb"
     THEN [dvbs2 |-> IF AdvertiseAsDVBS2(i) THEN d.dvbc ELSE SatelliteCount(d),
           dvbt |-> d.dvbt, dvbt2 |-> d.dvbt2,
           dvbc |-> IF AdvertiseAsDVBC(i) THEN SatelliteCount(d) ELSE d.dvbc, dvbc2 |-> 0]
     ELSE [dvbs2 |-> one(AdvertiseAsDVBS2(i)), dvbt |-> 0, dvbt2 |-> 0,
           dvbc |-> one(AdvertiseAsDVBC(i)), dvbc2 |-> 0]

\* The sum of what the devices that are switched on have of a system, each of these counted.
CountsOf(s) ==
  UNION {{i} \X (1..DeliverySystemCount(i)[s]) : i \in {j \in Indexes : setting[j].enabled}}

\* getXMLDeliveryString(): what the description and the announced servers have of each system.
Advertised(s) == Cardinality(CountsOf(s))

\* getRTSPDescribeString(): both generations of a system are summed, also those of one
\* frontend that has both.
DescribeCounts == <<Advertised("dvbs2"), Advertised("dvbt") + Advertised("dvbt2"),
               Advertised("dvbc") + Advertised("dvbc2")>>

-----------------------------------------------------------------------------
(* Who can receive what *)

CapableOf(i, system) ==
  LET d == devices[i]
  IN CASE d.kind = "dvb" ->
            \/ d.dvbs + d.dvbs2 > 0 /\ system \in {"dvbs", "dvbs2", "dvbs2x"}
            \/ d.dvbt + d.dvbt2 > 0 /\ system \in {"dvbt", "dvbt2"}
            \/ d.dvbc > 0 /\ system = "dvbc"
       [] d.kind \in {"file", "childpipe"} -> Unsecure /\ system = d.kind
       [] OTHER -> system = "streamer"

OwnInputSystem(i) == IF devices[i].kind = "childpipe" THEN "childpipe" ELSE NoSystem

\* getTransformationSystemFor(): what a request with this frequency is transformed to.
TransformationSystem(i, freq) ==
  IF setting[i].transforms /\ setting[i].maps # NoSystem
  THEN CASE freq = "psi" -> OwnInputSystem(i)
         [] freq = "mapped" -> setting[i].maps
         [] OTHER -> NoSystem
  ELSE NoSystem

\* capableToTransform(): the readers can, also when a request may not name them itself.
CapableToTransform(i, freq) ==
  LET system == TransformationSystem(i, freq)
  IN IF devices[i].kind \in {"file", "childpipe"} THEN system = devices[i].kind ELSE CapableOf(i, system)

\* findClientIDFor() of a new session.
FreeFor(i, system, freq) ==
  /\ setting[i].enabled
  /\ claimed[i] = Nobody
  /\ CapableOf(i, system) \/ CapableToTransform(i, freq)

\* findStreamAndClientIDFor(): the stream of fe=, if there is one and it is free for this, else
\* the first that is.
FindStreamFor(fe, system, freq) ==
  LET free == {i \in Indexes : FreeFor(i, system, freq)}
  IN IF fe \in free THEN {fe} ELSE {i \in free : \A j \in free : i <= j}

-----------------------------------------------------------------------------

\* What a transformation is advertised for it can be asked for: its file is read, and maps to
\* what the device receives.
SetUpRight(s) ==
  \A i \in Indexes :
    (s = "dvbs2" /\ AdvertiseAsDVBS2(i)) \/ (s = "dvbc" /\ AdvertiseAsDVBC(i))
      => CapableToTransform(i, "mapped")

\* The sessions that hold a stream which counts for the system, whatever they asked for.
Holding(s) ==
  {i \in Indexes : claimed[i] # Nobody /\ setting[i].enabled /\ DeliverySystemCount(i)[s] > 0}

\* Was this session promised by what is advertised?
Promised(system, freq) ==
  /\ system \in CountedSystems /\ freq = "mapped" /\ SetUpRight(system)
  /\ Cardinality(Holding(system)) < Advertised(system)

NewSession ==
  \E system \in AskedSystems, freq \in Frequencies, fe \in {0} \cup Indexes :
    LET found == FindStreamFor(fe, system, freq)
    IN /\ claimed' = [i \in Indexes |-> IF i \notin found THEN claimed[i]
                                         ELSE IF freq = "mapped" THEN system ELSE OtherFrequency]
       /\ tunable' = (tunable /\ (Promised(system, freq) => found # {}))
       /\ UNCHANGED <<devices, setting>>

SessionEnds ==
  \E i \in Indexes :
    /\ claimed[i] # Nobody
    /\ claimed' = [claimed EXCEPT ![i] = Nobody]
    /\ UNCHANGED <<devices, setting, tunable>>

\* doFromXML(): the page, or the settings file.  What it takes away from a session is left to
\* the watchdog.
Configure ==
  \E i \in Indexes, new \in PageSettings :
    /\ setting' = [setting EXCEPT ![i] = new]
    /\ UNCHANGED <<devices, claimed, tunable>>

FrontendsNext == NewSession \/ SessionEnds \/ Configure

FrontendsSpec == FrontendsInit /\ [][FrontendsNext]_frontendsVars

-----------------------------------------------------------------------------

\* What a device is, and that it has each delivery system once at most.
Device ==
  [kind : {"dvb", "file", "streamer", "childpipe"},
   dvbs : {0, 1}, dvbs2 : {0, 1}, dvbt : {0, 1}, dvbt2 : {0, 1}, dvbc : {0, 1}]

FrontendsTypeOK ==
  /\ devices \in Seq(Device)
  /\ setting \in [Indexes -> PageSettings \cup {DefaultSetting}]
  /\ claimed \in [Indexes -> AskedSystems \cup {Nobody, OtherFrequency}]
  /\ tunable \in BOOLEAN

\* A client that asks for a delivery system of which the description counts more frontends
\* than sessions hold, gets one: whatever these sessions asked for, by fe= or not, and whatever
\* was switched off, advertised as another system and ended before.
\* And DESCRIBE counts no more frontends of a kind than can be used for it, but that it counts
\* one that receives both generations twice.
AdvertisedIsServed ==
  /\ tunable
  /\ DescribeCounts[2] <= 2 * Cardinality({i \in Indexes : setting[i].enabled /\ CapableOf(i, "dvbt")})
===============================================================================
