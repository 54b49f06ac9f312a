------------------------------ MODULE ChannelText ------------------------------
(***************************************************************************)
(* What the text of a request makes of the data of a DVB frontend, what    *)
(* DESCRIBE and the RTCP reports tell of them, and what the frontend is    *)
(* handed when it is tuned.  The numbers of the enumerations are those of  *)
(* linux/dvb/frontend.h.                                                   *)
(*                                                                         *)
(* Abstracted: a request is the function from its parameters to their      *)
(* values, a number where the program reads one (negative: a text that     *)
(* does not begin with a digit); the frequency and the PIDs (modules       *)
(* DvbTuner, PidFilters); bandwidths are in kHz.                           *)
(***************************************************************************)
EXTENDS Integers, Sequences, FiniteSets

CONSTANTS
  Texts,      \* the values that requests give, for each parameter
  Apis,       \* _dvbVersion
  MaxOther    \* bound: data of a channel that are not the initial ones

\* The parameters of which the program reads a number.
NumberNames == {"sr", "src", "isi", "plsm", "plsc", "plp", "specinv", "bw", "t2id", "sm"}

ASSUME ChannelTextAssumption ==
  /\ {"msys", "mtype", "isi", "plsm", "plsc"} \subseteq DOMAIN Texts
  /\ \A p \in DOMAIN Texts : Texts[p] # {} /\ (p \in NumberNames => Texts[p] \subseteq Int)
  /\ Apis \subseteq Nat /\ MaxOther \in Nat

VARIABLES
  channel,    \* the FrontendData
  api         \* of the frontend

channelTextVars == <<channel, api>>

NO_STREAM_ID == -1
Satellite == {"DVBS", "DVBS2"}
Terrestrial == {"DVBT", "DVBT2"}
CableTV == {"DVBC"}

\* FrontendData::doInitialize() and DeviceData::initialize()
NewChannel ==
  [delsys |-> "UNDEFINED", mod |-> 6, srate |-> 0, fec |-> 9, rolloff |-> 3, inversion |-> 2,
   pilot |-> 2, src |-> 1, pol |-> 0, isId |-> NO_STREAM_ID, plsMode |-> 1, plsCode |-> 0,
   bandwidth |-> 8000, trans |-> 2, guard |-> 4, plp |-> NO_STREAM_ID, t2id |-> 0, siso |-> 0]
AutoMod == NewChannel.mod

-----------------------------------------------------------------------------
(* StringConverter: of a number its text, the first of a table being that of 0 *)

Text(table, n, other) == IF n + 1 \in DOMAIN table THEN table[n + 1] ELSE other

\* Mutant: there is no case for FEC_6_7.
fec_to_string_No67(n) ==
  Text(<<"", "12", "23", "34", "45", "56", "UNKNOWN", "78", "89", "", "35", "910", "25">>, n, "UNKNOWN")

fec_to_string(n) ==
  Text(<<"", "12", "23", "34", "45", "56", "67", "78", "89", "", "35", "910", "25">>, n, "UNKNOWN")
modtype_to_string(n) ==
  Text(<<"qpsk", "16qam", "32qam", "64qam", "128qam", "256qam", "", "UNKNOWN", "UNKNOWN", "8psk",
         "16apsk", "32apsk", "dqpsk">>, n, "UNKNOWN")
rolloff_to_string(n) == Text(<<"0.35", "0.20", "0.25", "">>, n, "UNKNOWN")
pilot_tone_to_string(n) == Text(<<"on", "off", "">>, n, "UNKNOWN")
transmode_to_string(n) ==
  Text(<<"2k", "8k", "", "4k", "1k", "16k", "32k", "c1", "c3780">>, n, "UNKNOWN")
guardinter_to_string(n) ==
  Text(<<"132", "116", "18", "14", "", "1128", "19128", "19256">>, n, "UNKNOWN")
PolarizationChar(n) == Text(<<"h", "v", "l", "r">>, n, "E")
delsys_to_string(s) ==
  CASE s = "DVBS" -> "dvbs" [] s = "DVBS2" -> "dvbs2" [] s = "DVBC" -> "dvbc"
    [] s = "DVBT" -> "dvbt" [] s = "DVBT2" -> "dvbt2"

-----------------------------------------------------------------------------
(* The request.  For a text that it does not know the program takes the automatic value, but *)
(* leaves the modulation and the polarization as they are.                                   *)

\* Of each text in a table its number.
Table(pairs) == [t \in {p[1] : p \in pairs} |-> (CHOOSE p \in pairs : p[1] = t)[2]]

FecOf == Table({<<"12", 1>>, <<"23", 2>>, <<"25", 12>>, <<"34", 3>>, <<"35", 10>>, <<"45", 4>>,
  <<"56", 5>>, <<"67", 6>>, <<"78", 7>>, <<"89", 8>>, <<"910", 11>>, <<"auto", 9>>})
ModOf == Table({<<"qpsk", 0>>, <<"dqpsk", 12>>, <<"8psk", 9>>, <<"psk8", 9>>, <<"16apsk", 10>>,
  <<"apsk16", 10>>, <<"32apsk", 11>>, <<"apsk32", 11>>, <<"16qam", 1>>, <<"qam16", 1>>,
  <<"32qam", 2>>, <<"qam32", 2>>, <<"64qam", 3>>, <<"qam64", 3>>, <<"128qam", 4>>,
  <<"qam128", 4>>, <<"256qam", 5>>, <<"qam256", 5>>})
RolloffOf == Table({<<"0.35", 0>>, <<"0.25", 2>>, <<"0.20", 1>>, <<"auto", 3>>})
PilotOf == Table({<<"on", 0>>, <<"off", 1>>, <<"auto", 2>>})
TransOf == Table({<<"1k", 4>>, <<"2k", 0>>, <<"4k", 3>>, <<"8k", 1>>, <<"16k", 5>>,
  <<"32k", 6>>, <<"auto", 2>>})
GuardOf == Table({<<"14", 3>>, <<"18", 2>>, <<"116", 1>>, <<"132", 0>>, <<"1128", 5>>,
  <<"19128", 6>>, <<"19256", 7>>, <<"auto", 4>>})
PolOf == Table({<<"h", 0>>, <<"v", 1>>, <<"l", 2>>, <<"r", 3>>})
SystemOf == Table({<<"dvbs2", "DVBS2">>, <<"dvbs2x", "DVBS2">>, <<"dvbs", "DVBS">>,
  <<"dvbt", "DVBT">>, <<"dvbt2", "DVBT2">>, <<"dvbc", "DVBC">>})

\* TransportParamVector::getParameter() and getIntParameter()
Parameter(r, p) == IF p \in DOMAIN r THEN r[p] ELSE ""
Number(r, p) == IF p \in DOMAIN r /\ r[p] >= 0 THEN r[p] ELSE -1

TextOr(table, t, old, other) ==
  IF t = "" THEN old ELSE IF t \in DOMAIN table THEN table[t] ELSE other
Given(n, old) == IF n = -1 THEN old ELSE n

MsysParameter(r) == TextOr(SystemOf, Parameter(r, "msys"), "UNDEFINED", "UNDEFINED")

\* A request without mtype= that names the system has the modulation guessed.
ModulationOf(r, old) ==
  IF Parameter(r, "mtype") # "" THEN TextOr(ModOf, Parameter(r, "mtype"), old, old)
  ELSE CASE MsysParameter(r) = "DVBS" -> 0
         [] MsysParameter(r) = "DVBS2" -> 9
         [] MsysParameter(r) \in Terrestrial \cup CableTV -> AutoMod
         [] MsysParameter(r) = "UNDEFINED" -> old

\* FrontendData::doParseStreamString(), of c with the frequency of the request
ParsedStreamString(c, r) ==
  [delsys    |-> IF MsysParameter(r) = "UNDEFINED" THEN c.delsys ELSE MsysParameter(r),
   mod       |-> ModulationOf(r, c.mod),
   srate     |-> IF Number(r, "sr") = -1 THEN c.srate ELSE 1000 * Number(r, "sr"),
   fec       |-> TextOr(FecOf, Parameter(r, "fec"), c.fec, 9),
   rolloff   |-> TextOr(RolloffOf, Parameter(r, "ro"), c.rolloff, 3),
   inversion |-> Given(Number(r, "specinv"), c.inversion),
   pilot     |-> TextOr(PilotOf, Parameter(r, "plts"), c.pilot, 2),
   src       |-> IF Number(r, "src") \in 1..255 THEN Number(r, "src") ELSE 1,
   pol       |-> TextOr(PolOf, Parameter(r, "pol"), c.pol, c.pol),
   isId      |-> Number(r, "isi"),
   plsMode   |-> Given(Number(r, "plsm"), 1) % 4,
   plsCode   |-> Given(Number(r, "plsc"), 0) % 262144,
   bandwidth |-> Given(Number(r, "bw"), c.bandwidth),
   trans     |-> TextOr(TransOf, Parameter(r, "tmode"), c.trans, 2),
   guard     |-> TextOr(GuardOf, Parameter(r, "gi"), c.guard, 4),
   plp       |-> Number(r, "plp"),
   t2id      |-> Given(Number(r, "t2id"), c.t2id),
   siso      |-> Given(Number(r, "sm"), c.siso)]

-----------------------------------------------------------------------------
(* The answers *)

\* FrontendData::doAttributeDescribeString(): which channel it tells of, by the names of the
\* parameters; the level, the lock and the quality are left out.
AttributeDescribeString(c) ==
  CASE c.delsys \in Satellite ->
         [src |-> c.src, pol |-> PolarizationChar(c.pol), msys |-> delsys_to_string(c.delsys),
          mtype |-> modtype_to_string(c.mod), plts |-> pilot_tone_to_string(c.pilot),
          ro |-> rolloff_to_string(c.rolloff), sr |-> c.srate \div 1000,
          fec |-> fec_to_string(c.fec)]
    [] c.delsys \in Terrestrial ->
         [bw |-> c.bandwidth, msys |-> delsys_to_string(c.delsys),
          tmode |-> transmode_to_string(c.trans), mtype |-> modtype_to_string(c.mod),
          gi |-> guardinter_to_string(c.guard), fec |-> fec_to_string(c.fec), plp |-> c.plp,
          t2id |-> c.t2id, sm |-> c.siso]
    [] c.delsys \in CableTV ->
         [bw |-> c.bandwidth, msys |-> delsys_to_string(c.delsys),
          mtype |-> modtype_to_string(c.mod), sr |-> c.srate \div 1000, plp |-> c.plp,
          specinv |-> c.inversion]
    [] c.delsys = "UNDEFINED" -> <<>>

-----------------------------------------------------------------------------
(* The frontend *)

\* root2gold(): where the shift register of 18 bits comes by the root code
ShiftRegister[g \in 0..262142] ==
  IF g = 0 THEN 1
  ELSE LET x == ShiftRegister[g - 1] IN 131072 * ((x + (x \div 128)) % 2) + (x \div 2)
root2gold(root) ==
  IF root = 0 THEN 262143 ELSE CHOOSE g \in 0..262142 : ShiftRegister[g] = root

\* What DVBS, DVBT and DVBC::setProperties() hand to the frontend.  Until 5.10 the API has the
\* scrambling code in the stream ID, and only there.
StreamId(c) ==
  IF c.isId = NO_STREAM_ID THEN NO_STREAM_ID
  ELSE IF api \in 1280..1290 THEN 67108864 * c.plsMode + 256 * c.plsCode + c.isId ELSE c.isId
ScramblingIndex(c) ==
  IF api < 1291 \/ c.plsMode = 2 THEN NO_STREAM_ID
  ELSE IF c.plsMode = 0 THEN root2gold(c.plsCode) ELSE c.plsCode

SetProperties(c) ==
  CASE c.delsys \in Satellite ->
         [delsys |-> c.delsys, mod |-> c.mod, srate |-> c.srate, fec |-> c.fec,
          rolloff |-> c.rolloff, pilot |-> c.pilot, stream |-> StreamId(c),
          scrambling |-> ScramblingIndex(c)]
    [] c.delsys \in Terrestrial ->
         [delsys |-> c.delsys, mod |-> c.mod, inversion |-> c.inversion,
          bandwidth |-> c.bandwidth, fec |-> c.fec, trans |-> c.trans, guard |-> c.guard,
          stream |-> IF c.delsys = "DVBT2" /\ api >= 1282 THEN c.plp ELSE NO_STREAM_ID]
    [] c.delsys \in CableTV ->
         [delsys |-> c.delsys, mod |-> c.mod, srate |-> c.srate, fec |-> c.fec,
          bandwidth |-> c.bandwidth, inversion |-> c.inversion]
    [] c.delsys = "UNDEFINED" -> <<>>

-----------------------------------------------------------------------------

ParsedChannels ==
  [delsys : Satellite \cup Terrestrial \cup CableTV \cup {"UNDEFINED"}, mod : 0..6 \cup 9..12,
   srate : Nat, fec : 1..12, rolloff : 0..3, inversion : Nat, pilot : 0..2, src : 1..255,
   pol : 0..3, isId : Nat \cup {NO_STREAM_ID}, plsMode : 0..3,
   plsCode : {n \in Nat : n < 262144}, bandwidth : Nat, trans : 0..6, guard : 0..7,
   plp : Nat \cup {NO_STREAM_ID}, t2id : Nat, siso : Nat]

ChannelTextTypeOK == channel \in ParsedChannels /\ channel.srate % 1000 = 0 /\ api \in Apis

ChannelTextInit == channel = NewChannel /\ api \in Apis

\* A request gives one parameter here, the system and the modulation, or the input stream.
ChannelRequests ==
  (UNION {[{p} -> Texts[p]] : p \in DOMAIN Texts \ {"plsm", "plsc"}})
  \cup [msys : Texts["msys"], mtype : Texts["mtype"]]
  \cup [isi : Texts["isi"], plsm : Texts["plsm"], plsc : Texts["plsc"]]

\* The input stream counts as one of the data, the system and the modulation as none.
Other(c) == {f \in DOMAIN c \ {"delsys", "mod", "plsMode", "plsCode"} : c[f] # NewChannel[f]}

\* from: the channel that the frontend has, or a new one when the frequency is another; as this
\* is the same whatever the old one was, it is looked at once.
ChannelRequest(r, from) ==
  /\ channel' = ParsedStreamString(from, r)
  /\ Cardinality(Other(channel')) <= MaxOther
  /\ UNCHANGED api

ChannelTextNext ==
  \E r \in ChannelRequests :
    ChannelRequest(r, channel) \/ (Other(channel) = {} /\ ChannelRequest(r, NewChannel))

ChannelTextSpec == ChannelTextInit /\ [][ChannelTextNext]_channelTextVars

-----------------------------------------------------------------------------

\* What a description does not tell: the input stream and its scrambling code, the inversion of
\* DVB-T, the FEC of DVB-C, and that a satellite channel was requested with a modulation that
\* the program does not know.
Untold(c) ==
  CASE c.delsys \in Satellite ->
         (IF c.isId = NO_STREAM_ID THEN {} ELSE {"stream"})
         \cup (IF c.plsMode = 1 /\ c.plsCode = 0 THEN {} ELSE {"scrambling"})
         \cup (IF c.mod = AutoMod THEN {"mod"} ELSE {})
    [] c.delsys \in Terrestrial -> IF c.inversion = 2 THEN {} ELSE {"inversion"}
    [] c.delsys \in CableTV -> IF c.fec = 9 THEN {} ELSE {"fec"}
    [] c.delsys = "UNDEFINED" -> {}

\* FrontendData: a client that asks for what DESCRIBE told it has the frontend tuned as it is,
\* be it another frontend or the same again, but for what is not told.
DescriptionTunes ==
  \A from \in {NewChannel, channel} :
    LET c == ParsedStreamString(from, AttributeDescribeString(channel))
        is == SetProperties(channel)
    IN
    channel.delsys # "UNDEFINED" =>
      /\ \A p \in DOMAIN is \ Untold(channel) : SetProperties(c)[p] = is[p]
      /\ channel.delsys \in Satellite => c.src = channel.src /\ c.pol = channel.pol
=============================================================================
