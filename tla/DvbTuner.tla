------------------------------- MODULE DvbTuner -------------------------------
(***************************************************************************)
(* One DVB-S frontend: what a request does to the FrontendData, and how    *)
(* Frontend::update() opens the device, sets the dish (LNB, DiSEqC switch, *)
(* or a Unicable bus) and tunes, one ioctl() at a time, any of which may   *)
(* fail.                                                                   *)
(*                                                                         *)
(* Abstracted: the transport parameters that are only handed on to the     *)
(* frontend (sr, fec, mtype, ro, plts, ...) are one, mod; frequencies are  *)
(* in MHz; the wait for the lock, which does not change the result; the    *)
(* root tuner of an FBC frontend.                                          *)
(***************************************************************************)
EXTENDS Integers, Sequences

CONSTANTS
  Freqs,     \* requested frequencies, in MHz
  Inexact,   \* those that the float of a request does not hold exactly
  Sources,   \* src= of the requests
  Pols,      \* pol= of the requests
  Isis,      \* isi= of the requests
  Mods,      \* what mod= of the requests may be: 1, or -1 where it is not given
  MaxFails   \* bound: ioctl() and open() that fail

ASSUME TunerAssumption ==
  /\ Freqs \subseteq 10700..12747 /\ Inexact \subseteq Freqs
  /\ Sources \subseteq 1..4 /\ Pols \subseteq {"h", "v"} /\ Isis \subseteq 0..255 /\ Mods \subseteq {1, -1}
  /\ MaxFails \in Nat

VARIABLES
  dish,                    \* _diseqcType, and for a switch _switchType
  session,                 \* the stream is in use
  data, changed,           \* FrontendData
  fe, tuned,               \* _fd_fe is open; _tuned
  step,                    \* where update() is
  todo,                    \* the ioctls it still has to make
  tunedTo,                 \* the data when it began
  volt, tone,              \* what the frontend feeds to the dish
  commands, frontend,      \* the DiSEqC commands of this tune, and the tuned frequency
  clean, fails             \* history: no ioctl of this tune has failed

requestVars == <<session, data, changed>>
dishVars == <<volt, tone, commands, frontend>>
tunerVars == <<dish, requestVars, fe, tuned, step, todo, tunedTo, dishVars, clean, fails>>

No == -1   \* a parameter that is not given
Dishes == {"lnb", "committed", "uncommitted", "cascade", "en50494", "en50607"}
OnABus == dish \in {"en50494", "en50607"}
Positions == Sources \cup {1}

Requests ==
  [freq : Freqs \cup {No}, pol : Pols \cup {"none"}, src : Sources \cup {No},
   isi : Isis \cup {No}, msys : BOOLEAN, mod : Mods]
FrontendData ==
  [freq : Freqs \cup {0}, pol : {"h", "v"}, src : Positions, isi : Isis \cup {No},
   msys : BOOLEAN, mod : {0, 1}]
Initialized == [freq |-> 0, pol |-> "h", src |-> 1, isi |-> No, msys |-> FALSE, mod |-> 0]

-----------------------------------------------------------------------------
(* The ioctls of one tune *)

Bit(b) == IF b THEN 1 ELSE 0

\* fail: what a failure does: "log" nothing, "leave" ends the command, "stop" the tune
Ioctl(op, arg, fail) == [op |-> op, arg |-> arg, fail |-> fail]
Volt(v, fail) == Ioctl("voltage", <<v>>, fail)
Tone(b, fail) == Ioctl("tone", <<Bit(b)>>, fail)

HiBand(d) == d.freq >= 11700
\* Lnb::getIntermediateFrequency() of a universal LNB; a first request without freq= has 0.
IntermediateFreq(d) ==
  IF d.freq = 0 THEN 9750 ELSE d.freq - (IF HiBand(d) THEN 10600 ELSE 9750)
UserBand == 1210   \* _chFreq
TuneFreq(d) == IF OnABus THEN UserBand ELSE IntermediateFreq(d)

\* Data 1: option, position, polarization, band
PortBits(d) == ((4 * (d.src - 1)) % 16) + 2 * Bit(d.pol = "h") + Bit(HiBand(d))
Burst(d, fail) == Ioctl("burst", <<(d.src - 1) % 2>>, fail)

\* round((IF + _chFreq + 2.0) / 4.0 - 350.0), and IF - 100
EN50494T(d) == ((IntermediateFreq(d) + UserBand + 4) \div 4) - 350
EN50607T(d) == IntermediateFreq(d) - 100

\* Mutant: the voltage is not set back.
MasterCommand_StaysUp(cmd, burst, fail) ==
  <<Volt(18, "log"), Tone(FALSE, fail), Ioctl("command", cmd, "log")>> \o burst

\* DiSEqc::sendDiseqcMasterCommand()
MasterCommand(cmd, burst, fail) ==
  <<Volt(18, "log"), Tone(FALSE, fail), Ioctl("command", cmd, "log")>> \o burst
  \o <<Volt(13, "log")>>

\* What sendDiseqc() of each kind of dish sends.  A switch goes on after a command that failed.
SendDiseqc(d) ==
  LET src == d.src - 1 IN
  CASE dish = "committed" ->
         <<MasterCommand(<<56, 240 + PortBits(d)>>, <<Burst(d, "leave")>>, "leave")>>
    [] dish = "uncommitted" ->
         <<MasterCommand(<<57, 240 + src>>, <<Burst(d, "leave")>>, "leave")>>
    [] dish = "cascade" ->
         <<MasterCommand(<<56, 240 + (src % 4)>>, <<>>, "leave"),
           MasterCommand(<<57, 240 + (src \div 4)>>, <<Ioctl("burst", <<0>>, "leave")>>, "leave")>>
    [] dish = "en50494" ->
         <<MasterCommand(<<90, 16 * Bit(src >= 1) + 8 * Bit(d.pol = "h") + 4 * Bit(HiBand(d))
                               + (EN50494T(d) \div 256), EN50494T(d) % 256>>, <<>>, "stop")>>
    [] dish = "en50607" ->
         <<MasterCommand(<<112, EN50607T(d) \div 256, EN50607T(d) % 256, PortBits(d)>>,
                         <<>>, "stop")>>
    [] dish = "lnb" ->
         <<<<Volt(18, "stop"), Tone(FALSE, "stop"), Burst(d, "stop"), Volt(13, "log")>>>>

\* Mutant: the dish is left as the last DiSEqC command left it.
Settled_Not(d) == <<>>

\* LNB and switch are left at the voltage and tone of the request, a bus is let go.
Settled(d) ==
  IF OnABus THEN <<>>
  ELSE <<<<Volt(IF d.pol = "v" THEN 13 ELSE 18, "stop"), Tone(HiBand(d), "stop")>>>>

\* DVBS::setProperties(): what FE_SET_PROPERTY hands to the frontend
Properties(d) == <<TuneFreq(d), d.mod, d.isi>>

\* DVBS::tune(): the dish, and then the properties
Ioctls(d) == SendDiseqc(d) \o Settled(d) \o <<<<Ioctl("tune", Properties(d), "stop")>>>>

-----------------------------------------------------------------------------

TunerTypeOK ==
  /\ dish \in Dishes /\ session \in BOOLEAN
  /\ data \in FrontendData /\ changed \in BOOLEAN
  /\ fe \in BOOLEAN /\ tuned \in BOOLEAN
  /\ step \in {"idle", "update", "open", "tune"}
  /\ tunedTo \in FrontendData
  /\ volt \in {0, 13, 18} /\ tone \in {0, 1}
  /\ frontend = <<>> \/ Len(frontend) = 3
  /\ clean \in BOOLEAN /\ fails \in 0..MaxFails

TunerInit ==
  /\ dish \in Dishes /\ session = FALSE
  /\ data = Initialized /\ changed = FALSE
  /\ fe = FALSE /\ tuned = FALSE
  /\ step = "idle" /\ todo = <<>> /\ tunedTo = Initialized
  /\ volt = 0 /\ tone = 0 /\ commands = <<>> /\ frontend = <<>>
  /\ clean = TRUE /\ fails = 0

NewFrequency(r) == r.freq # No /\ (r.freq # data.freq \/ r.freq \in Inexact)

\* The parameters that are only handed on: each stays as it was if it is not given, and
\* none of them marks the data as changed.
Others(r, old) == IF r.mod = No THEN old.mod ELSE r.mod

\* FrontendData::doParseStreamString(): only a new frequency clears what was set before;
\* isi and src are set anew by every request.
Parsed(r) ==
  LET old == IF NewFrequency(r) THEN [Initialized EXCEPT !.freq = r.freq] ELSE data IN
  [freq |-> old.freq,
   pol |-> IF r.pol = "none" THEN old.pol ELSE r.pol,
   src |-> IF r.src = No THEN 1 ELSE r.src,
   isi |-> r.isi,
   msys |-> old.msys \/ r.msys,
   mod |-> Others(r, old)]

\* A request comes to the stream; the first one is found a stream by its msys=.
Request(r) ==
  /\ step = "idle" /\ (session \/ r.msys)
  /\ session' = TRUE
  /\ data' = Parsed(r)
  /\ changed' = (changed \/ NewFrequency(r) \/ r.isi # No)
  /\ step' = "update"
  /\ UNCHANGED <<dish, fe, tuned, todo, tunedTo, dishVars, clean, fails>>

\* With the frontend closed, what it was tuned to is of no interest any more.
Forget ==
  /\ fe' = FALSE /\ tuned' = FALSE
  /\ tunedTo' = Initialized /\ commands' = <<>> /\ frontend' = <<>>

\* Frontend::update() closes a frontend whose data has changed.
Reopen ==
  /\ step = "update" /\ step' = "open"
  /\ changed' = FALSE
  /\ IF changed THEN Forget ELSE UNCHANGED <<fe, tuned, tunedTo, commands, frontend>>
  /\ UNCHANGED <<dish, session, data, todo, volt, tone, clean, fails>>

StillTuned ==
  /\ step = "open" /\ tuned /\ step' = "idle"
  /\ UNCHANGED <<dish, requestVars, fe, tuned, todo, tunedTo, dishVars, clean, fails>>

OpenFails ==
  /\ step = "open" /\ ~tuned /\ ~fe /\ fails < MaxFails
  /\ step' = "idle" /\ fails' = fails + 1
  /\ UNCHANGED <<dish, requestVars, fe, tuned, todo, tunedTo, dishVars, clean>>

\* setupAndTune(): the frontend is open, or it is opened; no delivery system is capable of
\* data without msys=.
OpenFE ==
  /\ step = "open" /\ ~tuned
  /\ fe' = TRUE
  /\ IF data.msys
     THEN /\ step' = "tune" /\ todo' = Ioctls(data) /\ tunedTo' = data
          /\ commands' = <<>> /\ clean' = TRUE
     ELSE step' = "idle" /\ UNCHANGED <<todo, tunedTo, commands, clean>>
  /\ UNCHANGED <<dish, requestVars, tuned, volt, tone, frontend, fails>>

RestOf(t) == IF Len(Head(t)) = 1 THEN Tail(t) ELSE <<Tail(Head(t))>> \o Tail(t)
Current == Head(Head(todo))

\* The next ioctl works; with the last one the frontend is tuned.
IoctlDone ==
  /\ step = "tune"
  /\ todo' = RestOf(todo)
  /\ volt' = IF Current.op = "voltage" THEN Current.arg[1] ELSE volt
  /\ tone' = IF Current.op = "tone" THEN Current.arg[1] ELSE tone
  /\ commands' = IF Current.op = "command" THEN Append(commands, Current.arg) ELSE commands
  /\ frontend' = IF Current.op = "tune" THEN Current.arg ELSE frontend
  /\ tuned' = (todo' = <<>>)
  /\ step' = IF tuned' THEN "idle" ELSE "tune"
  /\ UNCHANGED <<dish, requestVars, fe, tunedTo, clean, fails>>

IoctlFails ==
  /\ step = "tune" /\ fails < MaxFails
  /\ fails' = fails + 1 /\ clean' = FALSE
  /\ todo' = CASE Current.fail = "log" -> RestOf(todo)
               [] Current.fail = "leave" -> Tail(todo)
               [] Current.fail = "stop" -> <<>>
  /\ step' = IF todo' = <<>> THEN "idle" ELSE "tune"
  /\ UNCHANGED <<dish, requestVars, fe, tuned, tunedTo, dishVars>>

\* Frontend::teardown(), with turnoffLNBPower set: of a session that ends, or whose
\* update() has failed.
Teardown ==
  /\ step = "idle" /\ session
  /\ session' = FALSE /\ data' = Initialized /\ changed' = FALSE
  /\ Forget
  /\ volt' = IF fe THEN 0 ELSE volt
  /\ UNCHANGED <<dish, step, todo, tone, clean, fails>>

TunerNext ==
  \/ \E r \in Requests : Request(r)
  \/ Reopen \/ StillTuned \/ OpenFails \/ OpenFE \/ IoctlDone \/ IoctlFails \/ Teardown

TunerSpec == TunerInit /\ [][TunerNext]_tunerVars

-----------------------------------------------------------------------------

\* A frontend that is tuned, and whose tuning saw no ioctl fail, has the dish and the
\* frequency of the request it was tuned for, and that request had the frequency of the
\* present one.  (The source, the polarization and the other parameters of a later request
\* for the same frequency are not tuned to: see README.md.)
TunedAsAsked ==
  tuned =>
    /\ ~changed => tunedTo.freq = data.freq
    /\ clean =>
         /\ frontend = Properties(tunedTo)
         /\ ~OnABus => /\ volt = IF tunedTo.pol = "v" THEN 13 ELSE 18
                       /\ tone = Bit(tunedTo.freq >= 11700)
         /\ dish = "committed" =>
              LET bits == Head(commands)[2] - 240 IN
              /\ bits \div 4 = tunedTo.src - 1
              /\ (bits \div 2) % 2 = Bit(tunedTo.pol = "h") /\ bits % 2 = tone

\* A frontend leaves a Unicable bus at 13 V, or off, if no ioctl failed.
BusIsFree == OnABus /\ step = "idle" /\ clean => volt \in {0, 13}

\* The bus converter's output has the transponder at most 4 MHz off (EN50494) or exactly
\* (EN50607) in the user band: the command's fields hold the whole of T.
OnUserBand ==
  tuned /\ clean /\ tunedTo.freq # 0 =>
    CASE dish = "en50494" ->
           LET c == Head(commands) IN
           4 * ((c[2] % 4) * 256 + c[3] + 350) - UserBand - IntermediateFreq(tunedTo) \in 1..4
      [] dish = "en50607" ->
           LET c == Head(commands) IN (c[2] % 8) * 256 + c[3] + 100 = IntermediateFreq(tunedTo)
      [] OTHER -> TRUE

\* DiSEqc::sendDiseqcMasterCommand(), DiSEqcEN50494 and DiSEqcEN50607: whatever tunes, failures
\* and ends of sessions came before, a tune without a failure leaves the shared bus to the other
\* receivers, and has asked its converter for the transponder that the frontend is tuned to.
BusIsShared == BusIsFree /\ OnUserBand
=============================================================================
