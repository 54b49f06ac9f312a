------------------------------ MODULE PidFilters ------------------------------
(***************************************************************************)
(* The PIDs of one DVB frontend: mpegts::PidTable, which records what is   *)
(* asked for; mpegts::Filter, whose lock guards it; and input::dvb::       *)
(* Frontend, which opens and closes the filters of the demux device.       *)
(*                                                                         *)
(* Two threads work on them.  A request, under the lock of its Stream,     *)
(* parses, updates or tears down.  The DVBAPI client adds a PID when OSCam *)
(* asks for one, without that lock: it may come between any two steps of a *)
(* request, and finds the frontend tuned to another channel or to none.    *)
(*                                                                         *)
(* Abstracted: PSI tables, packet counters, the parameters of a channel.   *)
(***************************************************************************)
EXTENDS Naturals, Sequences

CONSTANTS
  AllPids,    \* the PID that stands for the full stream; 8192 in the code
  LastLow,    \* delpids leaves the PIDs up to this one alone; 18 in the code
  UserPids,   \* Filter::_userPids, added to every list of PIDs
  OscamPids,  \* the PIDs that OSCam may ask for
  Requests,   \* what clients may ask for
  DeviceFails \* whether a call of the demux device may fail

Pids == 0..AllPids

\* One of the parameters pids, addpids (add) and delpids.
Edits == [what : {"all", "none", "list"}, list : SUBSET Pids, add : BOOLEAN]

\* freq: absent, that of the frontend, or another; play: SETUP or PLAY; tune: it has
\* a parameter (isi, plsc, plp) that makes the frontend tune anew.
Request == [freq : {"absent", "same", "new"}, play : BOOLEAN, tune : BOOLEAN, edits : Seq(Edits)]

ASSUME PidsAssumption ==
  /\ AllPids \in Nat /\ LastLow \in Nat
  /\ UserPids \subseteq Pids /\ OscamPids \subseteq Pids
ASSUME RequestsAssumption == \A r \in Requests : r \in Request
ASSUME DeviceFailsAssumption == DeviceFails \in BOOLEAN

VARIABLES
  table,       \* PidTable::_data[pid].state
  changed,     \* PidTable::_changed
  hasFreq,     \* FrontendData::_freq is not 0
  dataChanged, \* DeviceData::_changed: the frontend has to be tuned anew
  tuned,       \* Frontend::_tuned
  dmx,         \* the demux device: closed, open, or on once it has a PES filter
  filtered,    \* the PIDs that it delivers
  lock,        \* who holds Filter::_mutex in updatePIDFilters
  cursor,      \* the PID that updatePIDFilters comes to
  request,     \* where the request is
  edits,       \* the parameters it has yet to parse
  oscam,       \* where the DVBAPI client is
  wanted,      \* history: the PIDs asked for
  flaws        \* history: what went wrong

tableVars == <<table, changed, wanted>>
deviceVars == <<hasFreq, dataChanged, tuned, dmx, filtered>>
loopVars == <<lock, cursor>>
vars == <<tableVars, deviceVars, loopVars, request, edits, oscam, flaws>>

PidState == {"ShouldOpen", "Opened", "ShouldClose", "ShouldCloseReopen", "Closed"}
Steps ==
  {"idle", "edit", "parsed", "close", "closeDmx", "tune", "update", "updating", "failed",
   "teardown", "untune", "teardownDmx", "initialize"}
Flaws == {"device", "early", "late", "retune"}

TypeOK ==
  /\ table \in [Pids -> PidState] /\ changed \in BOOLEAN /\ wanted \subseteq Pids
  /\ hasFreq \in BOOLEAN /\ dataChanged \in BOOLEAN /\ tuned \in BOOLEAN
  /\ dmx \in {"closed", "open", "on"} /\ filtered \subseteq Pids
  /\ lock \in {"none", "request", "oscam"} /\ cursor \in 0..(AllPids + 1)
  /\ request \in Steps /\ edits \in Seq(Edits)
  /\ oscam \in {"idle", "check", "wait", "updating"}
  /\ flaws \subseteq Flaws

Init ==
  /\ table = [p \in Pids |-> "Closed"] /\ changed = FALSE /\ wanted = {}
  /\ hasFreq = FALSE /\ dataChanged = FALSE /\ tuned = FALSE /\ dmx = "closed" /\ filtered = {}
  /\ lock = "none" /\ cursor = 0
  /\ request = "idle" /\ edits = <<>> /\ oscam = "idle" /\ flaws = {}

-----------------------------------------------------------------------------
(* The table.                                                                 *)

\* Mutant: a PID that is to be closed is asked for again in vain.
Used_NoReopen(s, use) ==
  CASE s = "Closed" /\ use  -> "ShouldOpen"
    [] s = "Opened" /\ ~use -> "ShouldClose"
    [] OTHER                -> s

\* PidTable::setPID, and whether it sets _changed.
Used(s, use) ==
  CASE s = "Closed" /\ use      -> "ShouldOpen"
    [] s = "ShouldClose" /\ use -> "ShouldCloseReopen"
    [] s = "Opened" /\ ~use     -> "ShouldClose"
    [] OTHER                    -> s
SetPIDs(t, P, use) == [p \in Pids |-> IF p \in P THEN Used(t[p], use) ELSE t[p]]
Changes(t, P, use) == \E p \in P : Used(t[p], use) # t[p]

\* Mutant: a PID that is open is forgotten rather than closed.
Cleared_Forgets(t) == [p \in Pids |-> "Closed"]

\* PidTable::clear.  It resets _changed first.
Cleared(t) == [p \in Pids |-> IF t[p] = "ShouldOpen" THEN "Closed" ELSE Used(t[p], FALSE)]
ClearChanges(t) == Changes(t, {p \in Pids : t[p] # "ShouldOpen"}, FALSE)

\* PidTable::setPIDClosed; it sets _changed for a PID that is to be opened again.
AfterClose(s) == IF s = "ShouldCloseReopen" THEN "ShouldOpen" ELSE "Closed"

ShouldClose(s) == s \in {"ShouldClose", "ShouldCloseReopen"}

-----------------------------------------------------------------------------
(* A request is parsed: FrontendData::doParseStreamString.                    *)

Clears(r) == r.freq = "new" \/ (r.freq = "same" /\ r.play)

\* A new frequency, and the parameters that need it, make the frontend tune anew.
\* Without a clear that closes PIDs which nobody asks for again.
Parse(r) ==
  /\ request = "idle" /\ (r.freq = "same" => hasFreq)
  /\ hasFreq' = (hasFreq \/ r.freq = "new")
  /\ request' = "edit" /\ edits' = r.edits
  /\ dataChanged' = (dataChanged \/ r.freq = "new" \/ r.tune)
  /\ flaws' = IF r.tune /\ ~Clears(r) THEN flaws \cup {"retune"} ELSE flaws
  /\ IF Clears(r)
     THEN /\ lock = "none"
          /\ table' = Cleared(table) /\ changed' = ClearChanges(table) /\ wanted' = {}
     ELSE UNCHANGED tableVars
  /\ UNCHANGED <<tuned, dmx, filtered, loopVars, oscam>>

\* Filter::parsePIDString.
ListOf(e) == {p \in e.list : p > LastLow \/ e.add} \cup (IF e.add THEN UserPids ELSE {})
Edit ==
  /\ request = "edit" /\ edits # <<>> /\ lock = "none"
  /\ LET e == Head(edits)
         all == IF e.what = "all" THEN {AllPids} ELSE {}
     IN  IF e.what = "list"
         THEN /\ table' = SetPIDs(table, ListOf(e), e.add)
              /\ changed' = (changed \/ Changes(table, ListOf(e), e.add))
              /\ wanted' = IF e.add THEN wanted \cup ListOf(e) ELSE wanted \ ListOf(e)
         ELSE /\ table' = SetPIDs(Cleared(table), all, e.add)
              /\ changed' = (ClearChanges(table) \/ Changes(Cleared(table), all, e.add))
              /\ wanted' = IF e.add THEN all ELSE {}
  /\ edits' = Tail(edits)
  /\ UNCHANGED <<deviceVars, loopVars, request, oscam, flaws>>

Parsed ==
  /\ request = "edit" /\ edits = <<>>
  /\ request' = "parsed"
  /\ UNCHANGED <<tableVars, deviceVars, loopVars, edits, oscam, flaws>>

-----------------------------------------------------------------------------
(* Frontend::update.                                                          *)

BeginUpdate ==
  /\ request \in {"idle", "parsed"}
  /\ request' = IF dataChanged THEN "close" ELSE "tune"
  /\ dataChanged' = FALSE /\ tuned' = (tuned /\ ~dataChanged)
  /\ UNCHANGED <<tableVars, hasFreq, dmx, filtered, loopVars, edits, oscam, flaws>>

Fails(P) == IF DeviceFails THEN SUBSET P ELSE {{}}

\* closeActivePIDFilters, of an update or a teardown.  The device refuses to remove a
\* PID when it has no PES filter.
CloseFilters ==
  /\ request \in {"close", "teardown"} /\ lock = "none"
  /\ LET t == SetPIDs(table, Pids, FALSE)
         due == {p \in Pids : ShouldClose(t[p])}
     IN  \E fails \in Fails(due) :
           LET done == IF dmx = "on" THEN due \ fails ELSE {}
           IN  /\ table' = [p \in Pids |-> IF p \in done THEN AfterClose(t[p]) ELSE t[p]]
               /\ changed' = \/ changed \/ Changes(table, Pids, FALSE)
                             \/ \E p \in done : t[p] = "ShouldCloseReopen"
               /\ filtered' = filtered \ done
               /\ flaws' = IF done = due THEN flaws ELSE flaws \cup {"device"}
  /\ request' = IF request = "close" THEN "closeDmx" ELSE "untune"
  /\ UNCHANGED <<wanted, hasFreq, dataChanged, tuned, dmx, loopVars, edits, oscam>>

\* Without the lock.
CloseDmx ==
  /\ request \in {"closeDmx", "teardownDmx"}
  /\ dmx' = "closed" /\ filtered' = {}
  /\ request' = IF request = "closeDmx" THEN "tune" ELSE "initialize"
  /\ UNCHANGED <<tableVars, hasFreq, dataChanged, tuned, loopVars, edits, oscam, flaws>>

\* setupAndTune.
Tune ==
  /\ request = "tune"
  /\ \/ tuned' = TRUE /\ request' = "update"
     \/ ~tuned /\ tuned' = FALSE /\ request' = "failed"
  /\ UNCHANGED <<tableVars, hasFreq, dataChanged, dmx, filtered, loopVars, edits, oscam, flaws>>

\* GET does not look at the result of update.
Ignored ==
  /\ request = "failed"
  /\ request' = "idle"
  /\ UNCHANGED <<tableVars, deviceVars, loopVars, edits, oscam, flaws>>

\* Filter::updatePIDFilters of the thread w, up to its loop.
BeginFilters(w) ==
  /\ lock = "none"
  /\ IF changed
     THEN lock' = w /\ cursor' = 0 /\ changed' = FALSE
     ELSE UNCHANGED <<loopVars, changed>>

BeginRequestFilters ==
  /\ request = "update"
  /\ BeginFilters("request")
  /\ request' = IF changed THEN "updating" ELSE "idle"
  /\ UNCHANGED <<table, wanted, deviceVars, edits, oscam, flaws>>

\* One PID of that loop: closed first, then opened.  Without an open device it opens
\* the device and sets a PES filter for the PID; to a device that has one it adds the
\* PID; a device that could not be given one refuses to add or remove any.
FilterPid ==
  /\ lock # "none" /\ cursor \in Pids
  /\ \E closed, opened \in BOOLEAN, dmxNext \in {"closed", "open", "on"} :
       LET due == ShouldClose(table[cursor])
           after == IF closed THEN AfterClose(table[cursor]) ELSE table[cursor]
       IN  /\ closed => due /\ dmx = "on"
           /\ opened => after = "ShouldOpen" /\ dmxNext = "on"
           /\ IF after = "ShouldOpen" /\ dmx = "closed"
              THEN dmxNext = "on" => opened
              ELSE dmxNext = dmx
           /\ DeviceFails \/ ((due /\ dmx = "on" => closed) /\ (after = "ShouldOpen" /\ dmx # "open" => opened))
           /\ table' = [table EXCEPT ![cursor] = IF opened THEN "Opened" ELSE after]
           /\ changed' = (changed \/ (closed /\ after = "ShouldOpen"))
           /\ filtered' = (IF closed THEN filtered \ {cursor} ELSE filtered)
                            \cup (IF opened THEN {cursor} ELSE {})
           /\ dmx' = dmxNext
           /\ flaws' = IF (due => closed) /\ (after = "ShouldOpen" => opened)
                       THEN flaws ELSE flaws \cup {"device"}
  /\ cursor' = cursor + 1
  /\ UNCHANGED <<wanted, hasFreq, dataChanged, tuned, lock, request, edits, oscam>>

EndFilters ==
  /\ lock # "none" /\ cursor = AllPids + 1
  /\ lock' = "none"
  /\ request' = IF lock = "request" THEN "idle" ELSE request
  /\ oscam' = IF lock = "oscam" THEN "idle" ELSE oscam
  /\ UNCHANGED <<tableVars, deviceVars, cursor, edits, flaws>>

-----------------------------------------------------------------------------
(* Frontend::teardown; a failed SETUP or PLAY comes here too.                 *)

BeginTeardown ==
  /\ request \in {"idle", "parsed", "failed"}
  /\ request' = "teardown"
  /\ UNCHANGED <<tableVars, deviceVars, loopVars, edits, oscam, flaws>>

Untune ==
  /\ request = "untune"
  /\ tuned' = FALSE /\ request' = "teardownDmx"
  /\ UNCHANGED <<tableVars, hasFreq, dataChanged, dmx, filtered, loopVars, edits, oscam, flaws>>

\* DeviceData::initialize.
Initialize ==
  /\ request = "initialize" /\ lock = "none"
  /\ dataChanged' = FALSE /\ hasFreq' = FALSE
  /\ table' = Cleared(table) /\ changed' = ClearChanges(table) /\ wanted' = {}
  /\ request' = "idle"
  /\ UNCHANGED <<tuned, dmx, filtered, loopVars, edits, oscam, flaws>>

-----------------------------------------------------------------------------
(* The DVBAPI client: Frontend::startOSCamFilterData.                         *)

OscamSetPid(p) ==
  /\ oscam = "idle" /\ lock = "none"
  /\ oscam' = "check"
  /\ table' = SetPIDs(table, {p}, TRUE)
  /\ changed' = (changed \/ Changes(table, {p}, TRUE))
  /\ wanted' = wanted \cup {p}
  /\ UNCHANGED <<deviceVars, loopVars, request, edits, flaws>>

\* Frontend::updatePIDFilters looks at _tuned before it has the lock.
OscamCheck ==
  /\ oscam = "check"
  /\ oscam' = IF tuned THEN "wait" ELSE "idle"
  /\ UNCHANGED <<tableVars, deviceVars, loopVars, request, edits, flaws>>

\* Too early: a request for another channel was parsed, and its PIDs are opened on the
\* old one.  Too late: the filters were closed, and the device will be.
BeginOscamFilters ==
  /\ oscam = "wait"
  /\ BeginFilters("oscam")
  /\ oscam' = IF changed THEN "updating" ELSE "idle"
  /\ flaws' = flaws
       \cup (IF changed /\ dataChanged THEN {"early"} ELSE {})
       \cup (IF changed /\ (~tuned \/ request = "untune") THEN {"late"} ELSE {})
  /\ UNCHANGED <<table, wanted, deviceVars, request, edits>>

-----------------------------------------------------------------------------
RequestStep ==
  \/ \E r \in Requests : Parse(r)
  \/ Edit \/ Parsed
  \/ BeginUpdate \/ CloseFilters \/ CloseDmx \/ Tune \/ Ignored \/ BeginRequestFilters
  \/ BeginTeardown \/ Untune \/ Initialize
OscamStep == (\E p \in OscamPids : OscamSetPid(p)) \/ OscamCheck \/ BeginOscamFilters
Next == RequestStep \/ OscamStep \/ FilterPid \/ EndFilters

Spec == Init /\ [][Next]_vars

-----------------------------------------------------------------------------
Quiet == request = "idle" /\ oscam = "idle"

\* The demux device delivers no PID that the table has as closed, whatever fails and
\* whenever OSCam comes: none is left behind that nobody will close.
NoStrayFilter == \A p \in filtered : table[p] \in {"Opened", "ShouldClose", "ShouldCloseReopen"}

\* A PID that the table has as opened is delivered, unless OSCam came too late.
OpenedIsFiltered == "late" \notin flaws => \A p \in Pids : table[p] = "Opened" => p \in filtered

\* A frontend that is not tuned, or was torn down, does not keep the demux device open,
\* unless OSCam came too late.
DemuxReleased == "late" \notin flaws /\ ~tuned /\ request = "idle" => dmx = "closed"

\* When request and OSCam are done, every PID that was asked for is delivered.
WantedIsFiltered == flaws = {} /\ tuned /\ Quiet => wanted \subseteq filtered

\* What parsePIDString promises: a request opens the PIDs it adds.
RequestOpens == flaws \subseteq {"early"} /\ tuned /\ Quiet => wanted \subseteq filtered

\* What PidTable::clear promises: a PID that is still open is closed later.
ClearCloses == flaws = {} /\ tuned /\ Quiet => \A p \in Pids : table[p] # "ShouldClose"

-----------------------------------------------------------------------------
\* The inductive invariant.  Where the lock and _tuned are in each step; what the table
\* says of the device; and, if nothing went wrong, that every PID asked for is open or on
\* its way to be opened by a thread that has yet to come to it.
LockInv ==
  /\ lock = "request" <=> request = "updating"
  /\ lock = "oscam" <=> oscam = "updating"
  /\ request \in {"update", "updating"} => tuned
  /\ request \in {"close", "closeDmx", "teardownDmx", "initialize", "failed"} => ~tuned
  /\ dataChanged =>
       request \in {"edit", "parsed", "teardown", "untune", "teardownDmx", "initialize"}

DeviceInv ==
  /\ filtered # {} => dmx = "on"
  /\ NoStrayFilter
  /\ OpenedIsFiltered
  /\ "late" \notin flaws =>
       /\ ~tuned /\ dmx # "closed" => request \in {"close", "closeDmx", "teardownDmx"}
       /\ ~tuned /\ lock = "oscam" => request = "close"
       /\ request \in {"untune", "closeDmx", "teardownDmx"} =>
            lock # "oscam" /\ \A p \in Pids : table[p] # "Opened"

Pending(p) == lock # "none" /\ cursor <= p
WantedInv ==
  flaws = {} =>
    /\ dataChanged \/ request = "close" => lock = "none" /\ \A p \in Pids : table[p] # "Opened"
    /\ \A p \in Pids : ShouldClose(table[p]) =>
         p \in filtered /\ request \notin {"untune", "closeDmx", "teardownDmx"}
    /\ request \notin {"untune", "teardownDmx", "initialize"} =>
         \A p \in wanted : table[p] \in {"ShouldOpen", "Opened", "ShouldCloseReopen"}
    /\ \A p \in Pids : table[p] = "ShouldOpen" =>
         /\ changed \/ Pending(p)
         /\ tuned => \/ request \notin {"idle", "updating"}
                     \/ oscam \in {"check", "wait"}
                     \/ Pending(p)

IInv == TypeOK /\ LockInv /\ DeviceInv /\ WantedInv
=============================================================================
