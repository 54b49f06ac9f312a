----------------------------- MODULE OSCamFilters -----------------------------
(***************************************************************************)
(* The section filters that OSCam has the DVBAPI client set on one PID:    *)
(* the client thread starts and stops them as OSCam's messages say, and    *)
(* the streaming thread has the sections on that PID collected, and sends  *)
(* OSCam those that match.                                                 *)
(*                                                                         *)
(* Abstracted: a filter's 16 bytes of data and mask are the set of tables  *)
(* that they let pass, a section its table and how many packets it takes.  *)
(* PAT and PMT, which are not sent, are left out, and so are the keys      *)
(* (module PacketRing) and the opening of the PIDs (module PidFilters).    *)
(***************************************************************************)
EXTENDS Integers, FiniteSets

CONSTANTS
  Slots,       \* demux and filter numbers that OSCam uses, in the order of the search
  Tables,      \* tables on the PID
  WithCRC,     \* those of Tables whose sections end in a CRC, as those of ECM and EMM do not
  MaxGaps      \* bound: packets that are lost

ASSUME OSCamFiltersAssumption ==
  /\ Slots \subseteq Nat /\ IsFiniteSet(Slots) /\ WithCRC \subseteq Tables /\ MaxGaps \in Nat

VARIABLES
  filters,     \* _filterData of the slots
  onAir,       \* the section that is broadcast, and how many of its packets were
  filterSent,  \* history: what OSCam was sent last, and by which filter
  gaps

oscamFilterVars == <<filters, onAir, filterSent, gaps>>

NoSection == [table |-> "none", packets |-> 0]
AirSections == [table : Tables, packets : 1..2]
NothingSent == [section |-> NoSection, asked |-> TRUE, broken |-> FALSE]

-----------------------------------------------------------------------------
(* FilterData *)

\* of, have: the section that is collected, and how much of it; missed: a packet of the PID
\* went by meanwhile, so that the continuity counter will not fit; broken: history, a section
\* broke off in this filter.
NoFilter == [active |-> FALSE, pass |-> {}, collecting |-> FALSE, of |-> NoSection, have |-> 0,
             missed |-> FALSE, broken |-> FALSE]
SetFilter(pass) == [NoFilter EXCEPT !.active = TRUE, !.pass = pass]

\* Mutant: the filter takes the next section, whichever it is.
ResetTableData_StaysCollecting(f) == [f EXCEPT !.of = NoSection, !.have = 0]

ResetTableData(f) == [f EXCEPT !.collecting = FALSE, !.of = NoSection, !.have = 0]

\* A section that breaks off leaves the filter collecting: the next one will not be matched.
Erased(f) == [f EXCEPT !.of = NoSection, !.have = 0, !.broken = TRUE]

\* matchOrCollecting(): the bytes that the filter compares may be those of any packet.
MatchOrCollecting(f, p) == f.active /\ (f.collecting \/ p.names \in f.pass)

\* TableData::collectData() of raw data: the packet begins a section, is the next one of it,
\* or neither; a section that is longer than a packet must end in a CRC.
CollectRaw(f, p) ==
  LET c == [f EXCEPT !.collecting = TRUE, !.missed = FALSE] IN
  CASE f.have = 0 /\ p.which = 1 -> [c EXCEPT !.of = p.section, !.have = 1]
    [] f.have = 0 /\ p.which # 1 -> Erased(c)
    [] f.have > 0 /\ f.missed -> Erased(c)
    [] f.have > 0 /\ ~f.missed ->
         IF f.have + 1 < f.of.packets \/ f.of.table \in WithCRC
         THEN [c EXCEPT !.have = f.have + 1] ELSE Erased(c)

IsCollectedNow(f) == f.have > 0 /\ f.have = f.of.packets

-----------------------------------------------------------------------------

OSCamFiltersTypeOK ==
  /\ filters \in [Slots -> [active : BOOLEAN, pass : SUBSET Tables, collecting : BOOLEAN,
                            of : AirSections \cup {NoSection}, have : 0..2,
                            missed : BOOLEAN, broken : BOOLEAN]]
  /\ onAir \in [section : AirSections \cup {NoSection}, sent : 0..2]
  /\ onAir.sent <= onAir.section.packets
  /\ filterSent \in [section : AirSections \cup {NoSection}, asked : BOOLEAN, broken : BOOLEAN]
  /\ gaps \in 0..MaxGaps

OSCamFiltersInit ==
  /\ filters = [s \in Slots |-> NoFilter]
  /\ onAir = [section |-> NoSection, sent |-> 0]
  /\ filterSent = NothingSent /\ gaps = 0

\* DVBAPI_DMX_SET_FILTER, also of a slot that is in use, and DVBAPI_DMX_STOP
StartFilter(s, pass) ==
  /\ filters' = [filters EXCEPT ![s] = SetFilter(pass)]
  /\ UNCHANGED <<onAir, filterSent, gaps>>

StopFilter(s) ==
  /\ filters[s].active
  /\ filters' = [filters EXCEPT ![s] = NoFilter]
  /\ UNCHANGED <<onAir, filterSent, gaps>>

\* stopOSCamFilters(), when the stream stops
ClearFilters ==
  /\ \E s \in Slots : filters[s].active
  /\ filters' = [s \in Slots |-> NoFilter]
  /\ UNCHANGED <<onAir, filterSent, gaps>>

\* The next packet of the PID: the first of a section names its table where a filter
\* compares, a later one has anything there.
AirPackets ==
  IF onAir.sent = onAir.section.packets
  THEN {[section |-> s, which |-> 1, names |-> s.table] : s \in AirSections}
  ELSE {[section |-> onAir.section, which |-> onAir.sent + 1, names |-> n] :
          n \in Tables \cup {"none"}}

Goes(p) == onAir' = [section |-> p.section, sent |-> p.which]

\* Those of seen see the packet; in one whose section it completes the next one may begin.
ShowTo(seen, p) ==
  filters' = [s \in Slots |->
    LET f == filters[s]
        took == CollectRaw(f, p)
    IN IF s \notin seen THEN [f EXCEPT !.missed = (@ \/ f.have > 0)]
       ELSE IF ~MatchOrCollecting(f, p) THEN f
       ELSE IF IsCollectedNow(took) THEN ResetTableData(took) ELSE took]

\* Filter::find(): the search ends at the first filter whose section is complete; the others
\* behind it do not see the packet.
Find(p) ==
  LET done == {s \in Slots : MatchOrCollecting(filters[s], p) /\ IsCollectedNow(CollectRaw(filters[s], p))}
  IN
  \/ done = {} /\ ShowTo(Slots, p) /\ UNCHANGED filterSent
  \/ \E s \in done :
       /\ \A r \in done : s <= r
       /\ ShowTo({r \in Slots : r <= s}, p)
       /\ LET f == CollectRaw(filters[s], p) IN
            filterSent' = [section |-> f.of, asked |-> f.of.table \in f.pass, broken |-> f.broken]

\* Client::decrypt(): a packet that is not scrambled is shown to the filters, and the section
\* that it completes is sent.
FilterPacket(p) == Goes(p) /\ Find(p) /\ UNCHANGED gaps

GapInStream(p) ==
  /\ gaps < MaxGaps /\ gaps' = gaps + 1
  /\ Goes(p)
  /\ filters' = [s \in Slots |-> [filters[s] EXCEPT !.missed = (@ \/ filters[s].have > 0)]]
  /\ UNCHANGED filterSent

OSCamFiltersNext ==
  \/ \E s \in Slots : StopFilter(s) \/ \E pass \in (SUBSET Tables) \ {{}} : StartFilter(s, pass)
  \/ ClearFilters
  \/ \E p \in AirPackets : FilterPacket(p) \/ GapInStream(p)

OSCamFiltersSpec == OSCamFiltersInit /\ [][OSCamFiltersNext]_oscamFilterVars

-----------------------------------------------------------------------------

\* OSCam is sent the sections that the filter asks for.  But once a section broke off in a
\* filter (a packet of it was lost or went to another filter, it has no CRC, or it was only the
\* rest of a section, that looked like one) the filter passes on one that it does not ask for.
FilterDataMatches == filterSent.asked \/ filterSent.broken

\* A filter waits for the rest of a section that it asks for, but for one in which a section
\* broke off, which takes the next one.
FilterOK(f) ==
  /\ f.have > 0 => f.collecting /\ f.active /\ f.of \in AirSections /\ f.have < f.of.packets
  /\ ~f.broken => (f.collecting <=> f.have > 0) /\ (f.have > 0 => f.of.table \in f.pass)

\* The inductive invariant.  A section of two packets without CRC never reaches OSCam.
OSCamFiltersInv ==
  /\ OSCamFiltersTypeOK /\ FilterDataMatches
  /\ onAir.sent = 0 => onAir.section = NoSection
  /\ \A s \in Slots : FilterOK(filters[s])
  /\ filterSent.section.packets = 2 => filterSent.section.table \in WithCRC
=============================================================================
