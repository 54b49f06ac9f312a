------------------------------- MODULE PsiTables -------------------------------
(***************************************************************************)
(* mpegts::Filter: the tables of the transport stream (PAT, PMT, SDT, NIT) *)
(* that filterData() collects on the streaming thread from the packets of  *)
(* the open PIDs, what it makes of them, and when requests throw them      *)
(* away; and the PCR, by which the file and child process inputs pace      *)
(* their reading.                                                          *)
(*                                                                         *)
(* Abstracted: how a table is put together from packets (module            *)
(* SectionCollector), so that any packet of its PID may complete it; which *)
(* PIDs requests open and close (module PidFilters); descriptors are       *)
(* records, and the texts of the tables are left out.                      *)
(***************************************************************************)
EXTENDS Integers, Sequences, FiniteSets, FiniteSetsExt, SequencesExt

CONSTANTS
  Airs,      \* of each transport stream its tables and PCR PIDs
  PidSets,   \* the PIDs that are asked for together
  Half,      \* 2^31: the PCR base is read as a number of 32 bits
  Steps,     \* how far the PCR goes from one to the next
  MaxDelta   \* 75000

ASSUME PsiTablesAssumption ==
  /\ Airs # <<>> /\ Half \in Nat \ {0} /\ Steps \subseteq 1..(2 * Half - 1)
  /\ MaxDelta \in Nat \ {0}

VARIABLES
  air,               \* the transport stream that is tuned
  openPids, closePids,   \* the PIDs that are open, and those that are to be closed
  pat, sdt, nit,     \* of each table: the stream it is from ("none": not collected), its content
  pmts,              \* _pmtMap
  pcrPrev, pcrDelta,
  pcrBase,           \* of the PCR that was sent last
  unpaid, pcrExcused,   \* history: how much of the stream no wait was for; and why not
  nitKept            \* history: tuned anew and the NIT was not thrown away

pidVars == <<openPids, closePids>>
pcrVars == <<pcrPrev, pcrDelta, pcrBase, unpaid, pcrExcused>>
psiVars == <<air, pidVars, pat, sdt, nit, pmts, pcrVars, nitKept>>

NoTable == [of |-> "none", has |-> {}]
NoPmt == [of |-> "none", pcr |-> 0, ecm |-> <<>>]   \* _pcrPID is 0 until it is parsed

PmtPids == UNION {DOMAIN Airs[a].pmt : a \in DOMAIN Airs}
PcrPids == UNION {{Airs[a].pmt[p].pcr : p \in DOMAIN Airs[a].pmt} : a \in DOMAIN Airs}
Pids == {0, 16, 17} \cup PmtPids \cup PcrPids

-----------------------------------------------------------------------------
(* The contents *)

\* PAT::parse(): of the first section the PIDs of the programs; program 0 is the NIT.
ParsePAT(sections) == {e.pid : e \in {x \in ToSet(sections[1]) : x.program # 0}}

\* PAT::generateFrom() a map of n frequencies
GeneratedPAT(n) ==
  <<[i \in 1..(n + 1) |-> IF i = 1 THEN [program |-> 0, pid |-> 16]
                          ELSE [program |-> 16384 + i - 2, pid |-> 256 + 16 * (i - 2)]]>>

\* PMT::parse(): the CA descriptors of the program, unless they are empty, and those of its
\* elementary streams
EcmPids(descriptors) == [i \in DOMAIN descriptors |-> descriptors[i].ecm]
ParsePMT(a, t) ==
  LET ca(ds) == SelectSeq(ds, LAMBDA d : d.tag = 9)
      program == SelectSeq(ca(t.info), LAMBDA d : d.length > 0)
  IN [of |-> a, pcr |-> t.pcr,
      ecm |-> EcmPids(program \o ca(FlattenSeq([i \in DOMAIN t.es |-> t.es[i].info])))]

\* SDT::parse(): the services whose first descriptor has the name; it looks no further than five
\* bytes before the end.
ParseSDT(sections) ==
  {s.id : s \in {x \in UNION {ToSet(sections[i]) : i \in DOMAIN sections} :
     x.descriptors # <<>> /\ x.descriptors[1].tag = 72
     /\ FoldSeq(LAMBDA d, sum : sum + 2 + d.length, 0, x.descriptors) > 5}}

\* NIT::parse(): of the transport streams of all sections the cable ones
ParseNIT(sections) ==
  {s.id : s \in {x \in UNION {ToSet(sections[i]) : i \in DOMAIN sections} :
     \E d \in ToSet(x.descriptors) : d.tag = 68}}

-----------------------------------------------------------------------------
(* The PCR: its base is read as a signed number, without the lowest bit *)

Signed(n) == IF n >= Half THEN n - 2 * Half ELSE n
PcrBase(n) == 2 * Signed(n)

\* The base that is step behind, in the stream.
BaseBehind(n, step) == IF n + step < 2 * Half THEN n + step ELSE n + step - 2 * Half

\* Mutant: the new PCR is stored before the difference is taken.
CollectPCR_StoredFirst(cur, prev) == [prev |-> cur, delta |-> 0]

\* PCR::collectData()
CollectPCR(cur, prev) ==
  LET d == cur - prev IN
  [prev |-> cur, delta |-> 11 * (IF d < 0 THEN 1 ELSE Min({d, MaxDelta}))]

\* The PMTs with this PCR PID: it is collected once for each.
PmtsOfPCR(pid) == {p \in DOMAIN pmts : pmts[p].pcr = pid}

-----------------------------------------------------------------------------

PsiTypeOK ==
  /\ air \in DOMAIN Airs
  /\ openPids \subseteq Pids /\ closePids \subseteq Pids \ openPids
  /\ {pat.of, sdt.of, nit.of} \subseteq DOMAIN Airs \cup {"none"}
  /\ DOMAIN pmts \subseteq PmtPids
  /\ pcrBase \in 0..(2 * Half - 1) /\ pcrPrev \in Int /\ pcrDelta \in 0..(11 * MaxDelta) /\ unpaid \in Nat
  /\ pcrExcused \in BOOLEAN /\ nitKept \in BOOLEAN

PsiInit ==
  /\ air \in DOMAIN Airs
  /\ openPids = {} /\ closePids = {}
  /\ pat = NoTable /\ sdt = NoTable /\ nit = NoTable /\ pmts = <<>>
  /\ pcrPrev = 0 /\ pcrDelta = 0 /\ pcrBase = 1 /\ unpaid = 0 /\ pcrExcused = FALSE
  /\ nitKept = FALSE

\* filterData(): a packet of a table that is not collected yet; done: it is the last one.
TablePacket(done) ==
  /\ \/ /\ 0 \in openPids /\ UNCHANGED <<sdt, nit, pmts>>
        /\ pat' = IF pat.of = "none" /\ done THEN [of |-> air, has |-> ParsePAT(Airs[air].pat)] ELSE pat
     \/ /\ 17 \in openPids /\ UNCHANGED <<pat, nit, pmts>>
        /\ sdt' = IF sdt.of = "none" /\ done THEN [of |-> air, has |-> ParseSDT(Airs[air].sdt)] ELSE sdt
     \/ /\ 16 \in openPids /\ UNCHANGED <<pat, sdt, pmts>>
        /\ nit' = IF nit.of = "none" /\ done THEN [of |-> air, has |-> ParseNIT(Airs[air].nit)] ELSE nit
     \/ \E pid \in DOMAIN Airs[air].pmt :
          /\ pid \in openPids /\ UNCHANGED <<pat, sdt, nit>>
          /\ LET had == IF pid \in DOMAIN pmts THEN pmts[pid] ELSE NoPmt IN
             pmts' = IF pid \notin pat.has THEN pmts
                     ELSE [p \in DOMAIN pmts \cup {pid} |->
                             IF p # pid THEN pmts[p]
                             ELSE IF had.of = "none" /\ done THEN ParsePMT(air, Airs[air].pmt[pid])
                             ELSE had]
  /\ UNCHANGED <<air, openPids, closePids, pcrVars, nitKept>>

\* A packet with a PCR, of the program of the PMT at pid.  A stream without one is not waited
\* for, a break in the PCR neither, nor the second of two PCRs in one buffer.
PcrPacket(pid, step) ==
  /\ pid \in DOMAIN Airs[air].pmt
  /\ LET pcrPid == Airs[air].pmt[pid].pcr
         next == BaseBehind(pcrBase, step)
         got == CollectPCR(PcrBase(next), pcrPrev)
         pmtsOf == PmtsOfPCR(pcrPid)
     IN
     /\ pcrPid \in openPids /\ pcrPid \notin pat.has
     /\ pcrBase' = next
     /\ IF pmtsOf = {}
        THEN pcrExcused' = (pcrExcused \/ pcrPrev # 0) /\ UNCHANGED <<pcrPrev, pcrDelta, unpaid>>
        ELSE /\ pcrPrev' = got.prev
             /\ pcrDelta' = IF Cardinality(pmtsOf) = 1 THEN got.delta
                            ELSE CollectPCR(PcrBase(next), got.prev).delta
             /\ unpaid' = IF pcrPrev = 0 THEN 0 ELSE 2 * step
             /\ pcrExcused' = (pcrExcused \/ Cardinality(pmtsOf) # 1 \/ pcrDelta # 0 \/ 2 * step > MaxDelta
                            \/ (pcrPrev # 0 /\ Signed(next) < Signed(pcrBase)))
  /\ UNCHANGED <<air, openPids, closePids, pat, sdt, nit, pmts, nitKept>>

\* TSReader::isDataAvailable() waits for the rest of the time that the PCR gives.
PcrWait ==
  /\ pcrDelta # 0
  /\ pcrDelta' = 0 /\ unpaid' = Max({0, unpaid - (pcrDelta \div 11)})
  /\ UNCHANGED <<air, pidVars, pat, sdt, nit, pmts, pcrPrev, pcrBase, pcrExcused, nitKept>>

NewPCR == pcrPrev' = 0 /\ pcrDelta' = 0 /\ unpaid' = 0 /\ pcrExcused' = FALSE /\ UNCHANGED pcrBase

\* Filter::clear(), by a request
ClearTables ==
  /\ openPids' = {} /\ closePids' = closePids \cup openPids
  /\ pat' = NoTable /\ sdt' = NoTable /\ nit' = NoTable /\ pmts' = <<>>
  /\ NewPCR /\ nitKept' = FALSE
  /\ UNCHANGED air

\* setPID() of a PID that is no longer asked for, and of all when the frontend tunes anew
PidsUnwanted(pids) ==
  /\ pids \subseteq openPids /\ pids # {}
  /\ openPids' = openPids \ pids /\ closePids' = closePids \cup pids
  /\ UNCHANGED <<air, pat, sdt, nit, pmts, pcrVars, nitKept>>

\* Mutant: the PMT stays.
WithoutPmt_Kept(pid) == pmts

\* _pmtMap.erase()
WithoutPmt(pid) == [p \in DOMAIN pmts \ {pid} |-> pmts[p]]

\* closePIDFilter_L(): the table of the PID goes as well, but for the NIT.
PidClosed(pid) ==
  /\ pid \in closePids /\ \A q \in closePids : pid <= q
  /\ closePids' = closePids \ {pid}
  /\ pat' = IF pid = 0 THEN NoTable ELSE pat
  /\ sdt' = IF pid = 17 THEN NoTable ELSE sdt
  /\ pmts' = WithoutPmt(pid)
  /\ IF pid \notin {0, 17} \cup DOMAIN pmts /\ PmtsOfPCR(pid) # {}
     THEN NewPCR ELSE UNCHANGED pcrVars
  /\ UNCHANGED <<air, openPids, nit, nitKept>>

\* updatePIDFilters(): what a request asks for is opened.
PidsOpened(pids) ==
  /\ pids \cap (openPids \cup closePids) = {}
  /\ openPids' = openPids \cup pids
  /\ UNCHANGED <<air, closePids, pat, sdt, nit, pmts, pcrVars, nitKept>>

\* Frontend::update() has closed the PIDs.  A request without a frequency, of another input
\* stream, did not clear the tables.
TunesAnew(a) ==
  /\ openPids = {} /\ closePids = {} /\ a # air
  /\ air' = a
  /\ nitKept' = (nit.of # "none")
  /\ UNCHANGED <<pidVars, pat, sdt, nit, pmts, pcrVars>>

PsiNext ==
  \/ \E done \in BOOLEAN : TablePacket(done)
  \/ \E pid \in PmtPids, step \in Steps : PcrPacket(pid, step)
  \/ PcrWait \/ ClearTables
  \/ \E pids \in PidSets : PidsUnwanted(pids) \/ PidsOpened(pids)
  \/ \E pid \in Pids : PidClosed(pid)
  \/ \E a \in DOMAIN Airs : TunesAnew(a)

PsiSpec == PsiInit /\ [][PsiNext]_psiVars

-----------------------------------------------------------------------------

\* mpegts::Filter: what it knows of the channel is of the transport stream that is tuned, however
\* the request, the update and the packets that are still read interleave; but for the NIT.
TablesOfThisStream ==
  /\ pat.of \in {"none", air} /\ sdt.of \in {"none", air}
  /\ nit.of \in {"none", air} \/ nitKept
  /\ \A p \in DOMAIN pmts : pmts[p].of \in {"none", air}

\* mpegts::PCR and TSReader: the reader waits at least as long as the stream that it read
\* lasts, but when two PMTs have the same PCR PID, a buffer has two PCRs, or the PCR breaks.
PacedByPCR == pcrExcused \/ pcrDelta >= 11 * unpaid

\* mpegts::Filter: both, of the transport stream that is tuned now.
TablesAndPace == TablesOfThisStream /\ PacedByPCR

\* Why: a table that was collected is there only as long as its PID is open or to be closed, and
\* all are closed when the stream changes; and the PCR that is compared is that of the base.
OfOpenPids ==
  /\ openPids \cap closePids = {}
  /\ pat.of = "none" \/ 0 \in openPids \cup closePids
  /\ sdt.of = "none" \/ 17 \in openPids \cup closePids
  /\ DOMAIN pmts \subseteq openPids \cup closePids
PcrFollows == pcrExcused \/ pcrPrev = 0 \/ pcrPrev = PcrBase(pcrBase)
=============================================================================
