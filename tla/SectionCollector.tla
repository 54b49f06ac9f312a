-------------------------- MODULE SectionCollector --------------------------
(***************************************************************************)
(* mpegts::TableData: how a PSI table (PAT, PMT, SDT, NIT) is put together *)
(* from the packets of its PID.  The broadcaster repeats the packets of    *)
(* the table's sections for ever and may replace the table by a new        *)
(* version; packets get lost, damaged or come twice; a new tune clears     *)
(* what was collected.  mpegts::Filter hands a packet to the table only    *)
(* until the table is collected.                                           *)
(*                                                                         *)
(* Abstracted: the bytes.  A packet carries one piece of a section; the    *)
(* CRC of a section is right iff all its pieces are there, in order and    *)
(* undamaged.                                                              *)
(***************************************************************************)
EXTENDS Integers, Sequences

CONSTANTS
  Versions,     \* the table's versions: 0, 1, ... in the order they are broadcast
  MaxSec,       \* the highest section number, a byte: 255 in the code
  LastSec,      \* the number of the last section, for each version
  Layout,       \* the packets that are repeated, for each version
  CcMod,        \* continuity counters; 16 in the code
  MaxFaults,    \* bound: packets lost, damaged or doubled
  MaxClears     \* bound: calls of clear()

Sections == 0..MaxSec

\* A packet with piece part of a section of parts pieces.  fills: the section ends where its
\* last packet ends.  shared: the packet also holds the end of the section before this one,
\* or the beginning of the next, so its payload starts with a pointer that is not zero.
SentPacket == [sec : Sections, part : Nat \ {0}, parts : Nat \ {0},
               fills : BOOLEAN, shared : BOOLEAN]

ASSUME SectionAssumption ==
  /\ MaxSec \in Nat /\ Versions \subseteq Nat /\ 0 \in Versions
  /\ LastSec \in [Versions -> Sections]
  /\ Layout \in [Versions -> Seq(SentPacket) \ {<<>>}]
  /\ \A v \in Versions : \A k \in 1..Len(Layout[v]) : Layout[v][k].sec <= LastSec[v]
  /\ CcMod \in Nat \ {0} /\ MaxFaults \in Nat /\ MaxClears \in Nat

VARIABLES
  ver, at, sentCc,   \* the broadcaster: version, next packet, its continuity counter
  faults, clears,
  cur,               \* _currentSectionNumber
  number,            \* _numberOfSections
  finished,          \* _collectingFinished
  table,             \* _dataTable
  misread            \* history: the number of sections was taken from a damaged packet

senderVars == <<ver, at, sentCc>>
tableVars == <<cur, number, finished, table>>
sectionVars == <<senderVars, faults, clears, tableVars, misread>>

Piece == [ver : Versions, sec : Sections, part : Nat \ {0}, ok : BOOLEAN]
Data == [data : Seq(Piece), last : Sections, parts : Nat, fills : BOOLEAN,
         cc : Nat, collected : BOOLEAN]

\* What _dataTable[i] makes where there is no entry; erase() is the same.
NoData == [data |-> <<>>, last |-> 0, parts |-> 0, fills |-> FALSE,
           cc |-> 0, collected |-> FALSE]

SectionTypeOK ==
  /\ ver \in Versions /\ at \in 1..Len(Layout[ver]) /\ sentCc \in 0..CcMod-1
  /\ faults \in 0..MaxFaults /\ clears \in 0..MaxClears
  /\ cur \in Sections /\ number \in 0..MaxSec+1 /\ finished \in BOOLEAN
  /\ table \in [Sections -> Data] /\ misread \in BOOLEAN

SectionInit ==
  /\ ver = 0 /\ at = 1 /\ sentCc = 0 /\ faults = 0 /\ clears = 0
  /\ cur = 0 /\ number = 0 /\ finished = FALSE
  /\ table = [i \in Sections |-> NoData] /\ misread = FALSE

-----------------------------------------------------------------------------

\* What arrives of the packet p that is sent now: its header may be read wrong only when it
\* is damaged.  start: payload starts in it, the pointer is zero and the table ID right.
Arrived(p, sec, last, ok) ==
  [start |-> p.part = 1 /\ ~p.shared, sec |-> sec, last |-> last,
   parts |-> p.parts, fills |-> p.fills, cc |-> sentCc,
   piece |-> [ver |-> ver, sec |-> p.sec, part |-> p.part, ok |-> ok /\ ~p.shared]]

\* The first n pieces are those of one section.
CrcOK(data, n) ==
  \A k \in 1..n : /\ data[k].ok /\ data[k].part = k
                  /\ data[k].ver = data[1].ver /\ data[k].sec = data[1].sec

\* sectionLength <= tableDataSize - 9: one byte more than needed, so a section that fills
\* its last packet is complete only with the packet that follows.
Needed(d) == IF d.parts > 1 /\ d.fills THEN d.parts + 1 ELSE d.parts

\* d is what an entry holds after a packet was added: kept, collected or erased.
Checked(d) ==
  IF Len(d.data) < Needed(d) THEN d
  ELSE IF CrcOK(d.data, d.parts) THEN [d EXCEPT !.collected = TRUE]
  ELSE NoData

\* addData() to an empty entry, with the header's numbers.
First(a) ==
  [data |-> <<a.piece>>, last |-> a.last, parts |-> a.parts, fills |-> a.fills,
   cc |-> a.cc, collected |-> FALSE]

\* Mutant: the same counter is taken for the next one.
More_SameCounter(d, a) ==
  IF a.cc = d.cc
  THEN Checked([d EXCEPT !.data = Append(@, a.piece), !.cc = a.cc])
  ELSE NoData

\* addData() to an entry that has data, or the erase() when it fails.
More(d, a) ==
  IF a.cc = (d.cc + 1) % CcMod
  THEN Checked([d EXCEPT !.data = Append(@, a.piece), !.cc = a.cc])
  ELSE NoData

\* setCollected() goes on to the next section, isCollected() looks at all of them.
Store(d, num) ==
  /\ table' = [table EXCEPT ![cur] = d]
  /\ number' = num
  /\ cur' = IF d.collected /\ cur + 1 < num THEN cur + 1 ELSE cur
  /\ finished' = (num > 0 /\ \A i \in 0..num-1 : table'[i].collected)

\* Mutant: whichever section begins is taken for the current one.
Collect_AnySection(a) ==
  \/ /\ finished
     /\ UNCHANGED tableVars
  \/ /\ ~finished /\ a.start /\ table[cur].data = <<>>
     /\ Store(Checked(First(a)), a.last + 1)
  \/ /\ ~finished /\ table[cur].data # <<>>
     /\ Store(More(table[cur], a), number)
  \/ /\ ~finished /\ ~a.start /\ table[cur].data = <<>>
     /\ Store(NoData, number)

\* Filter::filterData() for a packet of the table's PID.
Collect(a) ==
  \/ /\ finished
     /\ UNCHANGED tableVars
  \/ /\ ~finished /\ a.start /\ table[cur].data = <<>>
     /\ IF a.sec = cur
        THEN Store(Checked(First(a)), a.last + 1)
        ELSE UNCHANGED tableVars
  \/ /\ ~finished /\ table[cur].data # <<>>
     /\ Store(More(table[cur], a), number)
  \/ /\ ~finished /\ ~a.start /\ table[cur].data = <<>>
     /\ Store(NoData, number)

-----------------------------------------------------------------------------

Packet == Layout[ver][at]

Advance ==
  /\ at' = IF at = Len(Layout[ver]) THEN 1 ELSE at + 1
  /\ sentCc' = (sentCc + 1) % CcMod
  /\ UNCHANGED <<ver, clears>>

Intact == Arrived(Packet, Packet.sec, LastSec[ver], TRUE)

Fault == faults < MaxFaults /\ faults' = faults + 1

Deliver == Collect(Intact) /\ Advance /\ UNCHANGED <<faults, misread>>

\* Not received, or with the transport error indicator, which filterData() skips.
Lose == Fault /\ Advance /\ UNCHANGED <<tableVars, misread>>

Damage ==
  \E sec, last \in Sections :
    /\ Fault /\ Collect(Arrived(Packet, sec, last, FALSE)) /\ Advance
    /\ misread' = (misread \/ number' # number)

\* A packet may be sent twice, with the same counter.
Repeat == Fault /\ Collect(Intact) /\ UNCHANGED <<senderVars, clears, misread>>

NewVersion ==
  /\ at = 1 /\ ver + 1 \in Versions
  /\ ver' = ver + 1
  /\ UNCHANGED <<at, sentCc, faults, clears, tableVars, misread>>

\* TableData::clear(), of a new tune.
Clear ==
  /\ clears < MaxClears /\ clears' = clears + 1
  /\ cur' = 0 /\ number' = 0 /\ finished' = FALSE
  /\ table' = [i \in Sections |-> NoData] /\ misread' = FALSE
  /\ UNCHANGED <<senderVars, faults>>

SectionNext == Deliver \/ Lose \/ Damage \/ Repeat \/ NewVersion \/ Clear

\* The broadcaster goes on.
SectionSpec == SectionInit /\ [][SectionNext]_sectionVars /\ WF_sectionVars(Deliver)

-----------------------------------------------------------------------------

\* d holds all pieces of section i of one version, the one its header named.
Whole(d, i) ==
  /\ d.collected /\ d.parts > 0 /\ Len(d.data) >= d.parts /\ CrcOK(d.data, d.parts)
  /\ d.data[1].sec = i
  /\ d.last = LastSec[d.data[1].ver]

\* A table that counts as collected has every section that it counts, each of them whole
\* and in its own place; and it counts as many as the version of the section collected last
\* has, whatever numbers were left by tries that failed.  (Its sections may be of different
\* versions.)  The exception: _numberOfSections is taken from a packet before the CRC is
\* checked, so a damaged last section number may end the collection early.
FinishedIsWhole ==
  finished => /\ number > 0
              /\ \A i \in 0..number-1 : Whole(table[i], i)
              /\ misread \/ number = LastSec[table[number-1].data[1].ver] + 1

\* The inductive invariant: the sections below the current one are collected, those above
\* it not begun; and the number of sections is that of the header of the section that is
\* being collected, if this header was not damaged.
CurrentInv ==
  /\ \A i \in Sections : /\ (table[i].collected => Whole(table[i], i))
                        /\ (i < cur => table[i].collected)
                        /\ (i > cur => table[i] = NoData)
  /\ (~finished => ~table[cur].collected)
  /\ (~finished /\ ~misread => number = 0 \/ cur < number)
  /\ ~finished /\ table[cur].data # <<>> =>
       /\ table[cur].parts > 0
       /\ table[cur].data[1].ok =>
            /\ table[cur].data[1].sec = cur
            /\ table[cur].last = LastSec[table[cur].data[1].ver]
            /\ number = table[cur].last + 1 /\ cur < number

SectionInv == SectionTypeOK /\ CurrentInv /\ FinishedIsWhole

\* The collector waits for a section that the table no longer has: sections were collected
\* of a version that had more of them.
Outrun == cur > LastSec[ver]

\* The section it waits for has a packet that is shared with another section.
Packed == \E k \in 1..Len(Layout[ver]) : Layout[ver][k].sec = cur /\ Layout[ver][k].shared

\* What the collecting comes to.
Collected == finished \/ Outrun \/ Packed
=============================================================================
