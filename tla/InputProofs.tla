-------------------------------- MODULE InputProofs --------------------------------
(***************************************************************************)
(* What the inputs promise, for every value of their constants: tables are *)
(* collected from whole sections, and belong to the stream that is tuned,  *)
(* which is the one asked for; what is told of the signal was measured;    *)
(* filterData() sees every packet.                                         *)
(***************************************************************************)
EXTENDS SectionCollector, PsiTables, InputSource, DvbTuner, SignalMonitor, TsInput,
        WellFoundedInduction, TLAPS

-----------------------------------------------------------------------------
(* SectionCollector: whole sections *)

\* An entry without data is one.
LEMMA NoDataType == NoData \in Data /\ NoData.data = <<>> /\ ~NoData.collected
<1>1. 0 \in Sections BY SectionAssumption DEF Sections
<1> QED BY <1>1 DEF NoData, Data

\* What arrives of a packet.
Arrival == [start : BOOLEAN, sec : Sections, last : Sections, parts : Nat \ {0},
            fills : BOOLEAN, cc : Nat, piece : Piece]

LEMMA ArrivedType ==
  ASSUME SectionTypeOK, NEW sec \in Sections, NEW last \in Sections, NEW ok \in BOOLEAN
  PROVE  /\ Packet \in SentPacket
         /\ Arrived(Packet, sec, last, ok) \in Arrival
         /\ Arrived(Packet, sec, last, ok).sec = sec
         /\ Arrived(Packet, sec, last, ok).last = last
         /\ Arrived(Packet, sec, last, ok).piece.ok => ok
         /\ Arrived(Packet, sec, last, ok).piece.sec = Packet.sec
         /\ Arrived(Packet, sec, last, ok).piece.ver = ver
<1>1. Packet \in SentPacket
  <2>1. Layout[ver] \in Seq(SentPacket) BY SectionAssumption DEF SectionTypeOK
  <2> QED BY <2>1 DEF Packet, SectionTypeOK
<1>2. sentCc \in Nat BY SectionAssumption DEF SectionTypeOK
<1> QED BY <1>1, <1>2 DEF Arrived, Arrival, SentPacket, Piece, SectionTypeOK

\* Checked() keeps what was added, or collects it when the CRC is right, or erases it.
LEMMA CheckedCases ==
  ASSUME NEW d \in Data, d.parts > 0, ~d.collected
  PROVE  /\ Checked(d) \in Data
         /\ \/ Checked(d) = d
            \/ Checked(d) = NoData
            \/ /\ Checked(d) = [d EXCEPT !.collected = TRUE]
               /\ CrcOK(d.data, d.parts) /\ Len(d.data) >= d.parts
<1>1. [d EXCEPT !.collected = TRUE] \in Data BY DEF Data
<1>2. Needed(d) >= d.parts BY DEF Needed, Data
<1>3. Len(d.data) \in Nat /\ d.parts \in Nat BY DEF Data
<1>4. Needed(d) \in Nat BY <1>3 DEF Needed
<1> QED BY <1>1, <1>2, <1>3, <1>4, NoDataType DEF Checked

\* d may stand in the current entry when the number of sections is num.
Fits(d, num) ==
  d = NoData \/ /\ d.parts > 0 /\ d.data # <<>>
                /\ (d.data[1].ok => /\ d.data[1].sec = cur
                                    /\ d.last = LastSec[d.data[1].ver]
                                    /\ num = d.last + 1 /\ cur < num)
                /\ (d.collected => Whole(d, cur))

\* A collected section is whole, its first piece undamaged.
LEMMA CheckedFits ==
  ASSUME SectionTypeOK, NEW d \in Data, NEW num, ~d.collected, d # NoData, Fits(d, num)
  PROVE  Checked(d) \in Data /\ Fits(Checked(d), num)
<1>1. CASE Checked(d) = d \/ Checked(d) = NoData
  BY <1>1, NoDataType DEF Fits
<1>2. CASE /\ Checked(d) = [d EXCEPT !.collected = TRUE]
           /\ CrcOK(d.data, d.parts) /\ Len(d.data) >= d.parts
  <2> DEFINE e == [d EXCEPT !.collected = TRUE]
  <2>1. /\ e \in Data /\ e.collected /\ e.data = d.data /\ e.parts = d.parts
        /\ e.last = d.last
    BY DEF Data
  <2>2. d.data[1].ok BY <1>2 DEF CrcOK, Fits, Data
  <2> HIDE DEF e
  <2> QED BY <1>2, <2>1, <2>2 DEF Fits, Whole, e
<1> QED BY <1>1, <1>2, CheckedCases DEF Fits

-----------------------------------------------------------------------------

\* Storing an entry that fits keeps the invariant, if a number of sections that is not
\* greater than the current section is one that was there before, or counts as misread.
LEMMA Storing ==
  ASSUME SectionInv, ~finished, misread' \in BOOLEAN,
         \E d \in Data, num \in 0..MaxSec+1 :
           /\ Fits(d, num) /\ Store(d, num)
           /\ misread' \/ (~misread /\ (num = number \/ cur < num))
  PROVE  /\ cur' \in Sections /\ number' \in 0..MaxSec+1 /\ finished' \in BOOLEAN
         /\ table' \in [Sections -> Data]
         /\ CurrentInv' /\ FinishedIsWhole'
<1> PICK d \in Data, num \in 0..MaxSec+1 :
      /\ Fits(d, num) /\ Store(d, num)
      /\ misread' \/ (~misread /\ (num = number \/ cur < num))
  OBVIOUS
<1> MaxSec \in Nat BY SectionAssumption
<1> USE DEF Sections
<1>1. /\ cur \in 0..MaxSec /\ number \in 0..MaxSec+1 /\ table \in [0..MaxSec -> Data]
      /\ misread \in BOOLEAN
  BY DEF SectionInv, SectionTypeOK
<1>2. /\ table' = [table EXCEPT ![cur] = d] /\ number' = num
      /\ cur' = IF d.collected /\ cur + 1 < num THEN cur + 1 ELSE cur
      /\ finished' = (num > 0 /\ \A i \in 0..num-1 : table'[i].collected)
  BY DEF Store
<1>3. /\ cur' \in 0..MaxSec /\ number' \in 0..MaxSec+1 /\ finished' \in BOOLEAN
      /\ table' \in [0..MaxSec -> Data]
  BY <1>1, <1>2
<1>4. /\ table'[cur] = d
      /\ \A i \in 0..MaxSec : i # cur => table'[i] = table[i]
  BY <1>1, <1>2
<1>5. d.collected => Whole(d, cur) /\ d.collected /\ num = d.last + 1 /\ cur < num
                     /\ d.last = LastSec[d.data[1].ver]
  <2>1. SUFFICES ASSUME d.collected PROVE Whole(d, cur) /\ d.data[1].ok
    BY <2>1, NoDataType DEF Fits
  <2>2. Whole(d, cur) BY <2>1, NoDataType DEF Fits
  <2>3. d.parts \in Nat \ {0} /\ CrcOK(d.data, d.parts)
    BY <2>2 DEF Whole, Data
  <2>4. 1 \in 1..d.parts
    BY <2>3
  <2>5. d.data[1].ok
    BY <2>3, <2>4, Zenon DEF CrcOK
  <2> QED BY <2>2, <2>5
<1>6. \A i \in 0..MaxSec : /\ (table[i].collected => Whole(table[i], i))
                           /\ (i < cur => table[i].collected)
                           /\ (i > cur => table[i] = NoData)
  BY DEF SectionInv, CurrentInv
<1>7. \A i \in 0..MaxSec : table'[i].collected => Whole(table'[i], i)
  BY <1>1, <1>4, <1>5, <1>6
<1>8. \A i \in 0..MaxSec : /\ (i < cur' => table'[i].collected)
                           /\ (i > cur' => table'[i] = NoData)
  BY <1>1, <1>2, <1>4, <1>6
<1>9. ~misread' => num = 0 \/ cur < num
  BY <1>1 DEF SectionInv, CurrentInv
<1>10. ~finished' /\ ~misread' => number' = 0 \/ cur' < number'
  BY <1>1, <1>2, <1>9
<1>11. ~finished' => ~table'[cur'].collected
  <2>1. CASE d.collected /\ cur + 1 < num
    BY <2>1, <1>1, <1>2, <1>4, <1>6, NoDataType
  <2>2. CASE d.collected /\ ~(cur + 1 < num)
    <3>1. num = cur + 1 BY <2>2, <1>1, <1>5
    <3>2. ASSUME NEW i \in 0..num-1 PROVE table'[i].collected
      BY <3>1, <2>2, <1>1, <1>4, <1>6
    <3>3. num > 0 /\ \A i \in 0..num-1 : table'[i].collected BY <3>1, <3>2, <1>1
    <3>4. finished' = TRUE BY <3>3, <1>2
    <3> QED BY <3>4
  <2>3. CASE ~d.collected
    BY <2>3, <1>2, <1>4
  <2> QED BY <2>1, <2>2, <2>3
<1>12. ~finished' /\ table'[cur'].data # <<>> =>
         /\ table'[cur'].parts > 0
         /\ (table'[cur'].data[1].ok =>
              /\ table'[cur'].data[1].sec = cur'
              /\ table'[cur'].last = LastSec[table'[cur'].data[1].ver]
              /\ number' = table'[cur'].last + 1 /\ cur' < number')
  <2>1. CASE d.collected /\ cur + 1 < num
    BY <2>1, <1>1, <1>2, <1>4, <1>6, NoDataType
  <2>2. CASE ~(d.collected /\ cur + 1 < num)
    <3>1. cur' = cur /\ table'[cur'] = d BY <2>2, <1>2, <1>4
    <3> QED BY <3>1, <1>2, NoDataType DEF Fits
  <2> QED BY <2>1, <2>2
<1>13. CurrentInv'
  BY <1>7, <1>8, <1>10, <1>11, <1>12 DEF CurrentInv
<1>14. FinishedIsWhole'
  <2>1. SUFFICES ASSUME finished'
                 PROVE  /\ number' > 0
                        /\ \A i \in 0..number'-1 : Whole(table'[i], i)
                        /\ misread' \/ number' = LastSec[table'[number'-1].data[1].ver] + 1
    BY DEF FinishedIsWhole
  <2>2. num > 0 /\ \A i \in 0..num-1 : table'[i].collected BY <2>1, <1>2
  <2>3. \A i \in 0..num-1 : Whole(table'[i], i) BY <2>2, <1>7
  <2>4. ASSUME ~misread' PROVE num = LastSec[table'[num-1].data[1].ver] + 1
    <3>1. cur < num BY <2>4, <2>2, <1>9
    <3>2. d.collected BY <3>1, <2>2, <1>1, <1>4
    <3>3. num - 1 = cur
      <4>1. SUFFICES ASSUME num - 1 > cur PROVE FALSE BY <3>1, <1>1
      <4>2. table'[num-1] = NoData BY <4>1, <1>1, <1>4, <1>6
      <4> QED BY <4>2, <2>2, NoDataType
    <3> QED BY <3>2, <3>3, <1>4, <1>5
  <2> QED BY <2>2, <2>3, <2>4, <1>2
<1> QED BY <1>3, <1>13, <1>14 DEF Sections

-----------------------------------------------------------------------------

\* What is added to the current entry fits in it.
LEMMA Collecting ==
  ASSUME SectionInv, misread' \in BOOLEAN,
         \E a \in Arrival :
           /\ Collect(a)
           /\ a.piece.ok => /\ a.piece.sec = a.sec /\ a.last = LastSec[a.piece.ver]
                            /\ a.sec <= a.last
           /\ misread' = misread \/ ~finished
           /\ misread' \/ (~misread /\ (number' = number \/ a.sec <= a.last))
  PROVE  /\ cur' \in Sections /\ number' \in 0..MaxSec+1 /\ finished' \in BOOLEAN
         /\ table' \in [Sections -> Data]
         /\ CurrentInv' /\ FinishedIsWhole'
<1> PICK a \in Arrival :
      /\ Collect(a)
      /\ a.piece.ok => /\ a.piece.sec = a.sec /\ a.last = LastSec[a.piece.ver]
                            /\ a.sec <= a.last
      /\ misread' = misread \/ ~finished
      /\ misread' \/ (~misread /\ (number' = number \/ a.sec <= a.last))
  OBVIOUS
<1>1. CASE UNCHANGED tableVars
  <2>1. misread => misread' OBVIOUS
  <2> QED
    BY <1>1, <2>1 DEF SectionInv, SectionTypeOK, tableVars, CurrentInv, FinishedIsWhole, Whole, CrcOK
<1>2. CASE ~finished /\ a.start /\ table[cur].data = <<>> /\ a.sec = cur
           /\ Store(Checked(First(a)), a.last + 1)
  <2> DEFINE d == First(a)
  <2>1. d \in Data /\ d # NoData /\ ~d.collected BY DEF First, Arrival, Data, NoData
  <2>2. Fits(d, a.last + 1)
    <3>1. /\ d.parts = a.parts /\ d.data = <<a.piece>> /\ d.last = a.last
          /\ d.collected = FALSE /\ d.data[1] = a.piece /\ d.data # <<>>
      BY DEF First
    <3>2. a.parts > 0 /\ a.sec \in Int /\ a.last \in Int BY DEF Arrival, Sections
    <3> HIDE DEF d
    <3> QED BY <1>2, <3>1, <3>2 DEF Fits
  <2>3. Checked(d) \in Data /\ Fits(Checked(d), a.last + 1)
    <3> HIDE DEF d
    <3> QED BY <2>1, <2>2, CheckedFits DEF SectionInv
  <2>4. a.last + 1 \in 0..MaxSec+1 BY SectionAssumption DEF Arrival, Sections
  <2>5. number' = a.last + 1 BY <1>2 DEF Store
  <2>6. misread' \/ (~misread /\ (a.last + 1 = number \/ cur < a.last + 1))
    BY <2>5, <1>2 DEF Arrival, Sections, SectionInv, SectionTypeOK
  <2> QED BY <1>2, <2>3, <2>4, <2>6, Storing
<1>3. CASE ~finished /\ Store(NoData, number)
  <2>1. NoData \in Data /\ number \in 0..MaxSec+1 /\ Fits(NoData, number) /\ number' = number
    BY <1>3, NoDataType DEF SectionInv, SectionTypeOK, Fits, Store
  <2> QED BY <1>3, <2>1, Storing
<1>4. CASE ~finished /\ table[cur].data # <<>> /\ Store(More(table[cur], a), number)
  <2>1. CASE a.cc # (table[cur].cc + 1) % CcMod
    BY <2>1, <1>3, <1>4 DEF More
  <2>2. CASE a.cc = (table[cur].cc + 1) % CcMod
    <3> DEFINE t == table[cur]
               d == [t EXCEPT !.data = Append(@, a.piece), !.cc = a.cc]
    <3>1. t \in Data /\ t.parts > 0 /\ ~t.collected /\ Len(t.data) > 0
      BY <1>4 DEF SectionInv, SectionTypeOK, CurrentInv, Data
    <3>2. /\ d \in Data /\ ~d.collected /\ d.parts = t.parts /\ d.last = t.last
          /\ d.data = Append(t.data, a.piece)
      <4>1. Append(t.data, a.piece) \in Seq(Piece) /\ a.cc \in Nat BY <3>1 DEF Data, Arrival
      <4> QED BY <3>1, <4>1 DEF Data
    <3>3. d.data[1] = t.data[1] /\ d.data # <<>> BY <3>1, <3>2 DEF Data, Arrival
    <3>4. Fits(d, number)
      <4>1. t.data[1].ok => /\ t.data[1].sec = cur
                            /\ t.last = LastSec[t.data[1].ver]
                            /\ number = t.last + 1 /\ cur < number
        BY <1>4 DEF SectionInv, CurrentInv
      <4> HIDE DEF d, t
      <4> QED BY <4>1, <3>1, <3>2, <3>3 DEF Fits
    <3>5. d # NoData BY <3>3, NoDataType
    <3>6. Checked(d) \in Data /\ Fits(Checked(d), number)
      <4> HIDE DEF d
      <4> QED BY <3>2, <3>4, <3>5, CheckedFits DEF SectionInv
    <3>7. Store(Checked(d), number) BY <1>4, <2>2 DEF More
    <3>8. number \in 0..MaxSec+1 /\ number' = number
      BY <3>7 DEF SectionInv, SectionTypeOK, Store
    <3>9. misread' \/ (~misread /\ (number = number \/ cur < number)) BY <3>8
    <3> HIDE DEF d
    <3> QED BY <1>4, <3>6, <3>7, <3>8, <3>9, Storing
  <2> QED BY <2>1, <2>2
<1> QED BY <1>1, <1>2, <1>3, <1>4 DEF Collect

-----------------------------------------------------------------------------

\* The invariant holds of a table that nothing was collected of.
LEMMA CleanTable ==
  ASSUME cur' = 0, number' = 0, finished' = FALSE, table' = [i \in Sections |-> NoData]
  PROVE  /\ cur' \in Sections /\ number' \in 0..MaxSec+1 /\ finished' \in BOOLEAN
         /\ table' \in [Sections -> Data]
         /\ CurrentInv' /\ FinishedIsWhole'
<1>1. MaxSec \in Nat BY SectionAssumption
<1>2. table' \in [Sections -> Data] /\ \A i \in Sections : table'[i] = NoData
  BY NoDataType
<1>3. CurrentInv' BY <1>1, <1>2, NoDataType DEF CurrentInv, Sections
<1>4. FinishedIsWhole' BY DEF FinishedIsWhole
<1>5. cur' \in Sections /\ number' \in 0..MaxSec+1 BY <1>1 DEF Sections
<1> QED BY <1>2, <1>3, <1>4, <1>5

\* SectionInv holds initially.
LEMMA SectionInitInv == SectionInit => SectionInv
<1> SUFFICES ASSUME SectionInit PROVE SectionInv OBVIOUS
<1>1. 1 \in 1..Len(Layout[0])
  <2>1. Layout[0] \in Seq(SentPacket) /\ Layout[0] # <<>> BY SectionAssumption
  <2> QED BY <2>1
<1>2. MaxSec \in Nat /\ CcMod \in Nat \ {0} /\ MaxFaults \in Nat /\ MaxClears \in Nat
  BY SectionAssumption
<1>3. table \in [Sections -> Data] /\ \A i \in Sections : table[i] = NoData
  BY NoDataType DEF SectionInit
<1>4. ver \in Versions /\ at \in 1..Len(Layout[ver])
  BY <1>1, SectionAssumption DEF SectionInit
<1>5. SectionTypeOK
  <2>1. /\ sentCc \in 0..CcMod-1 /\ faults \in 0..MaxFaults /\ clears \in 0..MaxClears
        /\ cur \in Sections /\ number \in 0..MaxSec+1
    BY <1>2 DEF SectionInit, Sections
  <2>2. finished \in BOOLEAN /\ misread \in BOOLEAN BY DEF SectionInit
  <2> QED BY <1>3, <1>4, <2>1, <2>2 DEF SectionTypeOK
<1>6. CurrentInv BY <1>2, <1>3, NoDataType DEF SectionInit, CurrentInv, Sections
<1> QED BY <1>5, <1>6 DEF SectionInit, SectionInv, FinishedIsWhole

\* The broadcaster's variables keep their types.
LEMMA AdvanceType ==
  ASSUME SectionTypeOK, Advance
  PROVE  ver' \in Versions /\ at' \in 1..Len(Layout'[ver']) /\ sentCc' \in 0..CcMod-1
         /\ clears' \in 0..MaxClears
<1>1. Len(Layout[ver]) \in Nat BY SectionAssumption DEF SectionTypeOK
<1>2. (sentCc + 1) % CcMod \in 0..CcMod-1 BY SectionAssumption DEF SectionTypeOK
<1> QED BY <1>1, <1>2 DEF SectionTypeOK, Advance

\* What arrives undamaged carries the section that its header names.
LEMMA IntactArrives ==
  ASSUME SectionTypeOK
  PROVE  /\ Intact \in Arrival /\ Intact.sec <= Intact.last
         /\ (Intact.piece.ok =>
               Intact.piece.sec = Intact.sec /\ Intact.last = LastSec[Intact.piece.ver])
<1>1. Layout[ver] \in Seq(SentPacket) BY SectionAssumption DEF SectionTypeOK
<1>2. Packet \in SentPacket /\ Packet.sec <= LastSec[ver]
  BY <1>1, SectionAssumption DEF Packet, SectionTypeOK
<1>3. Packet.sec \in Sections BY <1>2 DEF SentPacket
<1>4. LastSec[ver] \in Sections BY SectionAssumption DEF SectionTypeOK
<1>5. PICK sec \in Sections, last \in Sections, ok \in BOOLEAN :
        /\ sec = Packet.sec /\ last = LastSec[ver] /\ ok = TRUE
  BY <1>3, <1>4
<1>6. Intact = Arrived(Packet, sec, last, ok) BY <1>5 DEF Intact
<1> HIDE DEF Packet
<1>7. /\ Intact \in Arrival /\ Intact.sec = sec /\ Intact.last = last
      /\ Intact.piece.sec = Packet.sec /\ Intact.piece.ver = ver
  BY <1>6, ArrivedType
<1> QED BY <1>2, <1>5, <1>7

-----------------------------------------------------------------------------

\* Every step of the broadcaster and of the collector keeps SectionInv.
LEMMA SectionStep == SectionInv /\ [SectionNext]_sectionVars => SectionInv'
<1> SUFFICES ASSUME SectionInv, [SectionNext]_sectionVars PROVE SectionInv' OBVIOUS
<1> DEFINE Kept == /\ cur' \in Sections /\ number' \in 0..MaxSec+1 /\ finished' \in BOOLEAN
                   /\ table' \in [Sections -> Data]
                   /\ CurrentInv' /\ FinishedIsWhole'
<1>1. SectionTypeOK BY DEF SectionInv
<1>2. ASSUME UNCHANGED tableVars, misread' = misread PROVE Kept
  BY <1>1, <1>2 DEF SectionInv, SectionTypeOK, tableVars, CurrentInv, FinishedIsWhole, Whole, CrcOK
<1>3. ASSUME Collect(Intact), misread' = misread PROVE Kept
  <2>1. PICK a \in Arrival : a = Intact BY <1>1, IntactArrives
  <2>2. /\ Collect(a) /\ a.sec <= a.last
        /\ (a.piece.ok => a.piece.sec = a.sec /\ a.last = LastSec[a.piece.ver])
    BY <1>1, <1>3, <2>1, IntactArrives
  <2>3. misread \in BOOLEAN BY <1>1 DEF SectionTypeOK
  <2> QED BY <1>3, <2>2, <2>3, Collecting
<1>4. ASSUME Fault PROVE faults' \in 0..MaxFaults
  BY <1>4, <1>1, SectionAssumption DEF Fault, SectionTypeOK
<1>5. CASE Deliver
  BY <1>5, <1>1, <1>3, AdvanceType DEF Deliver, SectionInv, SectionTypeOK
<1>6. CASE Lose
  BY <1>6, <1>1, <1>2, <1>4, AdvanceType DEF Lose, SectionInv, SectionTypeOK
<1>7. CASE Damage
  <2>1. PICK sec \in Sections, last \in Sections :
          /\ Fault /\ Collect(Arrived(Packet, sec, last, FALSE)) /\ Advance
          /\ misread' = (misread \/ number' # number)
    BY <1>7 DEF Damage
  <2>2. PICK a \in Arrival : a = Arrived(Packet, sec, last, FALSE) /\ ~a.piece.ok
    BY <1>1, ArrivedType
  <2>3. misread \in BOOLEAN BY <1>1 DEF SectionTypeOK
  <2>4. finished => number' = number BY <2>1 DEF Collect, tableVars
  <2>5. Kept BY <2>1, <2>2, <2>3, <2>4, Collecting
  <2> QED BY <2>1, <2>3, <2>5, <1>1, <1>4, AdvanceType DEF SectionInv, SectionTypeOK
<1>8. CASE Repeat
  BY <1>8, <1>1, <1>3, <1>4 DEF Repeat, senderVars, SectionInv, SectionTypeOK
<1>9. CASE NewVersion
  <2>1. Layout[ver'] \in Seq(SentPacket) \ {<<>>} /\ ver' \in Versions
    BY <1>9, SectionAssumption DEF NewVersion
  <2>2. at' \in 1..Len(Layout[ver']) BY <1>9, <2>1 DEF NewVersion
  <2> QED BY <1>9, <1>1, <1>2, <2>1, <2>2 DEF NewVersion, SectionInv, SectionTypeOK
<1>10. CASE Clear
  <2>1. clears' \in 0..MaxClears BY <1>10, <1>1, SectionAssumption DEF Clear, SectionTypeOK
  <2> QED BY <1>10, <1>1, <2>1, CleanTable DEF Clear, senderVars, SectionInv, SectionTypeOK
<1>11. CASE UNCHANGED sectionVars
  BY <1>11, <1>1, <1>2 DEF sectionVars, senderVars, SectionInv, SectionTypeOK
<1> QED
  BY <1>5, <1>6, <1>7, <1>8, <1>9, <1>10, <1>11 DEF SectionNext

\* The types and the inductive invariant.
THEOREM SectionInvariant == SectionSpec => []SectionInv
<1> QED BY SectionInitInv, SectionStep, PTL DEF SectionSpec

\* A table that counts as collected is whole, however its packets were lost, damaged or
\* doubled and its versions replaced: TableData::collectData() and isCollected().
THEOREM CollectedTableIsWhole == SectionSpec => []FinishedIsWhole
<1>1. SectionInv => FinishedIsWhole BY DEF SectionInv
<1> QED BY <1>1, SectionInvariant, PTL

-----------------------------------------------------------------------------
(* PsiTables: tables of the stream that is tuned *)

\* What the proof needs of the types.
PcrTypes ==
  /\ pcrBase \in 0..(2 * Half - 1) /\ pcrPrev \in Int /\ pcrDelta \in Nat /\ unpaid \in Nat
  /\ pcrExcused \in BOOLEAN
PsiStep == PcrTypes /\ OfOpenPids /\ PcrFollows /\ TablesAndPace

\* The lesser and the greater of two numbers.
LEMMA LesserIs ==
  ASSUME NEW a \in Int, NEW b \in Int
  PROVE  Min({a, b}) = IF a <= b THEN a ELSE b
BY DEF Min

LEMMA GreaterIs ==
  ASSUME NEW a \in Int, NEW b \in Int
  PROVE  Max({a, b}) = IF a >= b THEN a ELSE b
BY DEF Max

\* What is added to the time to wait, of the difference of two PCRs.
LEMMA DeltaIs ==
  ASSUME NEW base \in Int, NEW prev \in Int
  PROVE  LET got == CollectPCR(base, prev) IN
         /\ got.prev = base /\ got.delta \in Nat
         /\ base - prev \in 0..MaxDelta => got.delta = 11 * (base - prev)
<1>1. MaxDelta \in Nat \ {0}
  BY PsiTablesAssumption
<1> DEFINE d == base - prev
           m == Min({d, MaxDelta})
<1>2. d \in Int /\ m = IF d <= MaxDelta THEN d ELSE MaxDelta
  BY <1>1, LesserIs
<1>3. CollectPCR(base, prev) = [prev |-> base, delta |-> 11 * (IF d < 0 THEN 1 ELSE m)]
  BY Zenon DEF CollectPCR
<1>4. CollectPCR(base, prev).prev = base /\ CollectPCR(base, prev).delta = 11 * (IF d < 0 THEN 1 ELSE m)
  BY <1>3
<1> HIDE DEF m
<1>5. 11 * (IF d < 0 THEN 1 ELSE m) \in Nat
  BY <1>1, <1>2
<1>6. d \in 0..MaxDelta => 11 * (IF d < 0 THEN 1 ELSE m) = 11 * d
  BY <1>1, <1>2
<1> QED BY <1>4, <1>5, <1>6

\* The base that is lag behind is read as one that is 2 * lag more, unless it is read as less.
LEMMA StepIs ==
  ASSUME NEW n \in 0..(2 * Half - 1), NEW lag \in 1..(2 * Half - 1)
  PROVE  LET next == BaseBehind(n, lag) IN
         /\ next \in 0..(2 * Half - 1)
         /\ PcrBase(n) \in Int /\ PcrBase(next) \in Int
         /\ Signed(next) >= Signed(n) => PcrBase(next) - PcrBase(n) = 2 * lag
<1>1. Half \in Nat \ {0}
  BY PsiTablesAssumption
<1> QED BY <1>1 DEF BaseBehind, PcrBase, Signed

\* The invariant holds at first.
LEMMA PsiInitStep == PsiInit => PsiStep
<1> SUFFICES ASSUME PsiInit PROVE PsiStep
  OBVIOUS
<1>1. DOMAIN pmts = {}
  BY DEF PsiInit
<1>2. Half \in Nat \ {0} /\ MaxDelta \in Nat \ {0}
  BY PsiTablesAssumption
<1>3. 0 \in Nat /\ 1 \in 0..(2 * Half - 1)
  BY <1>2
<1>4. PcrTypes
  <2>1. pcrExcused \in BOOLEAN
    BY Zenon DEF PsiInit
  <2>2. pcrBase \in 0..(2 * Half - 1) /\ pcrPrev \in Int /\ pcrDelta \in Nat /\ unpaid \in Nat
    BY <1>3 DEF PsiInit
  <2> QED BY <2>1, <2>2, Zenon DEF PcrTypes
<1>5. PcrFollows /\ PacedByPCR
  BY DEF PsiInit, PcrFollows, PacedByPCR
<1>6. OfOpenPids /\ TablesOfThisStream
  BY <1>1 DEF PsiInit, OfOpenPids, TablesOfThisStream, NoTable
<1> QED BY <1>4, <1>5, <1>6 DEF PsiStep, TablesAndPace

\* A step that leaves the PCR alone, or begins anew with it.
LEMMA KeepsPace ==
  ASSUME PsiStep, UNCHANGED pcrVars \/ NewPCR
  PROVE  PcrTypes' /\ PcrFollows' /\ PacedByPCR'
<1>1. CASE UNCHANGED pcrVars
  BY <1>1 DEF PsiStep, PcrTypes, PcrFollows, TablesAndPace, PacedByPCR, pcrVars, PcrBase, Signed
<1>2. CASE NewPCR
  <2>1. 0 \in Nat
    BY PsiTablesAssumption
  <2>2. PcrTypes'
    <3>1. pcrExcused' \in BOOLEAN
      BY <1>2, Zenon DEF NewPCR
    <3>2. pcrBase' \in 0..(2 * Half - 1) /\ pcrPrev' \in Int /\ pcrDelta' \in Nat /\ unpaid' \in Nat
      BY <1>2, <2>1 DEF NewPCR, PsiStep, PcrTypes
    <3> QED BY <3>1, <3>2, Zenon DEF PcrTypes
  <2>3. PcrFollows' /\ PacedByPCR'
    BY <1>2 DEF PcrFollows, PacedByPCR, NewPCR
  <2> QED BY <2>2, <2>3
<1> QED BY <1>1, <1>2

\* What leaves the tables and PIDs alone.
LEMMA KeepsTables ==
  ASSUME PsiStep, UNCHANGED <<air, pidVars, pat, sdt, nit, pmts, nitKept>>
  PROVE  OfOpenPids' /\ TablesOfThisStream'
BY DEF PsiStep, OfOpenPids, TablesAndPace, TablesOfThisStream, pidVars

\* A packet of a table comes from an open PID, thus from this stream.
LEMMA TablePacketKeeps ==
  ASSUME PsiStep, NEW done \in BOOLEAN, TablePacket(done)
  PROVE  OfOpenPids' /\ TablesOfThisStream'
<1>1. OfOpenPids /\ TablesOfThisStream
  BY DEF PsiStep, TablesAndPace
<1>2. UNCHANGED <<air, openPids, closePids, nitKept>>
  BY DEF TablePacket
<1>3. CASE /\ 0 \in openPids /\ UNCHANGED <<sdt, nit, pmts>>
           /\ pat' = IF pat.of = "none" /\ done THEN [of |-> air, has |-> ParsePAT(Airs[air].pat)] ELSE pat
  <2>1. pat'.of \in {"none", air}
    BY <1>1, <1>3 DEF TablesOfThisStream
  <2> QED BY <1>1, <1>2, <1>3, <2>1 DEF OfOpenPids, TablesOfThisStream
<1>4. CASE /\ 17 \in openPids /\ UNCHANGED <<pat, nit, pmts>>
           /\ sdt' = IF sdt.of = "none" /\ done THEN [of |-> air, has |-> ParseSDT(Airs[air].sdt)] ELSE sdt
  <2>1. sdt'.of \in {"none", air}
    BY <1>1, <1>4 DEF TablesOfThisStream
  <2> QED BY <1>1, <1>2, <1>4, <2>1 DEF OfOpenPids, TablesOfThisStream
<1>5. CASE /\ 16 \in openPids /\ UNCHANGED <<pat, sdt, pmts>>
           /\ nit' = IF nit.of = "none" /\ done THEN [of |-> air, has |-> ParseNIT(Airs[air].nit)] ELSE nit
  <2>1. nit'.of \in {"none", air} \/ nitKept
    BY <1>1, <1>5 DEF TablesOfThisStream
  <2> QED BY <1>1, <1>2, <1>5, <2>1 DEF OfOpenPids, TablesOfThisStream
<1>6. ASSUME NEW pid \in openPids, UNCHANGED <<pat, sdt, nit>>,
             LET had == IF pid \in DOMAIN pmts THEN pmts[pid] ELSE NoPmt IN
             pmts' = IF pid \notin pat.has THEN pmts
                     ELSE [p \in DOMAIN pmts \cup {pid} |->
                             IF p # pid THEN pmts[p]
                             ELSE IF had.of = "none" /\ done THEN ParsePMT(air, Airs[air].pmt[pid])
                             ELSE had]
      PROVE  OfOpenPids' /\ TablesOfThisStream'
  <2> DEFINE had == IF pid \in DOMAIN pmts THEN pmts[pid] ELSE NoPmt
             got == IF had.of = "none" /\ done THEN ParsePMT(air, Airs[air].pmt[pid]) ELSE had
  <2>1. had.of \in {"none", air}
    BY <1>1 DEF TablesOfThisStream, NoPmt
  <2>2. ParsePMT(air, Airs[air].pmt[pid]).of = air
    BY Zenon DEF ParsePMT
  <2>3. got.of \in {"none", air}
    BY <2>1, <2>2
  <2>4. pmts' = IF pid \notin pat.has THEN pmts
                ELSE [p \in DOMAIN pmts \cup {pid} |-> IF p # pid THEN pmts[p] ELSE got]
    BY <1>6, Zenon
  <2> HIDE DEF got, had
  <2>5. DOMAIN pmts' \subseteq DOMAIN pmts \cup {pid}
    BY <2>4
  <2>6. \A p \in DOMAIN pmts' : pmts'[p].of \in {"none", air}
    BY <1>1, <2>3, <2>4 DEF TablesOfThisStream
  <2>7. OfOpenPids'
    BY <1>1, <1>2, <1>6, <2>5 DEF OfOpenPids
  <2>8. TablesOfThisStream'
    BY <1>1, <1>2, <1>6, <2>6 DEF TablesOfThisStream
  <2> QED BY <2>7, <2>8
<1> QED BY <1>3, <1>4, <1>5, <1>6, Zenon DEF TablePacket

\* A PCR: it is waited for as long as the stream between it and the one before it lasts.
LEMMA PcrPacketKeeps ==
  ASSUME PsiStep, NEW pid \in PmtPids, NEW lag \in Steps, PcrPacket(pid, lag)
  PROVE  PsiStep'
<1> DEFINE next == BaseBehind(pcrBase, lag)
           got == CollectPCR(PcrBase(next), pcrPrev)
           again == CollectPCR(PcrBase(next), got.prev)
           pmtsOf == PmtsOfPCR(Airs[air].pmt[pid].pcr)
           one == Cardinality(pmtsOf) = 1
<1>1. PcrTypes /\ PcrFollows /\ lag \in 1..(2 * Half - 1)
  BY PsiTablesAssumption DEF PsiStep
<1>2. /\ next \in 0..(2 * Half - 1) /\ PcrBase(next) \in Int
      /\ Signed(next) >= Signed(pcrBase) => PcrBase(next) - PcrBase(pcrBase) = 2 * lag
  BY <1>1, StepIs DEF PcrTypes
<1>3. /\ got.prev = PcrBase(next) /\ got.delta \in Nat
      /\ PcrBase(next) - pcrPrev \in 0..MaxDelta => got.delta = 11 * (PcrBase(next) - pcrPrev)
  BY <1>1, <1>2, DeltaIs DEF PcrTypes
<1>4. again.delta \in Nat
  BY <1>2, <1>3, DeltaIs
<1>5. /\ pcrBase' = next
      /\ IF pmtsOf = {}
         THEN pcrExcused' = (pcrExcused \/ pcrPrev # 0) /\ UNCHANGED <<pcrPrev, pcrDelta, unpaid>>
         ELSE /\ pcrPrev' = got.prev
              /\ pcrDelta' = IF one THEN got.delta ELSE again.delta
              /\ unpaid' = IF pcrPrev = 0 THEN 0 ELSE 2 * lag
              /\ pcrExcused' = (pcrExcused \/ ~one \/ pcrDelta # 0 \/ 2 * lag > MaxDelta
                                \/ (pcrPrev # 0 /\ Signed(next) < Signed(pcrBase)))
      /\ UNCHANGED <<air, openPids, closePids, pat, sdt, nit, pmts, nitKept>>
  BY Zenon DEF PcrPacket
<1>6. OfOpenPids' /\ TablesOfThisStream'
  BY <1>5, KeepsTables DEF pidVars
<1>7. PcrBase(pcrBase)' = PcrBase(next)
  BY <1>5 DEF PcrBase, Signed
<1>8. Signed(next) \in Int /\ Signed(pcrBase) \in Int /\ PcrBase(pcrBase) \in Int /\ MaxDelta \in Nat
      /\ one \in BOOLEAN
  BY <1>1, <1>2, PsiTablesAssumption DEF Signed, PcrTypes, PcrBase
<1> HIDE DEF next, got, again, pmtsOf, one
<1>9. CASE pmtsOf = {}
  <2>1. PcrTypes' /\ PcrFollows'
    BY <1>1, <1>2, <1>5, <1>9 DEF PcrTypes, PcrFollows
  <2>2. PacedByPCR'
    BY <1>5, <1>9 DEF PsiStep, TablesAndPace, PacedByPCR
  <2> QED BY <1>6, <2>1, <2>2 DEF PsiStep, TablesAndPace
<1>10. CASE pmtsOf # {}
  <2>1. pcrExcused' \in BOOLEAN
    BY <1>5, <1>10
  <2>2. pcrDelta' \in Nat /\ unpaid' \in Nat /\ pcrPrev' = PcrBase(next)
    BY <1>1, <1>3, <1>4, <1>5, <1>10
  <2>3. PcrTypes' /\ PcrFollows'
    BY <1>2, <1>5, <1>7, <2>1, <2>2 DEF PcrTypes, PcrFollows
  <2>4. ASSUME ~pcrExcused', pcrPrev # 0
        PROVE  pcrDelta' = 11 * unpaid'
    <3>1. one /\ 2 * lag <= MaxDelta /\ Signed(next) >= Signed(pcrBase) /\ ~pcrExcused
      <4>1. ~(pcrExcused \/ ~one \/ pcrDelta # 0 \/ 2 * lag > MaxDelta
               \/ (pcrPrev # 0 /\ Signed(next) < Signed(pcrBase)))
        BY <1>5, <1>10, <2>4, Zenon
      <4> QED BY <1>1, <1>8, <2>4, <4>1
    <3>2. pcrPrev = PcrBase(pcrBase)
      BY <1>1, <2>4, <3>1 DEF PcrFollows
    <3>3. PcrBase(next) - pcrPrev = 2 * lag
      BY <1>2, <3>1, <3>2
    <3>4. got.delta = 11 * (2 * lag)
      BY <1>1, <1>3, <1>8, <3>1, <3>3
    <3> QED BY <1>5, <1>10, <2>4, <3>1, <3>4
  <2>5. pcrPrev = 0 => unpaid' = 0
    BY <1>5, <1>10
  <2>6. PacedByPCR'
    <3>1. pcrDelta' \in Nat
      BY <1>8, <2>2
    <3>2. CASE unpaid' = 0
      BY <3>1, <3>2 DEF PacedByPCR
    <3>3. CASE pcrPrev # 0
      <4>1. ASSUME ~pcrExcused'
            PROVE  pcrDelta' >= 11 * unpaid'
        <5>1. pcrDelta' = 11 * unpaid'
          BY <2>4, <3>3, <4>1, Zenon
        <5> QED BY <3>1, <5>1
      <4> QED BY <4>1, Zenon DEF PacedByPCR
    <3> QED BY <2>5, <3>2, <3>3
  <2> QED BY <1>6, <2>3, <2>6 DEF PsiStep, TablesAndPace
<1> QED BY <1>9, <1>10

\* The reader waits for what it owes.
LEMMA PcrWaitKeeps ==
  ASSUME PsiStep, PcrWait
  PROVE  PsiStep'
<1>1. PcrTypes /\ PcrFollows /\ PacedByPCR
  BY DEF PsiStep, TablesAndPace
<1>2. pcrDelta \in Nat /\ unpaid \in Nat /\ pcrDelta \div 11 \in Nat
      /\ 11 * (pcrDelta \div 11) + 10 >= pcrDelta
  BY <1>1, PsiTablesAssumption DEF PcrTypes
<1> DEFINE rest == Max({0, unpaid - (pcrDelta \div 11)})
<1>3. rest = IF 0 >= unpaid - (pcrDelta \div 11) THEN 0 ELSE unpaid - (pcrDelta \div 11)
  BY <1>2, GreaterIs
<1>4. rest \in Nat /\ (pcrDelta >= 11 * unpaid => rest = 0)
  <2> HIDE DEF rest
  <2> QED BY <1>2, <1>3
<1>5. /\ pcrDelta' = 0 /\ unpaid' = rest
      /\ UNCHANGED <<air, pidVars, pat, sdt, nit, pmts, pcrPrev, pcrBase, pcrExcused, nitKept>>
  BY DEF PcrWait
<1> HIDE DEF rest
<1>6. PcrTypes'
  BY <1>1, <1>4, <1>5, PsiTablesAssumption DEF PcrTypes
<1>7. PcrFollows' /\ PacedByPCR'
  BY <1>1, <1>4, <1>5 DEF PcrFollows, PacedByPCR, PcrBase, Signed
<1> QED BY <1>5, <1>6, <1>7, KeepsTables DEF PsiStep, TablesAndPace

\* Every step keeps the invariant.
LEMMA PsiNextStep == PsiStep /\ [PsiNext]_psiVars => PsiStep'
<1> SUFFICES ASSUME PsiStep, [PsiNext]_psiVars PROVE PsiStep'
  OBVIOUS
<1>1. OfOpenPids /\ TablesOfThisStream
  BY DEF PsiStep, TablesAndPace
<1>2. ASSUME UNCHANGED pcrVars \/ NewPCR, OfOpenPids', TablesOfThisStream'
      PROVE  PsiStep'
  BY <1>2, KeepsPace DEF PsiStep, TablesAndPace
<1>3. ASSUME NEW done \in BOOLEAN, TablePacket(done)
      PROVE  PsiStep'
  <2>1. UNCHANGED pcrVars
    BY <1>3 DEF TablePacket
  <2> QED BY <1>2, <1>3, <2>1, TablePacketKeeps
<1>4. CASE ClearTables
  <2>1. DOMAIN pmts' = {}
    BY <1>4 DEF ClearTables
  <2> QED BY <1>1, <1>2, <1>4, <2>1 DEF ClearTables, OfOpenPids, TablesOfThisStream, NoTable
<1>5. ASSUME NEW pids \in PidSets, PidsUnwanted(pids)
      PROVE  PsiStep'
  BY <1>1, <1>2, <1>5 DEF PidsUnwanted, OfOpenPids, TablesOfThisStream
<1>6. ASSUME NEW pids \in PidSets, PidsOpened(pids)
      PROVE  PsiStep'
  BY <1>1, <1>2, <1>6 DEF PidsOpened, OfOpenPids, TablesOfThisStream
<1>7. ASSUME NEW pid \in Pids, PidClosed(pid)
      PROVE  PsiStep'
  <2>1. DOMAIN pmts' = DOMAIN pmts \ {pid} /\ \A p \in DOMAIN pmts' : pmts'[p] = pmts[p]
    BY <1>7 DEF PidClosed, WithoutPmt
  <2>2. UNCHANGED pcrVars \/ NewPCR
    BY <1>7 DEF PidClosed
  <2>3. /\ closePids' = closePids \ {pid} /\ UNCHANGED <<air, openPids, nit, nitKept>>
        /\ pat' = IF pid = 0 THEN NoTable ELSE pat
        /\ sdt' = IF pid = 17 THEN NoTable ELSE sdt
    BY <1>7 DEF PidClosed
  <2>4. OfOpenPids'
    BY <1>1, <2>1, <2>3 DEF OfOpenPids, NoTable
  <2>5. TablesOfThisStream'
    BY <1>1, <2>1, <2>3 DEF TablesOfThisStream, NoTable
  <2> QED BY <1>2, <2>2, <2>4, <2>5
<1>8. ASSUME NEW a \in DOMAIN Airs, TunesAnew(a)
      PROVE  PsiStep'
  <2>1. pat.of = "none" /\ sdt.of = "none" /\ DOMAIN pmts = {}
    BY <1>1, <1>8 DEF TunesAnew, OfOpenPids
  <2>2. (nit.of # "none") => nitKept'
    BY <1>8 DEF TunesAnew
  <2>3. UNCHANGED <<pidVars, pat, sdt, nit, pmts, pcrVars>>
    BY <1>8 DEF TunesAnew
  <2> QED BY <1>1, <1>2, <2>1, <2>2, <2>3 DEF OfOpenPids, TablesOfThisStream, pidVars
<1>9. CASE UNCHANGED psiVars
  <2>1. UNCHANGED pcrVars /\ UNCHANGED <<air, pidVars, pat, sdt, nit, pmts, nitKept>>
    BY <1>9 DEF psiVars
  <2> QED BY <1>2, <2>1, KeepsTables
<1> QED BY <1>3, <1>4, <1>5, <1>6, <1>7, <1>8, <1>9, PcrPacketKeeps, PcrWaitKeeps, Zenon DEF PsiNext

\* mpegts::Filter: what it knows of the channel is of the transport stream that is tuned, and the
\* reader waits as long as the PCR says, for all transport streams, and however requests,
\* updates and packets interleave; but where TablesAndPace excuses it.
THEOREM TablesAlwaysOfThisStream == PsiSpec => []TablesAndPace
<1>1. PsiStep => TablesAndPace
  BY DEF PsiStep
<1> QED BY <1>1, PsiInitStep, PsiNextStep, PTL DEF PsiSpec

-----------------------------------------------------------------------------
(* InputSource: the source that is asked for *)

\* What the proof needs of the types.
AskedTypes ==
  /\ {transforming, parsed, transform, psi, renewed, updating, everMapped, refused} \subseteq BOOLEAN

\* The invariant holds at first,
LEMMA SourceInitAsked == SourceInit => AskedTypes /\ AskedInv
BY DEF SourceInit, AskedTypes, AskedInv, SourceAsked, Reading

\* A request: a source that it names, or has in the map, is the device's, old or new.
LEMMA CallAsked ==
  ASSUME AskedTypes, AskedInv, NEW r \in Requested, Call(r)
  PROVE  AskedTypes' /\ AskedInv'
<1> DEFINE t == Target(r)
           m == Transformed(r)
<1>1. m \in BOOLEAN /\ (m => r.freq # NoFreq)
  BY SourceAssumption DEF Transformed, NoFreq, PSIFreq
<1>2. t # NoName => m \/ r.name # NoName
  BY DEF Target
<1>3. /\ ~updating /\ updating' = TRUE
      /\ transform' = (transform \/ m)
      /\ shown' = IF m THEN r.freq ELSE shown
      /\ ParseStreamString(t)
      /\ IF m \/ r.name # NoName
         THEN /\ wanted' = IF t = NoName THEN wanted ELSE t
              /\ askedFreq' = IF m THEN r.freq ELSE NoFreq
              /\ everMapped' = (everMapped \/ m)
         ELSE UNCHANGED askedVars
      /\ UNCHANGED <<kind, transformVars, reading, refused>>
  BY DEF Call
<1> HIDE DEF t, m
<1>4. AskedTypes'
  BY <1>1, <1>3 DEF AskedTypes, ParseStreamString, askedVars, transformVars
<1>5. /\ transform' <=> everMapped'
      /\ askedFreq' # NoFreq => transform' /\ shown' = askedFreq'
  BY <1>1, <1>3 DEF AskedTypes, AskedInv, askedVars
<1>6. CASE t = NoName
  BY <1>1, <1>3, <1>4, <1>5, <1>6 DEF AskedTypes, AskedInv, SourceAsked, Reading, ParseStreamString, askedVars
<1>7. CASE t # NoName /\ t # PSI /\ SameAsBefore(t)
  BY <1>1, <1>2, <1>3, <1>4, <1>5, <1>7 
     DEF AskedTypes, AskedInv, SourceAsked, Reading, ParseStreamString, SameAsBefore
<1>8. CASE t # NoName /\ ~(t # PSI /\ SameAsBefore(t))
  <2>1. renewed' = TRUE /\ psi' = (t = PSI) /\ path' = (IF t = PSI THEN NoName ELSE t) /\ wanted' = t
    BY <1>2, <1>3, <1>8 DEF ParseStreamString
  <2>2. updating'
    BY <1>3
  <2> QED BY <1>4, <1>5, <1>8, <2>1, <2>2 DEF AskedInv, SourceAsked
<1> QED BY <1>6, <1>7, <1>8

\* and every step keeps it.
LEMMA SourceNextAsked ==
  AskedTypes /\ AskedInv /\ [SourceNext]_sourceVars => AskedTypes' /\ AskedInv'
<1> SUFFICES ASSUME AskedTypes, AskedInv, [SourceNext]_sourceVars PROVE AskedTypes' /\ AskedInv'
  OBVIOUS
<1> USE DEF AskedTypes, AskedInv, SourceAsked, Reading
<1>1. CASE Edit
  <2>1. parsed' \in BOOLEAN
    BY <1>1 DEF Edit
  <2> QED BY <1>1, <2>1 DEF Edit, dataVars, askedVars
<1>2. CASE Update
  <2>1. CASE renewed \/ (kind # "file" /\ reading = "closed")
    BY <1>2, <2>1 DEF Update, Open, transformVars, askedVars
  <2>2. CASE ~(renewed \/ (kind # "file" /\ reading = "closed"))
    BY <1>2, <2>2 DEF Update, transformVars, askedVars
  <2> QED BY <2>1, <2>2
<1>3. CASE Release
  BY <1>3 DEF Release, transformVars
<1>4. CASE UNCHANGED sourceVars
  BY <1>4 DEF sourceVars, transformVars, dataVars, askedVars
<1> QED BY <1>1, <1>2, <1>3, <1>4, CallAsked DEF SourceNext

\* A file, child process or UDP input reads the source that was asked for last, and is described by
\* what asked for it: whatever is in the M3U file, and however often the transformation is
\* switched or the file replaced meanwhile.
THEOREM SourceAlwaysAsAsked == SourceSpec => []AsAsked
<1>1. AskedTypes /\ AskedInv => AsAsked
  <2> SUFFICES ASSUME AskedTypes, AskedInv PROVE AsAsked
    OBVIOUS
  <2>1. ReadsAsAsked
    BY DEF AskedTypes, AskedInv, ReadsAsAsked
  <2>2. DescribedAsAsked
    BY DEF AskedTypes, AskedInv, DescribedAsAsked, Described
  <2> QED BY <2>1, <2>2 DEF AsAsked
<1> QED BY <1>1, SourceInitAsked, SourceNextAsked, PTL DEF SourceSpec

-----------------------------------------------------------------------------
(* DvbTuner: the dish and the frequency *)

\* The first group stays in front when groups are appended.
LEMMA ConcatHeadTail ==
  ASSUME NEW S, NEW x \in Seq(S), NEW y \in Seq(S), x # <<>>
  PROVE  /\ x \o y \in Seq(S) /\ x \o y # <<>>
         /\ Head(x \o y) = Head(x) /\ Tail(x \o y) = Tail(x) \o y
         /\ Head(x) \in S /\ Tail(x) \in Seq(S)
<1>1. Len(x) \in Nat \ {0} /\ Len(y) \in Nat
  OBVIOUS
<1>2. x \o y \in Seq(S) /\ Len(x \o y) = Len(x) + Len(y)
  OBVIOUS
<1>3. Tail(x) \in Seq(S) /\ Len(Tail(x)) = Len(x) - 1 /\ Head(x) \in S
  BY <1>1
<1>4. Head(x \o y) = Head(x)
  BY <1>1, <1>2
<1>5. Tail(x \o y) \in Seq(S) /\ Len(Tail(x \o y)) = Len(x) + Len(y) - 1
  BY <1>1, <1>2
<1>6. Tail(x) \o y \in Seq(S) /\ Len(Tail(x) \o y) = Len(x) - 1 + Len(y)
  BY <1>3
<1>7. ASSUME NEW i \in 1..(Len(x) + Len(y) - 1)
      PROVE  Tail(x \o y)[i] = (Tail(x) \o y)[i]
  BY <1>1, <1>2, <1>3, <1>5, <1>6
<1>8. Tail(x \o y) = Tail(x) \o y
  BY <1>5, <1>6, <1>7
<1> QED BY <1>1, <1>2, <1>3, <1>4, <1>8

OpNames == {"voltage", "tone", "command", "burst", "tune"}
OnFail == {"log", "leave", "stop"}
Ops == [op : OpNames, arg : Seq(Int), fail : OnFail]
Groups == {g \in Seq(Ops) : g # <<>>}

\* What is where in two sequences, one after the other.
LEMMA ConcatIs ==
  ASSUME NEW S, NEW x \in Seq(S), NEW y \in Seq(S)
  PROVE  /\ x \o y \in Seq(S) /\ Len(x \o y) = Len(x) + Len(y)
         /\ \A i \in 1..Len(x) : (x \o y)[i] = x[i]
         /\ \A i \in 1..Len(y) : (x \o y)[Len(x) + i] = y[i]
OBVIOUS

\* The ioctls of each kind: any,
LEMMA IoctlIs ==
  ASSUME NEW op \in OpNames, NEW arg \in Seq(Int), NEW fail \in OnFail
  PROVE  LET i == Ioctl(op, arg, fail) IN i \in Ops /\ i.op = op /\ i.arg = arg /\ i.fail = fail
BY DEF Ioctl, Ops

\* the voltage,
LEMMA VoltIs ==
  ASSUME NEW v \in Int, NEW fail \in OnFail
  PROVE  Volt(v, fail) \in Ops /\ Volt(v, fail).op = "voltage" /\ Volt(v, fail).arg[1] = v
<1> DEFINE a == <<v>>
<1>1. a \in Seq(Int) /\ a[1] = v /\ "voltage" \in OpNames
  BY DEF OpNames
<1>2. Volt(v, fail) = Ioctl("voltage", a, fail)
  BY DEF Volt
<1> HIDE DEF a
<1> QED BY <1>1, <1>2, IoctlIs

\* the tone.
LEMMA ToneIs ==
  ASSUME NEW b \in BOOLEAN, NEW fail \in OnFail
  PROVE  Tone(b, fail) \in Ops /\ Tone(b, fail).op = "tone" /\ Tone(b, fail).arg[1] = Bit(b)
<1> DEFINE a == <<Bit(b)>>
<1>1. a \in Seq(Int) /\ a[1] = Bit(b) /\ "tone" \in OpNames
  BY DEF Bit, OpNames
<1>2. Tone(b, fail) = Ioctl("tone", a, fail)
  BY DEF Tone
<1> HIDE DEF a
<1> QED BY <1>1, <1>2, IoctlIs

\* What is where in what is done first, the burst and the wait after it.
LEMMA BetweenIs ==
  ASSUME NEW first \in Seq(Ops), NEW burst \in Seq(Ops), NEW w \in Ops
  PROVE  LET m == first \o burst \o <<w>> IN
         /\ m \in Seq(Ops) /\ Len(m) = Len(first) + Len(burst) + 1
         /\ \A i \in 1..Len(first) : m[i] = first[i]
         /\ \A i \in 1..Len(burst) : m[Len(first) + i] = burst[i]
         /\ m[Len(first) + Len(burst) + 1] = w
<1> DEFINE l == first \o burst
           z == <<w>>
           m == l \o z
<1>1. Len(first) \in Nat /\ Len(burst) \in Nat
  OBVIOUS
<1>2. /\ l \in Seq(Ops) /\ Len(l) = Len(first) + Len(burst)
      /\ \A i \in 1..Len(first) : l[i] = first[i]
      /\ \A i \in 1..Len(burst) : l[Len(first) + i] = burst[i]
  BY ConcatIs
<1>3. z \in Seq(Ops) /\ Len(z) = 1 /\ z[1] = w
  OBVIOUS
<1> HIDE DEF l, z
<1>4. /\ m \in Seq(Ops) /\ Len(m) = Len(l) + 1 /\ m[Len(l) + 1] = z[1]
      /\ \A i \in 1..Len(l) : m[i] = l[i]
  <2>1. l \in Seq(Ops) /\ z \in Seq(Ops)
    BY <1>2, <1>3
  <2>2. /\ m \in Seq(Ops) /\ Len(m) = Len(l) + Len(z) /\ \A i \in 1..Len(l) : m[i] = l[i]
        /\ \A i \in 1..Len(z) : m[Len(l) + i] = z[i]
    BY <2>1, ConcatIs
  <2> HIDE DEF m
  <2>3. 1 \in 1..Len(z)
    BY <1>3
  <2> QED BY <1>3, <2>2, <2>3
<1> HIDE DEF m
<1>5. \A i \in 1..Len(first) : m[i] = first[i]
  BY <1>1, <1>2, <1>4
<1>6. \A i \in 1..Len(burst) : m[Len(first) + i] = burst[i]
  BY <1>1, <1>2, <1>4
<1> QED BY <1>1, <1>2, <1>3, <1>4, <1>5, <1>6 DEF m, l, z

\* What a switch's command is made of: at least one command, and no other.
LEMMA MasterIs ==
  ASSUME NEW cmd \in Seq(Int), NEW burst \in Seq(Ops), NEW fail \in OnFail,
         \A i \in 1..Len(burst) : burst[i].op # "command"
  PROVE  LET m == MasterCommand(cmd, burst, fail) IN
         /\ m \in Groups
         /\ \E i \in 1..Len(m) : m[i].op = "command"
         /\ \A i \in 1..Len(m) : m[i].op = "command" => m[i].arg = cmd
<1> DEFINE v == Volt(18, "log")
           t == Tone(FALSE, fail)
           c == Ioctl("command", cmd, "log")
           w == Volt(13, "log")
           first == <<v, t, c>>
           m == first \o burst \o <<w>>
<1>1. /\ v \in Ops /\ v.op = "voltage" /\ t \in Ops /\ t.op = "tone" /\ w \in Ops /\ w.op = "voltage"
      /\ c \in Ops /\ c.op = "command" /\ c.arg = cmd
  <2>1. "log" \in OnFail /\ "command" \in OpNames /\ FALSE \in BOOLEAN /\ 18 \in Int /\ 13 \in Int
    BY DEF OnFail, OpNames
  <2>2. v \in Ops /\ v.op = "voltage" /\ w \in Ops /\ w.op = "voltage"
    BY <2>1, VoltIs
  <2>3. t \in Ops /\ t.op = "tone"
    BY <2>1, ToneIs
  <2>4. c \in Ops /\ c.op = "command" /\ c.arg = cmd
    BY <2>1, IoctlIs
  <2> QED BY <2>2, <2>3, <2>4
<1>2. MasterCommand(cmd, burst, fail) = m
  BY Zenon DEF MasterCommand
<1> HIDE DEF v, t, c, w
<1>3. first \in Seq(Ops) /\ Len(first) = 3 /\ first[1] = v /\ first[2] = t /\ first[3] = c
  BY <1>1
<1> HIDE DEF first
<1>4. Len(burst) \in Nat
  OBVIOUS
<1>5. /\ m \in Seq(Ops) /\ Len(m) = Len(first) + Len(burst) + 1
      /\ \A i \in 1..Len(first) : m[i] = first[i]
      /\ \A i \in 1..Len(burst) : m[Len(first) + i] = burst[i]
      /\ m[Len(first) + Len(burst) + 1] = w
  BY <1>1, <1>3, BetweenIs
<1>20. 1 \in 1..3 /\ 2 \in 1..3 /\ 3 \in 1..3
  OBVIOUS
<1> HIDE DEF m
<1>6. /\ m \in Seq(Ops) /\ Len(m) = Len(burst) + 4 /\ m # <<>>
      /\ m[1] = v /\ m[2] = t /\ m[3] = c /\ m[Len(burst) + 4] = w
  BY <1>3, <1>4, <1>5, <1>20
<1>7. \A i \in 1..Len(burst) : m[3 + i] = burst[i]
  BY <1>3, <1>4, <1>5
<1>8. ASSUME NEW i \in 1..Len(m), m[i].op = "command"
      PROVE  m[i].arg = cmd
  <2> HIDE DEF m
  <2>1. i \in Int /\ i >= 1 /\ i <= Len(burst) + 4
    BY <1>4, <1>6
  <2>2. CASE i > 3 /\ i < Len(burst) + 4
    <3>1. i - 3 \in 1..Len(burst) /\ 3 + (i - 3) = i
      BY <1>4, <2>1, <2>2
    <3>2. m[i] = burst[i - 3]
      BY <1>7, <3>1
    <3> QED BY <1>8, <3>1, <3>2
  <2>3. CASE i \in {1, 2, Len(burst) + 4}
    BY <1>1, <1>6, <1>8, <2>3
  <2>4. CASE i = 3
    BY <1>1, <1>6, <2>4
  <2> QED BY <1>4, <2>1, <2>2, <2>3, <2>4
<1>9. 3 \in 1..Len(m) /\ m[3].op = "command"
  BY <1>1, <1>4, <1>6
<1> HIDE DEF m
<1> QED BY <1>2, <1>6, <1>8, <1>9, Zenon DEF Groups
\* What a request is made of, in numbers.
LEMMA NumbersAre ==
  ASSUME NEW d \in FrontendData
  PROVE  /\ d.src \in 1..4 /\ d.freq \in Int
         /\ PortBits(d) \in Int /\ IntermediateFreq(d) \in Int
         /\ EN50494T(d) \in Int /\ EN50607T(d) \in Int
<1>1. d.src \in Positions /\ d.freq \in Freqs \cup {0}
  BY DEF FrontendData
<1>2. d.src \in 1..4 /\ d.freq \in Int
  <2>1. Sources \subseteq 1..4
    BY TunerAssumption
  <2>4. Freqs \subseteq 10700..12747
    BY TunerAssumption
  <2>2. ASSUME NEW n \in Freqs PROVE n \in Int
    <3>1. n \in 10700..12747
      BY <2>4
    <3> QED BY <3>1
  <2>3. 1 \in 1..4 /\ 0 \in Int
    OBVIOUS
  <2>5. d.src \in 1..4
    BY <1>1, <2>1, <2>3 DEF Positions
  <2>6. d.freq \in Int
    BY <1>1, <2>2, <2>3, Zenon
  <2> QED BY <2>5, <2>6
<1>3. IntermediateFreq(d) \in Int
  BY <1>2 DEF IntermediateFreq
<1>4. PortBits(d) \in Int
  BY <1>2 DEF PortBits, Bit
<1>5. EN50494T(d) \in Int /\ EN50607T(d) \in Int
  BY <1>3 DEF EN50494T, EN50607T, UserBand
<1> QED BY <1>2, <1>3, <1>4, <1>5

\* What the dish gets first: groups of ioctls, of which a committed switch's is one with its
\* command in it.
CommandOf(d) == <<56, 240 + PortBits(d)>>
CommandsIn(x, cmd) ==
  \A g \in 1..Len(x) : \A i \in 1..Len(x[g]) : x[g][i].op = "command" => x[g][i].arg = cmd
CommandIn(x) == Len(x) = 1 /\ \E i \in 1..Len(x[1]) : x[1][i].op = "command"

\* A burst is no command,
LEMMA BurstIs ==
  ASSUME NEW k \in Int, NEW fail \in OnFail
  PROVE  LET b == <<Ioctl("burst", <<k>>, fail)>> IN
         b \in Seq(Ops) /\ \A i \in 1..Len(b) : b[i].op # "command"
<1> DEFINE a == <<k>>
           o == Ioctl("burst", a, fail)
           b == <<o>>
<1>1. a \in Seq(Int) /\ "burst" \in OpNames
  BY DEF OpNames
<1> HIDE DEF a
<1>2. o \in Ops /\ o.op = "burst"
  BY <1>1, IoctlIs
<1> HIDE DEF o
<1>3. b \in Seq(Ops) /\ \A i \in 1..Len(b) : b[i].op # "command"
  BY <1>2
<1> QED BY <1>3 DEF o, a

\* and no burst has none.
LEMMA NoBurst == <<>> \in Seq(Ops) /\ \A i \in 1..Len(<<>>) : <<>>[i].op # "command"
OBVIOUS

\* Sequences of one group and of two.
LEMMA OneGroup ==
  ASSUME NEW m \in Groups, NEW n \in Groups
  PROVE  /\ <<m>> \in Seq(Groups) /\ <<m>> # <<>>
         /\ <<m, n>> \in Seq(Groups) /\ <<m, n>> # <<>>
OBVIOUS

\* The ioctls that DiSEqc::sendDiseqc() does, for each kind of dish.
LEMMA SendDiseqcIs ==
  ASSUME dish \in Dishes, NEW d \in FrontendData
  PROVE  /\ SendDiseqc(d) \in Seq(Groups) /\ SendDiseqc(d) # <<>>
         /\ dish = "committed" => CommandIn(SendDiseqc(d)) /\ CommandsIn(SendDiseqc(d), CommandOf(d))
<1> DEFINE src == d.src - 1
<1>1. /\ src \in 0..3 /\ PortBits(d) \in Int /\ IntermediateFreq(d) \in Int
      /\ EN50494T(d) \in Int /\ EN50607T(d) \in Int
  BY NumbersAre
<1>2. "leave" \in OnFail /\ "stop" \in OnFail /\ "log" \in OnFail
  BY DEF OnFail
<1>3. src % 2 \in Int /\ src % 4 \in Int /\ src \div 4 \in Int
  BY <1>1
<1>4. ASSUME NEW cmd \in Seq(Int), NEW fail \in OnFail
      PROVE  MasterCommand(cmd, <<>>, fail) \in Groups
  BY MasterIs, NoBurst
<1>11. ASSUME NEW cmd \in Seq(Int), NEW k \in Int, NEW fail \in OnFail
       PROVE  MasterCommand(cmd, <<Ioctl("burst", <<k>>, fail)>>, fail) \in Groups
  BY MasterIs, BurstIs
<1>5. CASE dish = "committed"
  <2> DEFINE cmd == <<56, 240 + PortBits(d)>>
             b == <<Burst(d, "leave")>>
             m == MasterCommand(cmd, b, "leave")
  <2>1. SendDiseqc(d) = <<m>>
    BY <1>5 DEF SendDiseqc
  <2>2. cmd \in Seq(Int)
    BY <1>1
  <2>3. b \in Seq(Ops) /\ \A i \in 1..Len(b) : b[i].op # "command"
    BY <1>2, <1>3, BurstIs DEF Burst
  <2>4. cmd = CommandOf(d)
    BY DEF CommandOf
  <2> HIDE DEF cmd, b
  <2>5. /\ m \in Groups
        /\ \E i \in 1..Len(m) : m[i].op = "command"
        /\ \A i \in 1..Len(m) : m[i].op = "command" => m[i].arg = cmd
    BY <1>2, <2>2, <2>3, MasterIs
  <2> HIDE DEF m
  <2>6. <<m>> \in Seq(Groups) /\ <<m>> # <<>> /\ Len(<<m>>) = 1 /\ <<m>>[1] = m
    BY <2>5
  <2>7. CommandIn(<<m>>) /\ CommandsIn(<<m>>, cmd)
    BY <2>5, <2>6 DEF CommandIn, CommandsIn
  <2> QED BY <2>1, <2>4, <2>6, <2>7
<1>6. CASE dish = "uncommitted"
  <2> DEFINE cmd == <<57, 240 + src>>
             b == <<Burst(d, "leave")>>
             m == MasterCommand(cmd, b, "leave")
  <2>1. SendDiseqc(d) = <<m>>
    BY <1>6 DEF SendDiseqc
  <2>2. cmd \in Seq(Int)
    BY <1>1
  <2>3. b \in Seq(Ops) /\ \A i \in 1..Len(b) : b[i].op # "command"
    BY <1>2, <1>3, BurstIs DEF Burst
  <2> HIDE DEF cmd, b
  <2>4. m \in Groups
    BY <1>2, <2>2, <2>3, MasterIs
  <2> HIDE DEF m
  <2> QED BY <1>6, <2>1, <2>4, OneGroup
<1>7. CASE dish = "cascade"
  <2> DEFINE c1 == <<56, 240 + (src % 4)>>
             c2 == <<57, 240 + (src \div 4)>>
             m == MasterCommand(c1, <<>>, "leave")
             n == MasterCommand(c2, <<Ioctl("burst", <<0>>, "leave")>>, "leave")
  <2>1. SendDiseqc(d) = <<m, n>>
    BY <1>7 DEF SendDiseqc
  <2>2. c1 \in Seq(Int) /\ c2 \in Seq(Int) /\ 0 \in Int
    BY <1>3
  <2> HIDE DEF c1, c2
  <2>3. m \in Groups /\ n \in Groups
    BY <1>2, <1>4, <1>11, <2>2
  <2> HIDE DEF m, n
  <2> QED BY <1>7, <2>1, <2>3, OneGroup
<1>8. CASE dish = "en50494"
  <2> DEFINE cmd == <<90, 16 * Bit(src >= 1) + 8 * Bit(d.pol = "h") + 4 * Bit(HiBand(d))
                          + (EN50494T(d) \div 256), EN50494T(d) % 256>>
             m == MasterCommand(cmd, <<>>, "stop")
  <2>1. SendDiseqc(d) = <<m>>
    BY <1>8 DEF SendDiseqc
  <2>2. cmd \in Seq(Int)
    <3>1. /\ Bit(src >= 1) \in Int /\ Bit(d.pol = "h") \in Int /\ Bit(HiBand(d)) \in Int
          /\ EN50494T(d) \div 256 \in Int /\ EN50494T(d) % 256 \in Int
      BY <1>1 DEF Bit
    <3> QED BY <3>1
  <2> HIDE DEF cmd
  <2>3. m \in Groups
    BY <1>2, <1>4, <2>2
  <2> HIDE DEF m
  <2> QED BY <1>8, <2>1, <2>3, OneGroup
<1>9. CASE dish = "en50607"
  <2> DEFINE cmd == <<112, EN50607T(d) \div 256, EN50607T(d) % 256, PortBits(d)>>
             m == MasterCommand(cmd, <<>>, "stop")
  <2>1. SendDiseqc(d) = <<m>>
    BY <1>9 DEF SendDiseqc
  <2>2. cmd \in Seq(Int)
    <3>1. EN50607T(d) \div 256 \in Int /\ EN50607T(d) % 256 \in Int
      BY <1>1
    <3> QED BY <1>1, <3>1
  <2> HIDE DEF cmd
  <2>3. m \in Groups
    BY <1>2, <1>4, <2>2
  <2> HIDE DEF m
  <2> QED BY <1>9, <2>1, <2>3, OneGroup
<1>10. CASE dish = "lnb"
  <2> DEFINE v == Volt(18, "stop")
             t == Tone(FALSE, "stop")
             b == Burst(d, "stop")
             w == Volt(13, "log")
             m == <<v, t, b, w>>
  <2>1. SendDiseqc(d) = <<m>>
    BY <1>10 DEF SendDiseqc
  <2>2. v \in Ops /\ w \in Ops
    BY <1>2, VoltIs
  <2>3. t \in Ops
    BY <1>2, ToneIs
  <2>4. b \in Ops
    <3> DEFINE a == <<(d.src - 1) % 2>>
    <3>1. a \in Seq(Int) /\ "burst" \in OpNames
      BY <1>3 DEF OpNames
    <3>2. b = Ioctl("burst", a, "stop")
      BY DEF Burst
    <3> HIDE DEF a, b
    <3> QED BY <1>2, <3>1, <3>2, IoctlIs
  <2> HIDE DEF v, t, b, w
  <2>5. m \in Seq(Ops) /\ m # <<>>
    BY <2>2, <2>3, <2>4
  <2> HIDE DEF m
  <2>6. m \in Groups
    BY <2>5 DEF Groups
  <2> QED BY <1>10, <2>1, <2>6, OneGroup
<1> QED BY <1>5, <1>6, <1>7, <1>8, <1>9, <1>10 DEF Dishes

-----------------------------------------------------------------------------
(* The tune under way *)

TuneIoctl(d) == Ioctl("tune", Properties(d), "stop")
Restore(d) == Settled(d) \o <<<<TuneIoctl(d)>>>>
VoltAsked(d) == IF d.pol = "v" THEN 13 ELSE 18

\* The rest of the groups, with others behind them.
LEMMA RestOfIs ==
  ASSUME NEW x \in Seq(Groups), x # <<>>, NEW z \in Seq(Groups)
  PROVE  /\ RestOf(x \o z) = RestOf(x) \o z /\ RestOf(x) \in Seq(Groups)
         /\ Head(Head(x \o z)) = Head(Head(x)) /\ Head(Head(x)) \in Ops
         /\ RestOf(x) = <<>> => RestOf(x \o z) = z
<1>1. /\ Head(x \o z) = Head(x) /\ Tail(x \o z) = Tail(x) \o z
      /\ Head(x) \in Groups /\ Tail(x) \in Seq(Groups)
  BY ConcatHeadTail
<1>2. Head(x) \in Seq(Ops) /\ Head(x) # <<>> /\ Len(Head(x)) \in Nat \ {0}
  BY <1>1 DEF Groups
<1>3. Head(Head(x)) \in Ops
  BY <1>2
<1> DEFINE g == Head(x)
           r == Tail(x)
           h == <<Tail(g)>>
<1>4. CASE Len(g) = 1
  <2>1. RestOf(x) = r /\ RestOf(x \o z) = r \o z
    BY <1>1, <1>4 DEF RestOf
  <2>2. <<>> \o z = z
    OBVIOUS
  <2> QED BY <1>1, <1>3, <2>1, <2>2
<1>5. CASE Len(g) # 1
  <2>1. RestOf(x) = h \o r /\ RestOf(x \o z) = h \o (r \o z)
    BY <1>1, <1>5 DEF RestOf
  <2>2. Tail(g) \in Seq(Ops) /\ Len(Tail(g)) = Len(g) - 1
    BY <1>2
  <2>3. Tail(g) \in Groups
    <3>1. Len(Tail(g)) # 0
      BY <1>2, <1>5, <2>2
    <3>3. Len(<<>>) = 0
      OBVIOUS
    <3>2. Tail(g) # <<>>
      BY <3>1, <3>3, Zenon
    <3> QED BY <2>2, <3>2, Zenon DEF Groups
  <2>4. h \in Seq(Groups) /\ Len(h) = 1
    BY <2>3
  <2> HIDE DEF h, g, r
  <2>5. h \o r \in Seq(Groups) /\ h \o r # <<>>
    <3>1. h # <<>>
      BY <2>4
    <3> QED BY <1>1, <2>4, <3>1, ConcatHeadTail DEF r
  <2>6. h \o (r \o z) = (h \o r) \o z
    <3>1. h \in Seq(Groups) /\ r \in Seq(Groups) /\ z \in Seq(Groups)
      BY <1>1, <2>4 DEF r
    <3> QED BY ONLY <3>1
  <2> QED BY <1>1, <1>3, <2>1, <2>5, <2>6
<1> QED BY <1>4, <1>5

\* The properties of a tune are numbers.
LEMMA PropertiesAre ==
  ASSUME NEW d \in FrontendData, dish \in Dishes
  PROVE  Properties(d) \in Seq(Int)
<1>1. TuneFreq(d) \in Int
  BY NumbersAre DEF TuneFreq, UserBand
<1>2. d.mod \in {0, 1} /\ d.isi \in Isis \cup {No}
  BY DEF FrontendData
<1>3. \A n \in Isis : n \in Int
  <2>1. Isis \subseteq 0..255
    BY TunerAssumption
  <2> QED BY <2>1
<1>4. d.isi \in Int
  BY <1>2, <1>3 DEF No
<1>5. d.mod \in Int
  BY <1>2
<1> QED BY <1>1, <1>4, <1>5 DEF Properties

\* One element, and one in front of it.
LEMMA PairIs ==
  ASSUME NEW S, NEW a \in S, NEW b \in S
  PROVE  <<>> \o <<a>> = <<a>> /\ <<b>> \o <<a>> = <<b, a>>
<1> DEFINE x == <<a>>
           y == <<b>>
           z == <<b, a>>
<1>1. x \in Seq(S) /\ Len(x) = 1 /\ x[1] = a
  OBVIOUS
<1>2. y \in Seq(S) /\ Len(y) = 1 /\ y[1] = b
  OBVIOUS
<1>3. z \in Seq(S) /\ Len(z) = 2 /\ z[1] = b /\ z[2] = a
  OBVIOUS
<1> HIDE DEF x, y, z
<1>4. <<>> \o x = x
  BY <1>1
<1>5. y \o x = z
  <2>0. y \in Seq(S) /\ x \in Seq(S)
    BY <1>1, <1>2
  <2> DEFINE c == y \o x
  <2>1. /\ c \in Seq(S) /\ Len(c) = Len(y) + Len(x)
        /\ \A i \in 1..Len(y) : c[i] = y[i]
        /\ \A i \in 1..Len(x) : c[Len(y) + i] = x[i]
    BY <2>0, ConcatIs
  <2> HIDE DEF c
  <2>2. Len(c) = 2 /\ c[1] = b /\ c[2] = a
    BY <1>1, <1>2, <2>1
  <2>3. ASSUME NEW i \in 1..2 PROVE c[i] = z[i]
    <3>1. i = 1 \/ i = 2
      OBVIOUS
    <3> QED BY <1>3, <2>2, <3>1
  <2>4. c = z
    BY <1>3, <2>1, <2>2, <2>3
  <2> QED BY <2>4 DEF c
<1> QED BY <1>4, <1>5 DEF x, y, z

\* One element more at the end.
LEMMA AppendIs ==
  ASSUME NEW S, NEW s \in Seq(S), NEW e \in S
  PROVE  /\ Append(s, e) \in Seq(S) /\ Append(s, e) # <<>>
         /\ Head(Append(s, e)) = IF s = <<>> THEN e ELSE Head(s)
<1>1. Append(s, e) \in Seq(S) /\ Len(Append(s, e)) = Len(s) + 1 /\ Len(s) \in Nat
  OBVIOUS
<1>2. Len(<<>>) = 0
  OBVIOUS
<1>3. Append(s, e) # <<>>
  <2>1. Len(Append(s, e)) # 0
    BY <1>1
  <2> QED BY <1>2, <2>1, Zenon
<1>4. Head(Append(s, e)) = Append(s, e)[1]
  BY <1>1, <1>3
<1>5. CASE s = <<>>
  <2>1. Append(s, e)[1] = e
    BY <1>5
  <2> QED BY <1>1, <1>3, <1>4, <1>5, <2>1
<1>6. CASE s # <<>>
  <2>1. Len(s) >= 1
    BY <1>6
  <2>2. Append(s, e)[1] = s[1] /\ Head(s) = s[1]
    BY <1>6, <2>1
  <2> QED BY <1>1, <1>3, <1>4, <1>6, <2>2
<1> QED BY <1>5, <1>6

\* The ioctls of a tune, and of the groups that follow the dish's.
LEMMA RestoreIs ==
  ASSUME NEW d \in FrontendData, dish \in Dishes
  PROVE  /\ TuneIoctl(d) \in Ops /\ TuneIoctl(d).op = "tune" /\ TuneIoctl(d).arg = Properties(d)
         /\ Restore(d) \in Seq(Groups)
         /\ OnABus => Restore(d) = <<<<TuneIoctl(d)>>>>
         /\ ~OnABus => Restore(d) = <<<<Volt(VoltAsked(d), "stop"), Tone(HiBand(d), "stop")>>,
                                      <<TuneIoctl(d)>>>>
<1>1. "tune" \in OpNames /\ "stop" \in OnFail
  BY DEF OpNames, OnFail
<1>2. TuneIoctl(d) \in Ops /\ TuneIoctl(d).op = "tune" /\ TuneIoctl(d).arg = Properties(d)
  BY <1>1, PropertiesAre, IoctlIs DEF TuneIoctl
<1>3. Volt(VoltAsked(d), "stop") \in Ops
  <2>1. VoltAsked(d) \in Int
    BY DEF VoltAsked
  <2> QED BY <1>1, <2>1, VoltIs
<1>4. Tone(HiBand(d), "stop") \in Ops
  <2>1. HiBand(d) \in BOOLEAN
    BY NumbersAre, SMT DEF HiBand
  <2> QED BY <1>1, <2>1, ToneIs
<1> DEFINE t == TuneIoctl(d)
           v == Volt(VoltAsked(d), "stop")
           o == Tone(HiBand(d), "stop")
<1>5. ~OnABus => Settled(d) = <<<<v, o>>>>
  BY DEF Settled, VoltAsked
<1>6. OnABus => Settled(d) = <<>>
  BY DEF Settled
<1>7. Restore(d) = Settled(d) \o <<<<t>>>>
  BY DEF Restore
<1> HIDE DEF t, v, o
<1>8. <<t>> \in Groups /\ <<v, o>> \in Groups
  BY <1>2, <1>3, <1>4 DEF t, v, o, Groups
<1> DEFINE a == <<t>>
           b == <<v, o>>
<1> HIDE DEF a, b
<1>11. a \in Groups /\ b \in Groups
  BY <1>8 DEF a, b
<1>9. <<>> \o <<a>> = <<a>> /\ <<b>> \o <<a>> = <<b, a>>
  BY <1>11, PairIs
<1>10. <<a>> \in Seq(Groups) /\ <<b, a>> \in Seq(Groups)
  BY <1>11
<1> QED BY <1>2, <1>5, <1>6, <1>7, <1>9, <1>10 DEF a, b, t, v, o

\* A group of a switch whose command is cmd and has been sent, or is still in the group.
Carries(g, sent, cmd) ==
  /\ \A i \in 1..Len(g) : g[i].op = "command" => g[i].arg = cmd
  /\ sent = <<>> => \E i \in 1..Len(g) : g[i].op = "command"
  /\ sent # <<>> => Head(sent) = cmd

\* A switch gets its command.
LEMMA CarriesOn ==
  ASSUME NEW g \in Groups, NEW sent \in Seq(Seq(Int)), NEW cmd, Carries(g, sent, cmd),
         NEW next, next = IF Head(g).op = "command" THEN Append(sent, Head(g).arg) ELSE sent
  PROVE  /\ Len(g) # 1 => Carries(Tail(g), next, cmd)
         /\ Len(g) = 1 => next # <<>> /\ Head(next) = cmd
<1>1. g \in Seq(Ops) /\ g # <<>> /\ Len(g) \in Nat \ {0} /\ Head(g) = g[1] /\ 1 \in 1..Len(g)
  BY DEF Groups
<1>2. Head(g) \in Ops /\ Head(g).arg \in Seq(Int)
  <2>1. Head(g) \in Ops
    BY <1>1
  <2> QED BY <2>1 DEF Ops
<1>3. \A i \in 1..(Len(g) - 1) : Tail(g)[i] = g[i + 1] /\ i + 1 \in 1..Len(g)
  BY <1>1
<1>4. Len(Tail(g)) = Len(g) - 1
  BY <1>1
<1>5. Head(g).op = "command" => Head(g).arg = cmd
  BY <1>1 DEF Carries
<1>6. next # <<>> => Head(next) = cmd
  <2>1. CASE Head(g).op = "command"
    <3>1. Append(sent, Head(g).arg) # <<>>
           /\ Head(Append(sent, Head(g).arg)) = IF sent = <<>> THEN Head(g).arg ELSE Head(sent)
      BY <1>2, AppendIs
    <3> QED BY <1>5, <2>1, <3>1 DEF Carries
  <2>2. CASE Head(g).op # "command"
    BY <2>2 DEF Carries
  <2> QED BY <2>1, <2>2
<1>7. ASSUME next = <<>>
      PROVE  Head(g).op # "command" /\ sent = <<>>
  <2>1. Append(sent, Head(g).arg) # <<>>
    BY <1>2, AppendIs
  <2> QED BY <1>7, <2>1
<1>8. ASSUME next = <<>>
      PROVE  Len(g) # 1 /\ \E i \in 1..(Len(g) - 1) : Tail(g)[i].op = "command"
  <2>1. PICK i \in 1..Len(g) : g[i].op = "command"
    BY <1>7, <1>8 DEF Carries
  <2>2. i # 1
    BY <1>1, <1>7, <1>8, <2>1
  <2>3. i - 1 \in 1..(Len(g) - 1) /\ (i - 1) + 1 = i
    BY <1>1, <2>2
  <2>4. Tail(g)[i - 1] = g[i]
    BY <1>3, <2>3
  <2>5. Len(g) # 1
    <3>1. i \in Int /\ 1 <= i /\ i <= Len(g)
      BY <1>1
    <3> DEFINE n == Len(g)
    <3>2. n \in Nat
      BY <1>1
    <3>3. i <= n
      BY <3>1
    <3> HIDE DEF n
    <3>4. n # 1
      BY <2>2, <3>1, <3>2, <3>3
    <3> QED BY <3>4 DEF n
  <2> QED BY <2>1, <2>3, <2>4, <2>5
<1>9. \A i \in 1..(Len(g) - 1) : Tail(g)[i].op = "command" => Tail(g)[i].arg = cmd
  BY <1>3 DEF Carries
<1> QED BY <1>4, <1>6, <1>8, <1>9 DEF Carries

-----------------------------------------------------------------------------
(* The tune of the request *)

\* What the frontend has when its tune is done, with no ioctl failed.
DishAsked ==
  ~OnABus => volt = VoltAsked(tunedTo) /\ tone = Bit(HiBand(tunedTo))
Commanded == dish = "committed" => commands # <<>> /\ Head(commands) = CommandOf(tunedTo)

\* Where a tune with no failure is: still sending, or setting the dish, or tuning.
Sending(x) ==
  /\ x \in Seq(Groups) /\ x # <<>> /\ todo = x \o Restore(tunedTo)
  /\ dish = "committed" => Len(x) = 1 /\ Carries(x[1], commands, CommandOf(tunedTo))
Settling ==
  /\ Commanded
  /\ \/ todo = Restore(tunedTo)
     \/ ~OnABus /\ volt = VoltAsked(tunedTo)
        /\ todo = <<<<Tone(HiBand(tunedTo), "stop")>>, <<TuneIoctl(tunedTo)>>>>
     \/ DishAsked /\ todo = <<<<TuneIoctl(tunedTo)>>>>
Underway == Settling \/ \E x : Sending(x)

TuningInv ==
  /\ dish \in Dishes /\ data \in FrontendData /\ tunedTo \in FrontendData
  /\ step = "tune" => ~tuned
  /\ (tuned \/ step = "tune") /\ ~changed => tunedTo.freq = data.freq
  /\ clean => commands \in Seq(Seq(Int))
  /\ clean /\ step = "tune" => Underway
  /\ clean /\ tuned => frontend = Properties(tunedTo) /\ DishAsked /\ Commanded

\* The invariant holds at first.
LEMMA TuningInit == ASSUME TunerInit PROVE TuningInv
<1>1. Initialized \in FrontendData
  BY DEF Initialized, FrontendData, Positions
<1>2. <<>> \in Seq(Seq(Int))
  OBVIOUS
<1> QED BY <1>1, <1>2, Zenon DEF TunerInit, TuningInv

\* What a request makes of the data of the frontend.
LEMMA ParsedIs ==
  ASSUME data \in FrontendData, NEW r \in Requests
  PROVE  /\ Parsed(r) \in FrontendData
         /\ ~NewFrequency(r) => Parsed(r).freq = data.freq
<1> DEFINE old == IF NewFrequency(r) THEN [Initialized EXCEPT !.freq = r.freq] ELSE data
<1>1. Initialized \in FrontendData
  BY DEF Initialized, FrontendData, Positions
<1>2. old \in FrontendData
  <2>1. CASE NewFrequency(r)
    <3>1. r.freq \in Freqs
      BY <2>1 DEF NewFrequency, Requests
    <3>2. [Initialized EXCEPT !.freq = r.freq] \in FrontendData
      BY <1>1, <3>1 DEF FrontendData
    <3> QED BY <2>1, <3>2
  <2> QED BY <2>1
<1>3. /\ r.pol \in Pols \cup {"none"} /\ r.src \in Sources \cup {No}
      /\ r.isi \in Isis \cup {No} /\ r.msys \in BOOLEAN /\ r.mod \in Mods
  BY DEF Requests
<1>4. (IF r.pol = "none" THEN old.pol ELSE r.pol) \in {"h", "v"}
  <2>1. Pols \subseteq {"h", "v"}
    BY TunerAssumption
  <2> QED BY <1>2, <1>3, <2>1 DEF FrontendData
<1>5. (IF r.src = No THEN 1 ELSE r.src) \in Positions
  BY <1>3 DEF Positions
<1>6. Others(r, old) \in {0, 1}
  <2>1. Mods \subseteq {1, -1}
    BY TunerAssumption
  <2> QED BY <1>2, <1>3, <2>1 DEF FrontendData, Others, No
<1>7. (old.msys \/ r.msys) \in BOOLEAN
  BY <1>2, <1>3, Zenon
<1>8. old.freq \in Freqs \cup {0}
  BY <1>2 DEF FrontendData
<1>9. Parsed(r) = [freq |-> old.freq,
                   pol |-> IF r.pol = "none" THEN old.pol ELSE r.pol,
                   src |-> IF r.src = No THEN 1 ELSE r.src,
                   isi |-> r.isi,
                   msys |-> old.msys \/ r.msys,
                   mod |-> Others(r, old)]
  BY Zenon DEF Parsed
<1>10. ~NewFrequency(r) => old.freq = data.freq
  OBVIOUS
<1> HIDE DEF old
<1>11. Parsed(r).freq = old.freq
  BY <1>9
<1>12. Parsed(r) \in FrontendData
  BY <1>3, <1>4, <1>5, <1>6, <1>7, <1>8, <1>9 DEF FrontendData
<1> QED BY <1>10, <1>11, <1>12

\* First and rest of one element, and of two.
LEMMA SinglesAre ==
  ASSUME NEW S, NEW a \in S, NEW b \in S
  PROVE  /\ Head(<<a>>) = a /\ Tail(<<a>>) = <<>> /\ Len(<<a>>) = 1
         /\ Head(<<a, b>>) = a /\ Tail(<<a, b>>) = <<b>> /\ Len(<<a, b>>) = 2
OBVIOUS

\* Nothing is left of the last group.
LEMMA LastIoctls ==
  ASSUME NEW a \in Ops, NEW b \in Ops, NEW c \in Ops
  PROVE  /\ RestOf(<<<<a>>>>) = <<>> /\ Head(Head(<<<<a>>>>)) = a
         /\ RestOf(<<<<a>>, <<c>>>>) = <<<<c>>>> /\ Head(Head(<<<<a>>, <<c>>>>)) = a
         /\ RestOf(<<<<a, b>>, <<c>>>>) = <<<<b>>, <<c>>>> /\ Head(Head(<<<<a, b>>, <<c>>>>)) = a
<1> DEFINE x == <<a>>
           y == <<c>>
           z == <<a, b>>
           w == <<b>>
<1>1. Head(x) = a /\ Len(x) = 1
  BY SinglesAre
<1>2. Head(z) = a /\ Len(z) = 2 /\ Tail(z) = w
  BY SinglesAre
<1>3. x \in Seq(Ops) /\ y \in Seq(Ops) /\ z \in Seq(Ops) /\ w \in Seq(Ops)
  OBVIOUS
<1> HIDE DEF x, y, z, w
<1>4. Head(<<x>>) = x /\ Tail(<<x>>) = <<>>
  BY <1>3, SinglesAre
<1>5. Head(<<x, y>>) = x /\ Tail(<<x, y>>) = <<y>> /\ Head(<<z, y>>) = z /\ Tail(<<z, y>>) = <<y>>
  BY <1>3, SinglesAre
<1>6. RestOf(<<x>>) = <<>>
  BY <1>1, <1>4, Zenon DEF RestOf
<1>7. RestOf(<<x, y>>) = <<y>>
  BY <1>1, <1>5, Zenon DEF RestOf
<1>8. RestOf(<<z, y>>) = <<w>> \o <<y>>
  <2>1. 1 # 2
    OBVIOUS
  <2> QED BY <1>2, <1>5, <2>1, Zenon DEF RestOf
<1>9. <<w>> \o <<y>> = <<w, y>>
  BY <1>3, PairIs
<1> QED BY <1>1, <1>2, <1>4, <1>5, <1>6, <1>7, <1>8, <1>9, Zenon DEF x, y, z, w

\* What depends on the dish and the data alone.
LEMMA SameDish ==
  ASSUME dish' = dish, NEW d, tunedTo' = d
  PROVE  /\ OnABus' <=> OnABus
         /\ Properties(tunedTo)' = Properties(d) /\ Restore(tunedTo)' = Restore(d)
         /\ TuneIoctl(tunedTo)' = TuneIoctl(d) /\ CommandOf(tunedTo)' = CommandOf(d)
         /\ VoltAsked(tunedTo)' = VoltAsked(d) /\ HiBand(tunedTo)' = HiBand(d)
<1>1. OnABus' <=> OnABus
  BY DEF OnABus
<1>2. HiBand(tunedTo)' = HiBand(d) /\ VoltAsked(tunedTo)' = VoltAsked(d)
  <2>1. HiBand(tunedTo)' = HiBand(d)
    BY SMT DEF HiBand
  <2>2. VoltAsked(tunedTo)' = VoltAsked(d)
    BY Zenon DEF VoltAsked
  <2> QED BY <2>1, <2>2
<1>3. Properties(tunedTo)' = Properties(d)
  BY <1>1 DEF Properties, TuneFreq, IntermediateFreq, HiBand
<1>4. CommandOf(tunedTo)' = CommandOf(d)
  BY DEF CommandOf, PortBits, HiBand
<1>5. TuneIoctl(tunedTo)' = TuneIoctl(d)
  BY <1>3, Zenon DEF TuneIoctl
<1>6. Settled(tunedTo)' = Settled(d)
  BY <1>1, <1>2 DEF Settled, VoltAsked, HiBand, Volt, Tone, Bit, Ioctl
<1>7. Restore(tunedTo)' = Restore(d)
  BY <1>5, <1>6, Zenon DEF Restore
<1> QED BY <1>1, <1>2, <1>3, <1>4, <1>5, <1>7

\* The first ioctls of a tune.
LEMMA TuneBegins ==
  ASSUME dish \in Dishes, NEW d \in FrontendData
  PROVE  /\ SendDiseqc(d) \in Seq(Groups) /\ SendDiseqc(d) # <<>>
         /\ Ioctls(d) = SendDiseqc(d) \o Restore(d)
         /\ dish = "committed" => /\ Len(SendDiseqc(d)) = 1
                                  /\ Carries(SendDiseqc(d)[1], <<>>, CommandOf(d))
<1> DEFINE x == SendDiseqc(d)
<1>1. /\ x \in Seq(Groups) /\ x # <<>>
      /\ dish = "committed" => CommandIn(x) /\ CommandsIn(x, CommandOf(d))
  BY SendDiseqcIs
<1>2. TuneIoctl(d) \in Ops
  BY RestoreIs
<1> DEFINE v == Volt(VoltAsked(d), "stop")
           o == Tone(HiBand(d), "stop")
           z == <<<<TuneIoctl(d)>>>>
           s == Settled(d)
<1>3. z \in Seq(Groups)
  <2>1. <<TuneIoctl(d)>> \in Groups
    BY <1>2 DEF Groups
  <2> QED BY <2>1
<1>4. s \in Seq(Groups)
  <2>1. CASE OnABus
    <3>1. s = <<>>
      BY <2>1 DEF Settled
    <3> QED BY <3>1
  <2>2. CASE ~OnABus
    <3>1. s = <<<<v, o>>>>
      BY <2>2 DEF Settled, VoltAsked
    <3>2. "stop" \in OnFail
      BY DEF OnFail
    <3>3. v \in Ops
      <4>1. VoltAsked(d) \in Int
        BY DEF VoltAsked
      <4> QED BY <3>2, <4>1, VoltIs
    <3>4. o \in Ops
      <4>1. HiBand(d) \in BOOLEAN
        BY NumbersAre, SMT DEF HiBand
      <4> QED BY <3>2, <4>1, ToneIs
    <3> HIDE DEF v, o
    <3>5. <<v, o>> \in Groups
      BY <3>3, <3>4 DEF Groups
    <3> HIDE DEF s
    <3> QED BY <3>1, <3>5
  <2> QED BY <2>1, <2>2
<1>5. Ioctls(d) = x \o s \o z /\ Restore(d) = s \o z
  BY Zenon DEF Ioctls, Restore, TuneIoctl
<1> HIDE DEF x, s, z
<1>6. (x \o s) \o z = x \o (s \o z)
  BY <1>1, <1>3, <1>4
<1>7. dish = "committed" => Len(x) = 1 /\ Carries(x[1], <<>>, CommandOf(d))
  BY <1>1 DEF CommandIn, CommandsIn, Carries
<1> QED BY <1>1, <1>5, <1>6, <1>7 DEF x

\* A sequence of no element, and
LEMMA NoneIs ==
  ASSUME NEW S, NEW x \in Seq(S), Len(x) = 0
  PROVE  x = <<>>
OBVIOUS

\* of one.
LEMMA OneIs ==
  ASSUME NEW S, NEW x \in Seq(S), Len(x) = 1
  PROVE  Head(x) = x[1] /\ x[1] \in S /\ Tail(x) = <<>>
<1>1. Head(x) = x[1] /\ x[1] \in S
  OBVIOUS
<1>2. Len(<<>>) = 0 /\ 0 # 1
  OBVIOUS
<1>3. x # <<>>
  BY <1>2, Zenon
<1>4. Tail(x) \in Seq(S) /\ Len(Tail(x)) = 0
  BY <1>3
<1>5. Tail(x) = <<>>
  BY <1>4, NoneIs
<1> QED BY <1>1, <1>5

\* An ioctl of a tune with no failure works.
LEMMA NextIoctl ==
  ASSUME TuningInv, clean, step = "tune", IoctlDone
  PROVE  /\ commands' \in Seq(Seq(Int))
         /\ todo' # <<>> => Underway'
         /\ todo' = <<>> => /\ frontend' = Properties(tunedTo)'
                            /\ DishAsked' /\ Commanded'
<1> USE DEF TuningInv
<1>1. /\ todo' = RestOf(todo)
      /\ volt' = (IF Current.op = "voltage" THEN Current.arg[1] ELSE volt)
      /\ tone' = (IF Current.op = "tone" THEN Current.arg[1] ELSE tone)
      /\ commands' = (IF Current.op = "command" THEN Append(commands, Current.arg) ELSE commands)
      /\ frontend' = (IF Current.op = "tune" THEN Current.arg ELSE frontend)
      /\ dish' = dish /\ tunedTo' = tunedTo
  BY Zenon DEF IoctlDone
<1>2. PICK d \in FrontendData : d = tunedTo
  BY Zenon
<1>3. tunedTo' = d
  BY <1>1, <1>2
<1>4. /\ OnABus' <=> OnABus
      /\ Properties(tunedTo)' = Properties(d) /\ Restore(tunedTo)' = Restore(d)
      /\ TuneIoctl(tunedTo)' = TuneIoctl(d) /\ CommandOf(tunedTo)' = CommandOf(d)
      /\ VoltAsked(tunedTo)' = VoltAsked(d) /\ HiBand(tunedTo)' = HiBand(d)
  BY <1>1, <1>3, SameDish
<1> DEFINE t == TuneIoctl(d)
           v == Volt(VoltAsked(d), "stop")
           o == Tone(HiBand(d), "stop")
           z == Restore(d)
<1>5. dish \in Dishes /\ commands \in Seq(Seq(Int)) /\ Underway
  OBVIOUS
<1>6. /\ t \in Ops /\ t.op = "tune" /\ t.arg = Properties(d) /\ z \in Seq(Groups)
      /\ OnABus => z = <<<<t>>>>
      /\ ~OnABus => z = <<<<v, o>>, <<t>>>>
  BY <1>5, RestoreIs
<1>7. "stop" \in OnFail
  BY DEF OnFail
<1>8. v \in Ops /\ v.op = "voltage" /\ v.arg[1] = VoltAsked(d)
  <2>1. VoltAsked(d) \in Int
    BY DEF VoltAsked
  <2> QED BY <1>7, <2>1, VoltIs
<1>9. o \in Ops /\ o.op = "tone" /\ o.arg[1] = Bit(HiBand(d))
  <2>1. HiBand(d) \in BOOLEAN
    BY NumbersAre, SMT DEF HiBand
  <2> QED BY <1>7, <2>1, ToneIs
<1>10. CASE \E x : Sending(x)
  <2>1. PICK x : Sending(x)
    BY <1>10
  <2>2. /\ x \in Seq(Groups) /\ x # <<>> /\ todo = x \o z
        /\ dish = "committed" => Len(x) = 1 /\ Carries(x[1], commands, CommandOf(d))
    BY <1>2, <2>1 DEF Sending
  <2> DEFINE i == Head(Head(x))
  <2>3. /\ RestOf(todo) = RestOf(x) \o z /\ RestOf(x) \in Seq(Groups)
        /\ Current = i /\ i \in Ops
        /\ RestOf(x) = <<>> => RestOf(todo) = z
    BY <1>6, <2>2, RestOfIs DEF Current
  <2> HIDE DEF i, z
  <2>4. commands' = IF i.op = "command" THEN Append(commands, i.arg) ELSE commands
    BY <1>1, <2>3, Zenon
  <2>5. commands' \in Seq(Seq(Int))
    <3>1. i.arg \in Seq(Int)
      BY <2>3 DEF Ops
    <3>2. Append(commands, i.arg) \in Seq(Seq(Int))
      BY <1>5, <3>1, AppendIs
    <3> QED BY <1>5, <2>4, <3>2, Zenon
  <2>6. z # <<>>
    <3>1. <<<<t>>>> # <<>> /\ <<<<v, o>>, <<t>>>> # <<>>
      OBVIOUS
    <3> QED BY <1>6, <3>1, Zenon DEF z
  <2>7. todo' # <<>>
    <3>1. CASE RestOf(x) = <<>>
      BY <1>1, <2>3, <2>6, <3>1
    <3>2. CASE RestOf(x) # <<>>
      <4>1. RestOf(x) \o z # <<>>
        BY <1>6, <2>3, <3>2, ConcatHeadTail DEF z
      <4> QED BY <1>1, <2>3, <4>1
    <3> QED BY <3>1, <3>2
  <2>8. dish # "committed" => Underway'
    <3>1. CASE RestOf(x) = <<>>
      BY <1>1, <1>4, <2>3, <3>1, Zenon DEF Underway, Settling, Commanded, z
    <3>2. CASE RestOf(x) # <<>>
      <4>1. todo' = RestOf(x) \o Restore(tunedTo)'
        BY <1>1, <1>4, <2>3 DEF z
      <4> DEFINE y == RestOf(x)
      <4> HIDE DEF y
      <4>2. dish # "committed" => Sending(y)'
        BY <1>1, <2>3, <3>2, <4>1, Zenon DEF Sending, y
      <4> QED BY <4>2, Zenon DEF Underway
    <3> QED BY <3>1, <3>2
  <2>9. ASSUME dish = "committed"
        PROVE  Underway'
    <3> DEFINE g == x[1]
    <3>1. Len(x) = 1 /\ Carries(g, commands, CommandOf(d)) /\ Head(x) = g /\ g \in Groups
          /\ Tail(x) = <<>>
      <4>1. Len(x) = 1 /\ Carries(g, commands, CommandOf(d))
        BY <2>2, <2>9
      <4>2. Head(x) = g /\ g \in Groups /\ Tail(x) = <<>>
        BY <2>2, <4>1, OneIs
      <4> QED BY <4>1, <4>2
    <3> HIDE DEF g
    <3>2. i = Head(g)
      BY <3>1 DEF i
    <3>3. /\ Len(g) # 1 => Carries(Tail(g), commands', CommandOf(d))
          /\ Len(g) = 1 => commands' # <<>> /\ Head(commands') = CommandOf(d)
      <4>1. PICK n : n = commands'
        OBVIOUS
      <4>2. n = IF Head(g).op = "command" THEN Append(commands, Head(g).arg) ELSE commands
        BY <2>4, <3>2, <4>1, Zenon
      <4>3. PICK s \in Seq(Seq(Int)) : s = commands
        BY <1>5
      <4>4. n = IF Head(g).op = "command" THEN Append(s, Head(g).arg) ELSE s
        BY <4>2, <4>3, Zenon
      <4>5. Carries(g, s, CommandOf(d))
        BY <3>1, <4>3
      <4>6. /\ Len(g) # 1 => Carries(Tail(g), n, CommandOf(d))
            /\ Len(g) = 1 => n # <<>> /\ Head(n) = CommandOf(d)
        <5>1. PICK c : c = CommandOf(d)
          OBVIOUS
        <5>2. Carries(g, s, c) /\ g \in Groups
          BY <3>1, <4>5, <5>1
        <5>3. /\ Len(g) # 1 => Carries(Tail(g), n, c)
              /\ Len(g) = 1 => n # <<>> /\ Head(n) = c
          BY ONLY <4>4, <5>2, CarriesOn, Zenon
        <5> QED BY <5>1, <5>3
      <4> QED BY <4>1, <4>6
    <3>4. CASE Len(g) = 1
      <4>1. RestOf(x) = <<>>
        BY <3>1, <3>4 DEF RestOf
      <4>2. todo' = Restore(tunedTo)'
        BY <1>1, <1>4, <2>3, <4>1 DEF z
      <4>3. Commanded'
        BY <1>4, <3>3, <3>4, Zenon DEF Commanded
      <4> QED BY <4>2, <4>3, Zenon DEF Underway, Settling
    <3>5. CASE Len(g) # 1
      <4> DEFINE y == <<Tail(g)>>
      <4>1. RestOf(x) = y
        <5>1. RestOf(x) = y \o <<>>
          BY <3>1, <3>5, Zenon DEF RestOf
        <5>2. y \o <<>> = y
          OBVIOUS
        <5> QED BY <5>1, <5>2
      <4>2. y # <<>> /\ Len(y) = 1 /\ y[1] = Tail(g)
        OBVIOUS
      <4> HIDE DEF y
      <4>3. todo' = y \o Restore(tunedTo)' /\ y \in Seq(Groups)
        BY <1>1, <1>4, <2>3, <4>1 DEF z
      <4>4. Carries(y[1], commands', CommandOf(tunedTo)')
        BY <1>4, <3>3, <3>5, <4>2
      <4>5. Sending(y)'
        BY <4>2, <4>3, <4>4, Zenon DEF Sending
      <4> QED BY <4>5, Zenon DEF Underway
    <3> QED BY <3>4, <3>5
  <2> QED BY <1>1, <2>5, <2>7, <2>8, <2>9
<1>11. CASE Settling
  <2>1. Commanded /\ commands \in Seq(Seq(Int))
    BY <1>5, <1>11 DEF Settling
  <2> HIDE DEF t, v, o, z
  <2>2. ASSUME Current.op # "command"
        PROVE  commands' \in Seq(Seq(Int)) /\ Commanded'
    BY <1>1, <1>2, <1>4, <2>1, <2>2, Zenon DEF Commanded
  <2>3. CASE todo = <<<<t>>>> /\ DishAsked
    <3>1. todo' = <<>> /\ Current = t
      BY <1>1, <1>6, <2>3, LastIoctls DEF Current
    <3>2. frontend' = Properties(d) /\ volt' = volt /\ tone' = tone
      BY <1>1, <1>6, <3>1
    <3>3. DishAsked'
      BY <1>2, <1>4, <2>3, <3>2, Zenon DEF DishAsked
    <3>4. Current.op # "command"
      BY <1>6, <3>1
    <3> QED BY <1>4, <2>2, <3>1, <3>2, <3>3, <3>4, Zenon
  <2>4. CASE todo = <<<<o>>, <<t>>>> /\ ~OnABus /\ volt = VoltAsked(d)
    <3>1. todo' = <<<<t>>>> /\ Current = o
      BY <1>1, <1>6, <1>9, <2>4, LastIoctls DEF Current
    <3>2. tone' = Bit(HiBand(d)) /\ volt' = volt
      BY <1>1, <1>9, <3>1
    <3>3. Bit(HiBand(tunedTo))' = Bit(HiBand(d))
      BY <1>4, Zenon DEF Bit
    <3>4. DishAsked'
      BY <1>4, <2>4, <3>2, <3>3, Zenon DEF DishAsked
    <3>5. Current.op # "command"
      BY <1>9, <3>1
    <3>6. todo' = <<<<TuneIoctl(tunedTo)'>>>>
      BY <1>4, <3>1, Zenon DEF t
    <3>7. todo' # <<>>
      <4>1. <<<<t>>>> # <<>>
        OBVIOUS
      <4> QED BY <3>1, <4>1
    <3> QED BY <2>2, <3>4, <3>5, <3>6, <3>7, Zenon DEF Underway, Settling
  <2>5. CASE todo = <<<<v, o>>, <<t>>>> /\ ~OnABus
    <3>1. todo' = <<<<o>>, <<t>>>> /\ Current = v
      BY <1>1, <1>6, <1>8, <1>9, <2>5, LastIoctls DEF Current
    <3>2. volt' = VoltAsked(d)
      BY <1>1, <1>8, <3>1
    <3>3. Current.op # "command"
      BY <1>8, <3>1
    <3>4. Tone(HiBand(tunedTo), "stop")' = o
      BY <1>4, Zenon DEF o, Tone, Bit
    <3>5. todo' = <<<<Tone(HiBand(tunedTo), "stop")>>, <<TuneIoctl(tunedTo)>>>>'
      BY <1>4, <3>1, <3>4, Zenon DEF t
    <3>6. todo' # <<>>
      <4>1. <<<<o>>, <<t>>>> # <<>>
        OBVIOUS
      <4> QED BY <3>1, <4>1
    <3> QED BY <1>4, <2>2, <2>5, <3>2, <3>3, <3>5, <3>6, Zenon DEF Underway, Settling
  <2>6. \/ todo = z
        \/ ~OnABus /\ volt = VoltAsked(d) /\ todo = <<<<o>>, <<t>>>>
        \/ DishAsked /\ todo = <<<<t>>>>
    BY <1>2, <1>11, Zenon DEF Settling, z, o, t
  <2>7. OnABus => DishAsked
    BY Zenon DEF DishAsked
  <2>8. \/ OnABus /\ todo = <<<<t>>>>
        \/ ~OnABus /\ todo = <<<<v, o>>, <<t>>>>
        \/ ~OnABus /\ volt = VoltAsked(d) /\ todo = <<<<o>>, <<t>>>>
        \/ DishAsked /\ todo = <<<<t>>>>
    BY <1>6, <2>6, Zenon
  <2> QED BY <2>3, <2>4, <2>5, <2>7, <2>8, Zenon
<1> QED BY <1>5, <1>10, <1>11, Zenon DEF Underway

\* A tune begins with nothing sent.
LEMMA OpenTunes ==
  ASSUME TuningInv, OpenFE PROVE TuningInv'
<1>1. CASE data.msys
  <2>1. /\ step' = "tune" /\ todo' = Ioctls(data) /\ tunedTo' = data /\ commands' = <<>>
        /\ ~tuned /\ tuned' = tuned /\ data' = data /\ dish' = dish
    BY <1>1, Zenon DEF OpenFE, requestVars
  <2>2. PICK d \in FrontendData : d = data
    BY Zenon DEF TuningInv
  <2>3. dish \in Dishes
    BY DEF TuningInv
  <2>4. Restore(tunedTo)' = Restore(d) /\ CommandOf(tunedTo)' = CommandOf(d)
    BY <2>1, <2>2, SameDish
  <2> DEFINE x == SendDiseqc(d)
  <2>5. /\ x \in Seq(Groups) /\ x # <<>> /\ todo' = x \o Restore(d)
        /\ dish = "committed" => Len(x) = 1 /\ Carries(x[1], <<>>, CommandOf(d))
    BY <2>1, <2>2, <2>3, TuneBegins
  <2>6. PICK y : y = x
    OBVIOUS
  <2> HIDE DEF x
  <2>7. Sending(y)'
    BY <2>1, <2>4, <2>5, <2>6, Zenon DEF Sending
  <2>8. <<>> \in Seq(Seq(Int))
    OBVIOUS
  <2>9. Underway'
    BY <2>7, Zenon DEF Underway
  <2> QED BY <2>1, <2>2, <2>3, <2>8, <2>9, Zenon DEF TuningInv
<1>2. CASE ~data.msys
  <2>1. /\ step' = "idle" /\ UNCHANGED <<todo, tunedTo, commands, clean>>
        /\ ~tuned /\ tuned' = tuned /\ data' = data /\ dish' = dish
    BY <1>2, Zenon DEF OpenFE, requestVars
  <2> QED BY <2>1, Zenon DEF TuningInv
<1> QED BY <1>1, <1>2

\* Every step keeps the invariant.
LEMMA TuningStep ==
  ASSUME TuningInv, [TunerNext]_tunerVars PROVE TuningInv'
<1>1. ASSUME dish' = dish /\ tunedTo' = tunedTo /\ volt' = volt /\ tone' = tone
             /\ commands' = commands /\ frontend' = frontend /\ clean' = clean
             /\ tuned' = tuned /\ step' # "tune" /\ (tuned' /\ ~changed' => tunedTo.freq = data'.freq)
             /\ data' \in FrontendData
      PROVE  TuningInv'
  <2>1. PICK d : d = tunedTo
    OBVIOUS
  <2>2. /\ OnABus' <=> OnABus
        /\ Properties(tunedTo)' = Properties(d) /\ CommandOf(tunedTo)' = CommandOf(d)
        /\ VoltAsked(tunedTo)' = VoltAsked(d) /\ HiBand(tunedTo)' = HiBand(d)
    BY <1>1, <2>1, SameDish
  <2>3. DishAsked => DishAsked'
    BY <1>1, <2>1, <2>2, Zenon DEF DishAsked, Bit
  <2>4. Commanded => Commanded'
    BY <1>1, <2>1, <2>2, Zenon DEF Commanded
  <2>5. frontend = Properties(tunedTo) => frontend' = Properties(tunedTo)'
    BY <1>1, <2>1, <2>2
  <2> QED BY <1>1, <2>3, <2>4, <2>5, Zenon DEF TuningInv
<1>2. ASSUME NEW r \in Requests, Request(r)
      PROVE  TuningInv'
  <2>1. /\ step = "idle" /\ step' = "update" /\ data' = Parsed(r)
        /\ changed' = (changed \/ NewFrequency(r) \/ r.isi # No)
        /\ UNCHANGED <<dish, fe, tuned, todo, tunedTo, dishVars, clean, fails>>
    BY <1>2, Zenon DEF Request
  <2>2. UNCHANGED <<dish, tuned, tunedTo, volt, tone, commands, frontend, clean>>
    BY <2>1, Zenon DEF dishVars
  <2>3. data' \in FrontendData /\ (~NewFrequency(r) => data'.freq = data.freq)
    BY <2>1, ParsedIs, Zenon DEF TuningInv
  <2>6. ~changed' => ~changed /\ ~NewFrequency(r)
    <3>1. changed \/ NewFrequency(r) => changed'
      BY <2>1, Zenon
    <3> QED BY <3>1, Zenon
  <2>4. tuned' /\ ~changed' => tunedTo.freq = data'.freq
    BY <2>2, <2>3, <2>6, Zenon DEF TuningInv
  <2>5. step' # "tune"
    BY <2>1
  <2> QED BY <1>1, <2>2, <2>3, <2>4, <2>5, Zenon
<1>3. ASSUME Reopen
      PROVE  TuningInv'
  <2>1. CASE changed
    <3>1. /\ dish' = dish /\ data' = data /\ ~tuned' /\ tunedTo' = Initialized /\ commands' = <<>>
          /\ step' = "open"
      BY <1>3, <2>1, Zenon DEF Reopen, Forget
    <3>2. Initialized \in FrontendData
      BY DEF Initialized, FrontendData, Positions
    <3>3. <<>> \in Seq(Seq(Int)) /\ "open" # "tune"
      OBVIOUS
    <3> QED BY <3>1, <3>2, <3>3, Zenon DEF TuningInv
  <2>2. CASE ~changed
    <3>1. /\ UNCHANGED <<dish, data, tuned, tunedTo, commands, frontend, volt, tone, clean>>
          /\ step' = "open"
      BY <1>3, <2>2, Zenon DEF Reopen
    <3>2. tuned' /\ ~changed' => tunedTo.freq = data'.freq
      BY <2>2, <3>1, Zenon DEF TuningInv
    <3>3. data' \in FrontendData /\ step' # "tune"
      BY <3>1 DEF TuningInv
    <3> QED BY <1>1, <3>1, <3>2, <3>3, Zenon
  <2> QED BY <2>1, <2>2
<1>4. ASSUME StillTuned \/ OpenFails
      PROVE  TuningInv'
  <2>1. /\ UNCHANGED <<dish, data, changed, tuned, tunedTo, commands, frontend, volt, tone, clean>>
        /\ step' = "idle"
    BY <1>4, Zenon DEF StillTuned, OpenFails, requestVars, dishVars
  <2>2. tuned' /\ ~changed' => tunedTo.freq = data'.freq
    BY <2>1, Zenon DEF TuningInv
  <2>3. data' \in FrontendData /\ step' # "tune"
    BY <2>1 DEF TuningInv
  <2> QED BY <1>1, <2>1, <2>2, <2>3, Zenon
<1>5. ASSUME OpenFE
      PROVE  TuningInv'
  BY <1>5, OpenTunes
<1>6. ASSUME IoctlDone
      PROVE  TuningInv'
  <2>1. /\ step = "tune" /\ tuned' = (todo' = <<>>)
        /\ step' = (IF tuned' THEN "idle" ELSE "tune")
        /\ UNCHANGED <<dish, data, changed, tunedTo, clean>>
    BY <1>6, Zenon DEF IoctlDone, requestVars
  <2>2. step' = "tune" => ~tuned'
    <3>1. "idle" # "tune"
      OBVIOUS
    <3> QED BY <2>1, <3>1, Zenon
  <2>3. (tuned' \/ step' = "tune") /\ ~changed' => tunedTo'.freq = data'.freq
    BY <2>1, Zenon DEF TuningInv
  <2>4. step' = "tune" => todo' # <<>>
    BY <2>1, <2>2, Zenon
  <2>5. tuned' => todo' = <<>>
    BY <2>1, Zenon
  <2>6. clean => /\ commands' \in Seq(Seq(Int))
                 /\ todo' # <<>> => Underway'
                 /\ todo' = <<>> => frontend' = Properties(tunedTo)' /\ DishAsked' /\ Commanded'
    BY <1>6, <2>1, NextIoctl, Zenon
  <2> QED BY <2>1, <2>2, <2>3, <2>4, <2>5, <2>6, Zenon DEF TuningInv
<1>7. ASSUME IoctlFails
      PROVE  TuningInv'
  <2>1. /\ step = "tune" /\ ~clean'
        /\ UNCHANGED <<dish, data, changed, tuned, tunedTo>>
    BY <1>7, Zenon DEF IoctlFails, requestVars
  <2> QED BY <2>1, Zenon DEF TuningInv
<1>8. ASSUME Teardown
      PROVE  TuningInv'
  <2>1. /\ dish' = dish /\ data' = Initialized /\ ~tuned' /\ tunedTo' = Initialized
        /\ commands' = <<>> /\ step' = step /\ step = "idle"
    BY <1>8, Zenon DEF Teardown, Forget
  <2>2. Initialized \in FrontendData
    BY DEF Initialized, FrontendData, Positions
  <2>3. <<>> \in Seq(Seq(Int)) /\ "idle" # "tune"
    OBVIOUS
  <2> QED BY <2>1, <2>2, <2>3, Zenon DEF TuningInv
<1>9. ASSUME UNCHANGED tunerVars
      PROVE  TuningInv'
  <2>1. UNCHANGED <<dish, data, changed, tuned, step, todo, tunedTo, commands, frontend, volt, tone, clean>>
    BY <1>9, Zenon DEF tunerVars, requestVars, dishVars
  <2>2. CASE step # "tune"
    <3>1. tuned' /\ ~changed' => tunedTo.freq = data'.freq
      BY <2>1, Zenon DEF TuningInv
    <3>2. data' \in FrontendData /\ step' # "tune"
      BY <2>1, <2>2, Zenon DEF TuningInv
    <3> QED BY <1>1, <2>1, <3>1, <3>2, Zenon
  <2>3. CASE step = "tune"
    <3>1. PICK d : d = tunedTo
      OBVIOUS
    <3>2. /\ OnABus' <=> OnABus
          /\ Restore(tunedTo)' = Restore(d) /\ TuneIoctl(tunedTo)' = TuneIoctl(d)
          /\ CommandOf(tunedTo)' = CommandOf(d)
          /\ VoltAsked(tunedTo)' = VoltAsked(d) /\ HiBand(tunedTo)' = HiBand(d)
      BY <2>1, <3>1, SameDish
    <3>3. Commanded => Commanded'
      BY <2>1, <3>1, <3>2, Zenon DEF Commanded
    <3>4. DishAsked => DishAsked'
      BY <2>1, <3>1, <3>2, Zenon DEF DishAsked, Bit
    <3>5. Tone(HiBand(tunedTo), "stop")' = Tone(HiBand(d), "stop")
      BY <3>2, Zenon DEF Tone, Bit
    <3>6. Settling => Settling'
      BY <2>1, <3>1, <3>2, <3>3, <3>4, <3>5, Zenon DEF Settling
    <3>7. ASSUME NEW x, Sending(x) PROVE Sending(x)'
      BY <2>1, <3>1, <3>2, <3>7, Zenon DEF Sending
    <3>8. Underway => Underway'
      BY <3>6, <3>7, Zenon DEF Underway
    <3> QED BY <2>1, <2>3, <3>8, Zenon DEF TuningInv
  <2> QED BY <2>2, <2>3
<1> QED BY <1>2, <1>3, <1>4, <1>5, <1>6, <1>7, <1>8, <1>9, Zenon DEF TunerNext

\* The bits of a committed command are port, polarisation and band.
LEMMA PortBitsAre ==
  ASSUME NEW d \in FrontendData
  PROVE  /\ PortBits(d) \div 4 = d.src - 1
         /\ (PortBits(d) \div 2) % 2 = Bit(d.pol = "h") /\ PortBits(d) % 2 = Bit(HiBand(d))
<1> DEFINE s == d.src
           p == Bit(d.pol = "h")
           b == Bit(HiBand(d))
<1>1. s \in 1..4
  BY NumbersAre
<1>2. p \in {0, 1} /\ b \in {0, 1}
  BY DEF Bit
<1>3. PortBits(d) = ((4 * (s - 1)) % 16) + 2 * p + b
  BY DEF PortBits
<1> HIDE DEF s, p, b
<1>4. (4 * (s - 1)) % 16 = 4 * (s - 1)
  BY <1>1
<1> QED BY <1>1, <1>2, <1>3, <1>4 DEF s, p, b

\* The invariant says what the property says.
LEMMA TuningIsRight == ASSUME TuningInv PROVE TunedAsAsked
<1>1. ASSUME tuned, ~changed PROVE tunedTo.freq = data.freq
  BY <1>1, Zenon DEF TuningInv
<1>2. ASSUME tuned, clean
      PROVE  frontend = Properties(tunedTo) /\ DishAsked /\ Commanded
  BY <1>2, ZenonT(60) DEF TuningInv
<1>3. ASSUME tuned, clean, ~OnABus
      PROVE  /\ volt = IF tunedTo.pol = "v" THEN 13 ELSE 18
             /\ tone = Bit(tunedTo.freq >= 11700)
  <2>1. DishAsked
    BY <1>2, <1>3
  <2>2. volt = VoltAsked(tunedTo) /\ tone = Bit(HiBand(tunedTo))
    BY <1>3, <2>1 DEF DishAsked
  <2>3. volt = IF tunedTo.pol = "v" THEN 13 ELSE 18
    BY <2>2 DEF VoltAsked
  <2>4. tone = Bit(tunedTo.freq >= 11700)
    BY <2>2 DEF HiBand, Bit
  <2> QED BY <2>3, <2>4
<1>4. ASSUME tuned, clean, dish = "committed"
      PROVE  LET bits == Head(commands)[2] - 240 IN
             /\ bits \div 4 = tunedTo.src - 1
             /\ (bits \div 2) % 2 = Bit(tunedTo.pol = "h") /\ bits % 2 = tone
  <2>1. tunedTo \in FrontendData
    BY DEF TuningInv
  <2>2. PortBits(tunedTo) \in Int
    BY <2>1, NumbersAre
  <2>3. Head(commands) = <<56, 240 + PortBits(tunedTo)>>
    BY <1>2, <1>4, Zenon DEF Commanded, CommandOf
  <2> DEFINE c == Head(commands)
             p == PortBits(tunedTo)
  <2>4. c[2] = 240 + p
    BY <2>3
  <2> HIDE DEF c, p
  <2>5. c[2] - 240 = p
    BY <2>2, <2>4 DEF p
  <2>6. ~OnABus
    BY <1>4 DEF OnABus
  <2>7. tone = Bit(HiBand(tunedTo))
    BY <1>2, <1>4, <2>6, Zenon DEF DishAsked
  <2>8. /\ p \div 4 = tunedTo.src - 1
        /\ (p \div 2) % 2 = Bit(tunedTo.pol = "h") /\ p % 2 = Bit(HiBand(tunedTo))
    BY <2>1, PortBitsAre DEF p
  <2> QED BY <2>5, <2>7, <2>8 DEF c
<1> QED BY <1>1, <1>2, <1>3, <1>4 DEF TunedAsAsked

\* Whatever order requests, teardowns and the failures of open() and of single ioctls come in
\* (Frontend::update(), setupAndTune(), DVBS::tune() and DiSEqc::sendDiseqc()): a frontend that
\* is tuned, with no ioctl of that tune failed, has the dish and the frequency of the request
\* it was tuned for.
THEOREM AlwaysTunedAsAsked == TunerSpec => []TunedAsAsked
<1>1. TunerInit => TuningInv
  BY TuningInit
<1>2. TuningInv /\ [TunerNext]_tunerVars => TuningInv'
  BY TuningStep
<1>3. TuningInv => TunedAsAsked
  BY TuningIsRight
<1> QED BY <1>1, <1>2, <1>3, PTL DEF TunerSpec

-----------------------------------------------------------------------------
(* SignalMonitor: what is told of the signal *)

\* One field of a sample is set: the others stay, one lemma for each field.
LEMMA PutLevel ==
  ASSUME NEW d \in Samples, NEW v \in Int
  PROVE  LET e == [d EXCEPT !.level = v] IN
         e \in Samples /\ e.lock = d.lock /\ e.level = v /\ e.quality = d.quality /\ e.stats = d.stats
BY DEF Samples

LEMMA PutQuality ==
  ASSUME NEW d \in Samples, NEW v \in Int
  PROVE  LET e == [d EXCEPT !.quality = v] IN
         e \in Samples /\ e.lock = d.lock /\ e.level = d.level /\ e.quality = v /\ e.stats = d.stats
BY DEF Samples

LEMMA PutStats ==
  ASSUME NEW d \in Samples, NEW v \in {"none", "new", "old", "tuned"}
  PROVE  LET e == [d EXCEPT !.stats = v] IN
         e \in Samples /\ e.lock = d.lock /\ e.level = d.level /\ e.quality = d.quality /\ e.stats = v
BY DEF Samples

LEMMA PutLock ==
  ASSUME NEW d \in Samples, NEW v \in BOOLEAN
  PROVE  LET e == [d EXCEPT !.lock = v] IN
         e \in Samples /\ e.lock = v /\ e.level = d.level /\ e.quality = d.quality /\ e.stats = d.stats
BY DEF Samples

\* The two samples that are not measured are right.
LEMMA NoSignalOK ==
  NoSignal \in Samples /\ NoSignal.stats = "none" /\ OfOneInterface(NoSignal)
BY DEF NoSignal, Samples, OfOneInterface

LEMMA LockedOK == Locked \in Samples /\ OfOneInterface(Locked)
BY DEF Locked, Samples, OfOneInterface

\* What is measured is numbers.
LEMMA MeasuresAre ==
  ASSUME NEW x \in Signals
  PROVE  /\ New(x).level \in Int /\ New(x).quality \in Int
         /\ \A ok \in BOOLEAN : Strength(x, ok) \in Int /\ Snr(x, ok) \in Int
<1>1. x.level \in Word16 /\ x.quality \in Word16 /\ x.power \in Int /\ x.cnr \in Int
  BY SignalMonitorAssumption DEF Received
<1>2. x.level \in Int /\ x.quality \in Int /\ x.power \in Int /\ x.cnr \in Int
  <2>1. \A w \in Word16 : w \in Int
    BY DEF Word16
  <2> QED BY <1>1, <2>1, Zenon
<1>3. ASSUME NEW a \in Int, NEW b \in Int
      PROVE  Value(scale, a, b) \in Int
  BY DEF Value
<1>4. New(x).level = Value(scale, x.level, x.power) /\ New(x).quality = Value(scale, x.quality, x.cnr)
  BY DEF New
<1>5. ASSUME NEW ok \in BOOLEAN
      PROVE  Strength(x, ok) \in Int /\ Snr(x, ok) \in Int
  <2>1. (x.level * 240) \div 65535 \in Int /\ (x.quality * 15) \div 65535 \in Int
    BY <1>2
  <2> QED BY <2>1 DEF Strength, Snr
<1> QED BY <1>2, <1>3, <1>4, <1>5

\* A signal that is made up has the made up level and quality, any other its own.
LEMMA SimulatedIs ==
  ASSUME NEW d \in Samples
  PROVE  LET e == Simulated(d) IN
         /\ e \in Samples /\ e.lock = d.lock
         /\ \/ e.level = d.level /\ e.quality = d.quality
            \/ e.level = 240 /\ e.quality = 15
<1> DEFINE f == [d EXCEPT !.level = 240]
           g == [f EXCEPT !.quality = 15]
<1>1. f \in Samples /\ f.lock = d.lock /\ f.level = 240
  BY PutLevel
<1> HIDE DEF f
<1>2. g \in Samples /\ g.lock = d.lock /\ g.level = 240 /\ g.quality = 15
  BY <1>1, PutQuality
<1>3. Simulated(d) = IF d.level = 0 /\ d.quality = 0 THEN g ELSE d
  BY DEF Simulated, f
<1> HIDE DEF g
<1> QED BY <1>2, <1>3, Zenon

\* A measurement by the new statistics, and one by the old calls.
LEMMA NewSample ==
  ASSUME NEW d \in Samples, NEW x \in Signals, NEW missing \in BOOLEAN
  PROVE  LET e == [d EXCEPT !.level = New(x).level, !.stats = "new",
                            !.quality = IF missing THEN 0 ELSE New(x).quality]
         IN e \in Samples /\ (~missing => OfOneInterface(e))
<1> DEFINE q == IF missing THEN 0 ELSE New(x).quality
           f == [d EXCEPT !.level = New(x).level]
           g == [f EXCEPT !.stats = "new"]
           h == [g EXCEPT !.quality = q]
<1>1. New(x).level \in Int /\ q \in Int
  BY MeasuresAre
<1>2. f \in Samples /\ f.level = New(x).level
  BY <1>1, PutLevel
<1>3. h = [d EXCEPT !.level = New(x).level, !.stats = "new",
                    !.quality = IF missing THEN 0 ELSE New(x).quality]
  OBVIOUS
<1>10. ~missing => q = New(x).quality
  OBVIOUS
<1> HIDE DEF f, q
<1>4. g \in Samples /\ g.level = New(x).level /\ g.stats = "new"
  BY <1>2, PutStats, Zenon
<1> HIDE DEF g
<1>5. h \in Samples /\ h.level = New(x).level /\ h.stats = "new" /\ h.quality = q
  BY <1>1, <1>4, PutQuality, Zenon
<1> HIDE DEF h
<1>6. ~missing => OfOneInterface(h)
  BY <1>5, <1>10 DEF OfOneInterface
<1> QED BY <1>3, <1>5, <1>6, Zenon DEF q

\* The first of the old calls, and the second.
LEMMA StrengthSample ==
  ASSUME NEW d \in Samples, NEW x \in Signals, NEW ok \in BOOLEAN
  PROVE  LET e == [d EXCEPT !.level = Strength(x, ok), !.stats = "old"]
         IN e \in Samples /\ LevelIsOld(e)
<1> DEFINE v == Strength(x, ok)
           f == [d EXCEPT !.level = v]
           g == [f EXCEPT !.stats = "old"]
<1>1. v \in Int
  BY MeasuresAre
<1>2. g = [d EXCEPT !.level = v, !.stats = "old"]
  OBVIOUS
<1> HIDE DEF v
<1>3. f \in Samples /\ f.level = v
  BY <1>1, PutLevel
<1> HIDE DEF f
<1>4. g \in Samples /\ g.level = v /\ g.stats = "old"
  BY <1>3, PutStats, Zenon
<1> HIDE DEF g
<1>5. LevelIsOld(g)
  BY <1>4 DEF LevelIsOld, v
<1> QED BY <1>2, <1>4, <1>5, Zenon DEF v

LEMMA SnrSample ==
  ASSUME NEW d \in Samples, LevelIsOld(d), NEW x \in Signals, NEW ok \in BOOLEAN
  PROVE  LET e == [d EXCEPT !.quality = Snr(x, ok)]
         IN e \in Samples /\ OfOneInterface(e)
<1> DEFINE v == Snr(x, ok)
           e == [d EXCEPT !.quality = v]
<1>1. v \in Int
  BY MeasuresAre
<1> HIDE DEF v
<1>2. e \in Samples /\ e.level = d.level /\ e.quality = v /\ e.stats = d.stats
  BY <1>1, PutQuality
<1> HIDE DEF e
<1>3. LevelIsOld(e)
  BY <1>2, Zenon DEF LevelIsOld
<1>4. e.quality = Snr(x, ok)
  BY <1>2 DEF v
<1>5. e.stats # "new"
  BY <1>3 DEF LevelIsOld
<1> QED BY <1>2, <1>3, <1>4, <1>5 DEF OfOneInterface, e, v

-----------------------------------------------------------------------------
(* The invariant in parts *)

Measuring ==
  \A t \in Monitors :
    /\ Has(t, "set") => OfOneInterface(sample[t])
    /\ Has(t, "snr") => LevelIsOld(sample[t])
Stored == signalData = StoredAs(Len(storedData)) /\ \A i \in 1..Len(storedData) : OfOneInterface(storedData[i])
CopiedFrom(i, j, k) ==
  /\ i <= j /\ j <= k
  /\ Has("describe", "level") \/ Has("describe", "quality") \/ Has("describe", "store")
       => copy.lock = StoredAs(i).lock
  /\ Has("describe", "quality") \/ Has("describe", "store") => copy.level = StoredAs(j).level
  /\ Has("describe", "store") => copy.quality = StoredAs(k).quality
Copied == \E i, j, k \in 0..Len(storedData) : CopiedFrom(i, j, k)
ToldAsMeasured == honest /\ (Has("describe", "transformed") => InOrder(transformed))
Plain == copy.stats = "none"

\* The invariant in parts, now
LEMMA SignalParts ==
  SignalInv <=> SignalMonitorTypeOK /\ Measuring /\ Stored /\ Copied /\ ToldAsMeasured /\ Plain
BY Zenon DEF SignalInv, SignalIsMeasured, Measuring, Stored, Copied, CopiedFrom, ToldAsMeasured, Plain

\* and after a step.
LEMMA SignalPartsNext ==
  SignalInv' <=> SignalMonitorTypeOK' /\ Measuring' /\ Stored' /\ Copied' /\ ToldAsMeasured' /\ Plain'
BY SignalParts, PTL

\* What was stored is a sample.
LEMMA StoredIs ==
  ASSUME SignalMonitorTypeOK
  PROVE  /\ Len(storedData) \in Nat
         /\ \A n \in 0..Len(storedData) : StoredAs(n) \in Samples
BY NoSignalOK DEF SignalMonitorTypeOK, StoredAs

\* What can be measured depends on the scale alone.
LEMMA MeasuredKeeps ==
  ASSUME UNCHANGED scale
  PROVE  /\ \A e : OfOneInterface(e)' <=> OfOneInterface(e)
         /\ \A e : LevelIsOld(e)' <=> LevelIsOld(e)
<1> SUFFICES ASSUME NEW e
             PROVE  /\ OfOneInterface(e)' <=> OfOneInterface(e)
                    /\ LevelIsOld(e)' <=> LevelIsOld(e)
  OBVIOUS
<1>1. \A x \in Signals : New(x)' = New(x)
  BY DEF New, Value
<1>2. (\E x \in Signals : e.level = New(x).level /\ e.quality = New(x).quality)'
      <=> \E x \in Signals : e.level = New(x).level /\ e.quality = New(x).quality
  BY <1>1
<1>3. LevelIsOld(e)' <=> LevelIsOld(e)
  BY DEF LevelIsOld, Strength
<1>4. (\E x \in Signals, ok \in BOOLEAN : e.quality = Snr(x, ok))'
      <=> \E x \in Signals, ok \in BOOLEAN : e.quality = Snr(x, ok)
  BY DEF Snr
<1> QED BY <1>2, <1>3, <1>4, Zenon DEF OfOneInterface

\* What is stored later leaves what was stored before, and what is in order.
LEMMA StoreKeeps ==
  ASSUME SignalMonitorTypeOK, NEW d \in Samples, SetMonitorData(d), CanStore
  PROVE  /\ signalData' \in Samples /\ storedData' \in Seq(Samples) /\ Len(storedData') <= MaxStored
         /\ 0..Len(storedData) \subseteq 0..Len(storedData')
         /\ \A n \in 0..Len(storedData) : StoredAs(n)' = StoredAs(n)
         /\ Stored /\ OfOneInterface(d) /\ scale' = scale => Stored'
<1>1. /\ storedData \in Seq(Samples) /\ Len(storedData) \in Nat /\ MaxStored \in Nat
      /\ Len(storedData) <= MaxStored
  BY SignalMonitorAssumption DEF SignalMonitorTypeOK
<1>2. storedData' = Append(storedData, d) /\ signalData' = d
  BY DEF SetMonitorData
<1>3. /\ storedData' \in Seq(Samples) /\ Len(storedData') = Len(storedData) + 1
      /\ \A n \in 1..Len(storedData) : storedData'[n] = storedData[n]
      /\ storedData'[Len(storedData) + 1] = d
  BY <1>1, <1>2
<1>4. Len(storedData') <= MaxStored
  BY <1>1, <1>3 DEF CanStore
<1>5. \A n \in 0..Len(storedData) : StoredAs(n)' = StoredAs(n)
  BY <1>1, <1>3 DEF StoredAs, NoSignal
<1>6. ASSUME Stored, OfOneInterface(d), scale' = scale
      PROVE  Stored'
  <2>1. \A e : OfOneInterface(e)' <=> OfOneInterface(e)
    BY <1>6, MeasuredKeeps
  <2>2. StoredAs(Len(storedData))' = d
    BY <1>1, <1>3 DEF StoredAs
  <2>3. \A i \in 1..Len(storedData') : OfOneInterface(storedData'[i])
    BY <1>1, <1>3, <1>6 DEF Stored
  <2> QED BY <1>2, <2>1, <2>2, <2>3 DEF Stored
<1> QED BY <1>1, <1>2, <1>3, <1>4, <1>5, <1>6

\* What a step leaves of what was stored.
Kept ==
  /\ UNCHANGED scale
  /\ 0..Len(storedData) \subseteq 0..Len(storedData')
  /\ \A n \in 0..Len(storedData) : StoredAs(n)' = StoredAs(n)

\* A step that leaves the stored samples alone,
LEMMA KeepsData == UNCHANGED <<scale, signalData, storedData>> => Kept /\ (Stored => Stored')
<1> SUFFICES ASSUME UNCHANGED <<scale, signalData, storedData>> PROVE Kept /\ (Stored => Stored')
  OBVIOUS
<1>1. \A n : StoredAs(n)' = StoredAs(n)
  BY DEF StoredAs, NoSignal
<1>2. \A e : OfOneInterface(e)' <=> OfOneInterface(e)
  BY MeasuredKeeps
<1>3. Kept
  BY <1>1, Zenon DEF Kept
<1> QED BY <1>1, <1>2, <1>3 DEF Stored

\* the threads that measure,
LEMMA MeasuringKeeps ==
  ASSUME Measuring, UNCHANGED <<scale, doing, sample>>
  PROVE  Measuring'
BY MeasuredKeeps DEF Measuring, Has

\* One thread has another sample.
LEMMA MeasuringMoves ==
  ASSUME SignalMonitorTypeOK, Measuring, UNCHANGED scale, NEW t \in Monitors, NEW d, NEW where,
         MovesTo(t, where), sample' = [sample EXCEPT ![t] = d], where = "set" => OfOneInterface(d),
         where = "snr" => LevelIsOld(d)
  PROVE  Measuring'
<1>1. /\ \A e : OfOneInterface(e)' <=> OfOneInterface(e)
      /\ \A e : LevelIsOld(e)' <=> LevelIsOld(e)
  BY MeasuredKeeps
<1>2. ASSUME NEW u \in Monitors
      PROVE  /\ Has(u, "set")' => OfOneInterface(sample[u]')
             /\ Has(u, "snr")' => LevelIsOld(sample[u]')
  <2>1. CASE u = t
    BY <2>1 DEF SignalMonitorTypeOK, MovesTo, Has
  <2>2. CASE u # t
    BY <2>2 DEF SignalMonitorTypeOK, MovesTo, Has, Measuring
  <2> QED BY <2>1, <2>2
<1> QED BY <1>1, <1>2 DEF Measuring

\* the copy of the description,
LEMMA CopiedKeeps ==
  ASSUME Kept, Copied, UNCHANGED copy,
         \A w \in {"level", "quality", "store"} : Has("describe", w)' => Has("describe", w)
  PROVE  Copied'
<1>1. PICK i, j, k \in 0..Len(storedData) : CopiedFrom(i, j, k)
  BY Zenon DEF Copied
<1>2. i \in 0..Len(storedData') /\ j \in 0..Len(storedData') /\ k \in 0..Len(storedData')
  BY DEF Kept
<1>3. StoredAs(i)' = StoredAs(i) /\ StoredAs(j)' = StoredAs(j) /\ StoredAs(k)' = StoredAs(k)
  BY DEF Kept
<1>4. CopiedFrom(i, j, k)'
  BY <1>1, <1>3, Zenon DEF CopiedFrom
<1> QED BY <1>2, <1>4, Zenon DEF Copied

\* the order in which it was read,
LEMMA InOrderKeeps ==
  ASSUME Kept, UNCHANGED transformed, InOrder(transformed)
  PROVE  InOrder(transformed)'
<1> DEFINE From(d, i, j, k) ==
      /\ i <= j /\ j <= k
      /\ d.lock = StoredAs(i).lock
      /\ \/ d.level = StoredAs(j).level /\ d.quality = StoredAs(k).quality
         \/ d.level = 240 /\ d.quality = 15
<1>1. PICK i, j, k \in 0..Len(storedData) : From(transformed, i, j, k)
  BY Zenon DEF InOrder
<1>2. i \in 0..Len(storedData') /\ j \in 0..Len(storedData') /\ k \in 0..Len(storedData')
  BY DEF Kept
<1>3. StoredAs(i)' = StoredAs(i) /\ StoredAs(j)' = StoredAs(j) /\ StoredAs(k)' = StoredAs(k)
  BY DEF Kept
<1>4. From(transformed, i, j, k)'
  BY <1>1, <1>3, Zenon
<1> QED BY <1>2, <1>4, Zenon DEF InOrder

\* and what was told of it.
LEMMA DescribedKeeps ==
  ASSUME Kept, ToldAsMeasured, UNCHANGED <<transformed, honest>>,
         Has("describe", "transformed")' => Has("describe", "transformed")
  PROVE  ToldAsMeasured'
<1>1. Has("describe", "transformed")' => InOrder(transformed)'
  BY InOrderKeeps DEF ToldAsMeasured
<1> QED BY <1>1 DEF ToldAsMeasured

\* A thread that measures, and is neither reading the data nor about to describe the
\* transformed ones: all the same about what it has read.
LEMMA ThreadMoves ==
  ASSUME SignalInv, Kept, NEW t \in Monitors, NEW where \in {"idle", "new", "old", "snr", "set", "data"},
         MovesTo(t, where), UNCHANGED <<copy, transformed, honest>>
  PROVE  Copied' /\ ToldAsMeasured' /\ Plain'
<1>1. SignalMonitorTypeOK
  BY SignalParts
<1>2. \A w \in {"level", "quality", "store", "transformed"} : Has("describe", w)' => Has("describe", w)
  BY <1>1 DEF Has, MovesTo, SignalMonitorTypeOK, Monitors
<1> QED BY <1>2, CopiedKeeps, DescribedKeeps, SignalParts DEF Plain

\* The steps of the two threads that measure: the new ioctls,
LEMMA NewStatsKeeps ==
  ASSUME SignalInv, NEW t \in Monitors, NEW x \in Signals, NEW missing \in BOOLEAN, NewStats(t, x, missing)
  PROVE  SignalInv'
<1> DEFINE d == [sample[t] EXCEPT !.level = New(x).level, !.stats = "new",
                                  !.quality = IF missing THEN 0 ELSE New(x).quality]
           where == IF oldApiCallStats' THEN "old" ELSE "set"
<1>1. SignalMonitorTypeOK /\ Measuring /\ Stored
  BY SignalParts
<1>2. d \in Samples /\ (~missing => OfOneInterface(d))
  BY <1>1, NewSample DEF SignalMonitorTypeOK
<1>3. /\ sample' = [sample EXCEPT ![t] = d] /\ MovesTo(t, where)
      /\ UNCHANGED <<signalData, storedData, scale, opened, transforms, copy, transformed, honest>>
      /\ oldApiCallStats' = (oldApiCallStats \/ scale = "none" \/ missing)
  BY DEF NewStats, keepsData, keepsSetup, keepsDescribing
<1>4. oldApiCallStats' \in BOOLEAN /\ (where = "set" => ~missing) /\ where \in {"old", "set"}
  BY <1>1, <1>3 DEF SignalMonitorTypeOK
<1> HIDE DEF d, where
<1>5. Kept /\ Stored'
  BY <1>1, <1>3, KeepsData
<1>6. SignalMonitorTypeOK'
  BY <1>1, <1>2, <1>3, <1>4 DEF SignalMonitorTypeOK, MovesTo
<1>7. Measuring'
  BY <1>1, <1>2, <1>3, <1>4, MeasuringMoves
<1>8. Copied' /\ ToldAsMeasured' /\ Plain'
  BY <1>3, <1>4, <1>5, ThreadMoves
<1> QED BY <1>5, <1>6, <1>7, <1>8, SignalPartsNext

\* the first of the old ones,
LEMMA ReadSignalStrengthKeeps ==
  ASSUME SignalInv, NEW t \in Monitors, NEW x \in Signals, NEW ok \in BOOLEAN, ReadSignalStrength(t, x, ok)
  PROVE  SignalInv'
<1> DEFINE d == [sample[t] EXCEPT !.level = Strength(x, ok), !.stats = "old"]
<1>1. SignalMonitorTypeOK /\ Measuring /\ Stored
  BY SignalParts
<1>2. d \in Samples /\ LevelIsOld(d)
  BY <1>1, StrengthSample DEF SignalMonitorTypeOK
<1>3. /\ sample' = [sample EXCEPT ![t] = d] /\ MovesTo(t, "snr")
      /\ UNCHANGED <<oldApiCallStats, signalData, storedData, scale, opened, transforms, copy, transformed, honest>>
  BY DEF ReadSignalStrength, keepsData, keepsSetup, keepsDescribing
<1> HIDE DEF d
<1>4. Kept /\ Stored'
  BY <1>1, <1>3, KeepsData
<1>5. SignalMonitorTypeOK'
  BY <1>1, <1>2, <1>3 DEF SignalMonitorTypeOK, MovesTo
<1>6. Measuring'
  BY <1>1, <1>2, <1>3, MeasuringMoves
<1>7. Copied' /\ ToldAsMeasured' /\ Plain'
  BY <1>3, <1>4, ThreadMoves
<1> QED BY <1>4, <1>5, <1>6, <1>7, SignalPartsNext

\* the second,
LEMMA ReadSnrKeeps ==
  ASSUME SignalInv, NEW t \in Monitors, NEW x \in Signals, NEW ok \in BOOLEAN, ReadSnr(t, x, ok)
  PROVE  SignalInv'
<1> DEFINE d == [sample[t] EXCEPT !.quality = Snr(x, ok)]
<1>1. SignalMonitorTypeOK /\ Measuring /\ Stored
  BY SignalParts
<1>2. d \in Samples /\ OfOneInterface(d)
  <2>1. LevelIsOld(sample[t]) /\ sample[t] \in Samples
    BY <1>1 DEF ReadSnr, Measuring, SignalMonitorTypeOK
  <2> QED BY <2>1, SnrSample
<1>3. /\ sample' = [sample EXCEPT ![t] = d] /\ MovesTo(t, "set")
      /\ UNCHANGED <<oldApiCallStats, signalData, storedData, scale, opened, transforms, copy, transformed, honest>>
  BY DEF ReadSnr, keepsData, keepsSetup, keepsDescribing
<1> HIDE DEF d
<1>4. Kept /\ Stored'
  BY <1>1, <1>3, KeepsData
<1>5. SignalMonitorTypeOK'
  BY <1>1, <1>2, <1>3 DEF SignalMonitorTypeOK, MovesTo
<1>6. Measuring'
  BY <1>1, <1>2, <1>3, MeasuringMoves
<1>7. Copied' /\ ToldAsMeasured' /\ Plain'
  BY <1>3, <1>4, ThreadMoves
<1> QED BY <1>4, <1>5, <1>6, <1>7, SignalPartsNext

\* the status before them,
LEMMA ReadStatusKeeps ==
  ASSUME SignalInv, NEW t \in Monitors, NEW x \in Signals, NEW ok \in BOOLEAN, ReadStatus(t, x, ok)
  PROVE  SignalInv'
<1> DEFINE d == IF ok /\ opened THEN [NoSignal EXCEPT !.lock = x.lock] ELSE sample[t]
           where == IF ok /\ opened THEN IF oldApiCallStats THEN "old" ELSE "new" ELSE "data"
<1>1. SignalMonitorTypeOK /\ Measuring /\ Stored
  BY SignalParts
<1>2. d \in Samples
  <2>1. x.lock \in BOOLEAN
    BY SignalMonitorAssumption DEF Received
  <2>2. [NoSignal EXCEPT !.lock = x.lock] \in Samples
    BY <2>1, NoSignalOK, PutLock, Zenon
  <2>3. sample[t] \in Samples
    BY <1>1 DEF SignalMonitorTypeOK
  <2> QED BY <2>2, <2>3
<1>3. /\ sample' = [sample EXCEPT ![t] = d] /\ MovesTo(t, where)
      /\ UNCHANGED <<oldApiCallStats, signalData, storedData, scale, opened, transforms, copy, transformed, honest>>
  BY <1>1 DEF ReadStatus, keepsData, keepsSetup, keepsDescribing, SignalMonitorTypeOK
<1>4. where \in {"old", "new", "data"}
  OBVIOUS
<1> HIDE DEF d, where
<1>5. Kept /\ Stored'
  BY <1>1, <1>3, KeepsData
<1>6. SignalMonitorTypeOK'
  BY <1>1, <1>2, <1>3, <1>4 DEF SignalMonitorTypeOK, MovesTo
<1>7. Measuring'
  BY <1>1, <1>2, <1>3, <1>4, MeasuringMoves
<1>8. Copied' /\ ToldAsMeasured' /\ Plain'
  BY <1>3, <1>4, <1>5, ThreadMoves
<1> QED BY <1>5, <1>6, <1>7, <1>8, SignalPartsNext

\* and the sample that is stored.
LEMMA StoreSampleKeeps ==
  ASSUME SignalInv, NEW t \in Monitors, StoreSample(t)
  PROVE  SignalInv'
<1> DEFINE where == IF t = "describe" THEN "data" ELSE "idle"
<1>1. SignalMonitorTypeOK /\ Measuring /\ Stored
  BY SignalParts
<1>2. /\ sample' = [sample EXCEPT ![t] = NoSignal] /\ MovesTo(t, where)
      /\ SetMonitorData(sample[t]) /\ CanStore /\ Has(t, "set")
      /\ UNCHANGED <<oldApiCallStats, scale, opened, transforms, copy, transformed, honest>>
  BY DEF StoreSample, keepsSetup, keepsDescribing
<1>3. where \in {"data", "idle"}
  OBVIOUS
<1> HIDE DEF where
<1>4. sample[t] \in Samples /\ OfOneInterface(sample[t])
  BY <1>1, <1>2 DEF SignalMonitorTypeOK, Measuring
<1>5. /\ Kept /\ Stored'
      /\ signalData' \in Samples /\ storedData' \in Seq(Samples) /\ Len(storedData') <= MaxStored
  BY <1>1, <1>2, <1>4, StoreKeeps DEF Kept
<1>6. SignalMonitorTypeOK'
  BY <1>1, <1>2, <1>3, <1>5, NoSignalOK DEF SignalMonitorTypeOK, MovesTo
<1>7. Measuring'
  BY <1>1, <1>2, <1>3, MeasuringMoves
<1>8. Copied' /\ ToldAsMeasured' /\ Plain'
  BY <1>2, <1>3, <1>5, ThreadMoves
<1> QED BY <1>5, <1>6, <1>7, <1>8, SignalPartsNext

\* The request thread moves no other, and stores what is no measurement.
LEMMA RequestKeeps ==
  ASSUME SignalInv, RequestThread
  PROVE  SignalInv'
<1>1. SignalMonitorTypeOK /\ Measuring /\ Stored /\ Copied /\ ToldAsMeasured /\ Plain
  BY SignalParts
<1>2. /\ UNCHANGED <<scale, doing, sample, oldApiCallStats, copy, honest>>
      /\ transformed' \in {transformed, NoSignal} /\ opened' \in BOOLEAN /\ transforms' \in BOOLEAN
      /\ \/ UNCHANGED <<signalData, storedData>>
         \/ CanStore /\ \E d \in {NoSignal, Locked} : SetMonitorData(d)
  BY <1>1 DEF RequestThread, ParseFrequency, CloseFE, SetupAndTune, TeardownFrontend, keepsThreads,
              keepsData, SignalMonitorTypeOK
<1>3. /\ Kept /\ Stored'
      /\ signalData' \in Samples /\ storedData' \in Seq(Samples) /\ Len(storedData') <= MaxStored
  <2>1. CASE UNCHANGED <<signalData, storedData>>
    BY <1>1, <1>2, <2>1, KeepsData DEF SignalMonitorTypeOK
  <2>2. ASSUME CanStore, NEW d \in {NoSignal, Locked}, SetMonitorData(d)
        PROVE  /\ Kept /\ Stored'
               /\ signalData' \in Samples /\ storedData' \in Seq(Samples) /\ Len(storedData') <= MaxStored
    <3>1. d \in Samples /\ OfOneInterface(d)
      BY NoSignalOK, LockedOK
    <3>2. scale' = scale
      BY <1>2
    <3> QED BY <1>1, <2>2, <3>1, <3>2, StoreKeeps DEF Kept
  <2> QED BY <1>2, <2>1, <2>2
<1>4. SignalMonitorTypeOK'
  BY <1>1, <1>2, <1>3, NoSignalOK DEF SignalMonitorTypeOK
<1>5. Measuring' /\ Copied' /\ Plain'
  BY <1>1, <1>2, <1>3, MeasuringKeeps, CopiedKeeps DEF Has, Plain
<1>6. ToldAsMeasured'
  <2>1. CASE UNCHANGED transformed
    BY <1>1, <1>2, <1>3, <2>1, DescribedKeeps DEF Has
  <2>2. CASE transformed' = NoSignal
    <3>1. InOrder(transformed)'
      <4>1. 0 \in 0..Len(storedData')
        BY <1>3
      <4>2. StoredAs(0)' = transformed'
        BY <2>2 DEF StoredAs, NoSignal
      <4>3. 0 <= 0
        OBVIOUS
      <4> QED BY <4>1, <4>2, <4>3, Zenon DEF InOrder
    <3> QED BY <1>1, <1>2, <3>1 DEF ToldAsMeasured
  <2> QED BY <1>2, <2>1, <2>2
<1> QED BY <1>3, <1>4, <1>5, <1>6, SignalPartsNext

\* The description: the data are read value by value, and one of the two is described.
LEMMA ReadDataKeeps ==
  ASSUME SignalInv, ReadData
  PROVE  SignalInv'
<1>1. SignalMonitorTypeOK /\ Measuring /\ Stored /\ Copied /\ ToldAsMeasured /\ Plain
  BY SignalParts
<1>2. UNCHANGED <<scale, opened, transforms, sample, oldApiCallStats, honest, signalData, storedData>>
  BY DEF ReadData, keepsData, keepsSetup
<1>3. Kept /\ Stored'
  BY <1>1, <1>2, KeepsData
<1>4. PICK i, j, k \in 0..Len(storedData) : CopiedFrom(i, j, k)
  BY <1>1, Zenon DEF Copied
<1>20. PICK n \in Nat : n = Len(storedData)
  BY <1>1, StoredIs
<1>5. /\ n \in 0..Len(storedData') /\ i \in 0..Len(storedData') /\ j \in 0..Len(storedData')
      /\ k \in 0..Len(storedData') /\ i <= n /\ j <= n /\ i <= j /\ j <= k /\ k <= n /\ n <= n
  BY <1>1, <1>2, <1>4, <1>20, StoredIs DEF CopiedFrom
<1>6. /\ StoredAs(i)' = StoredAs(i) /\ StoredAs(j)' = StoredAs(j) /\ StoredAs(k)' = StoredAs(k)
      /\ StoredAs(n)' = signalData /\ signalData \in Samples
  BY <1>1, <1>2, <1>3, <1>20, StoredIs DEF Stored, Kept
<1>7. "describe" \in Monitors /\ Measuring' 
  <2>1. \A t \in Monitors : (Has(t, "set")' => Has(t, "set")) /\ (Has(t, "snr")' => Has(t, "snr"))
    BY <1>1 DEF ReadData, CopyLock, CopyLevel, CopyQuality, TransformDeviceData, MovesTo, Has,
                SignalMonitorTypeOK, Monitors
  <2>2. /\ \A e : OfOneInterface(e)' <=> OfOneInterface(e)
        /\ \A e : LevelIsOld(e)' <=> LevelIsOld(e)
    BY <1>2, MeasuredKeeps
  <2> QED BY <1>1, <1>2, <2>1, <2>2 DEF Measuring, Monitors
<1> DEFINE At(w) == doing' = [doing EXCEPT !["describe"] = w]
<1>8. ASSUME NEW w \in {"level", "quality", "store", "transformed", "plain"}, At(w), NEW v \in {"level", "quality", "store", "transformed"}
      PROVE  Has("describe", v)' <=> v = w
  BY <1>1, <1>7, <1>8 DEF Has, SignalMonitorTypeOK
<1>9. CASE CopyLock
  <2>1. At("level") /\ copy' = [copy EXCEPT !.lock = signalData.lock] /\ UNCHANGED transformed
    BY <1>9 DEF CopyLock, MovesTo
  <2>2. signalData.lock \in BOOLEAN /\ copy \in Samples
    BY <1>1 DEF SignalMonitorTypeOK, Samples
  <2>3. copy' \in Samples /\ copy'.lock = signalData.lock /\ copy'.stats = copy.stats
    BY <2>1, <2>2, PutLock
  <2>4. CopiedFrom(n, n, n)'
    BY <1>5, <1>6, <1>8, <2>1, <2>3 DEF CopiedFrom
  <2>5. Copied'
    BY <1>5, <2>4, Zenon DEF Copied
  <2>6. ToldAsMeasured' /\ Plain'
    BY <1>1, <1>2, <1>8, <2>1, <2>3 DEF ToldAsMeasured, Plain
  <2>7. SignalMonitorTypeOK'
    BY <1>1, <1>2, <2>1, <2>3 DEF SignalMonitorTypeOK
  <2> QED BY <1>3, <1>7, <2>5, <2>6, <2>7, SignalPartsNext
<1>10. CASE CopyLevel
  <2>1. At("quality") /\ copy' = [copy EXCEPT !.level = signalData.level] /\ UNCHANGED transformed /\ Has("describe", "level")
    BY <1>10 DEF CopyLevel, MovesTo
  <2>2. signalData.level \in Int /\ copy \in Samples
    BY <1>1 DEF SignalMonitorTypeOK, Samples
  <2>3. copy' \in Samples /\ copy'.level = signalData.level /\ copy'.stats = copy.stats /\ copy'.lock = copy.lock
    BY <2>1, <2>2, PutLevel
  <2>4. CopiedFrom(i, n, n)'
    BY <1>4, <1>5, <1>6, <1>8, <2>1, <2>3 DEF CopiedFrom
  <2>5. Copied'
    BY <1>5, <2>4, Zenon DEF Copied
  <2>6. ToldAsMeasured' /\ Plain'
    BY <1>1, <1>2, <1>8, <2>1, <2>3 DEF ToldAsMeasured, Plain
  <2>7. SignalMonitorTypeOK'
    BY <1>1, <1>2, <2>1, <2>3 DEF SignalMonitorTypeOK
  <2> QED BY <1>3, <1>7, <2>5, <2>6, <2>7, SignalPartsNext
<1>11. CASE CopyQuality
  <2>1. At("store") /\ copy' = [copy EXCEPT !.quality = signalData.quality] /\ UNCHANGED transformed /\ Has("describe", "quality")
    BY <1>11 DEF CopyQuality, MovesTo
  <2>2. signalData.quality \in Int /\ copy \in Samples
    BY <1>1 DEF SignalMonitorTypeOK, Samples
  <2>3. copy' \in Samples /\ copy'.quality = signalData.quality /\ copy'.stats = copy.stats
        /\ copy'.lock = copy.lock /\ copy'.level = copy.level
    BY <2>1, <2>2, PutQuality
  <2>4. CopiedFrom(i, j, n)'
    BY <1>4, <1>5, <1>6, <1>8, <2>1, <2>3 DEF CopiedFrom
  <2>5. Copied'
    BY <1>5, <2>4, Zenon DEF Copied
  <2>6. ToldAsMeasured' /\ Plain'
    BY <1>1, <1>2, <1>8, <2>1, <2>3 DEF ToldAsMeasured, Plain
  <2>7. SignalMonitorTypeOK'
    BY <1>1, <1>2, <2>1, <2>3 DEF SignalMonitorTypeOK
  <2> QED BY <1>3, <1>7, <2>5, <2>6, <2>7, SignalPartsNext
<1>12. CASE TransformDeviceData
  <2> DEFINE w == IF transforms THEN "transformed" ELSE "plain"
  <2>1. /\ At(w) /\ Has("describe", "store") /\ copy' = NoSignal
        /\ transformed' = IF transforms THEN Simulated(copy) ELSE NoSignal
    BY <1>12 DEF TransformDeviceData, MovesTo
  <2>2. copy \in Samples /\ Simulated(copy).lock = copy.lock /\ Simulated(copy) \in Samples
        /\ \/ Simulated(copy).level = copy.level /\ Simulated(copy).quality = copy.quality
           \/ Simulated(copy).level = 240 /\ Simulated(copy).quality = 15
    BY <1>1, SimulatedIs DEF SignalMonitorTypeOK
  <2>3. copy.lock = StoredAs(i).lock /\ copy.level = StoredAs(j).level /\ copy.quality = StoredAs(k).quality
    BY <1>4, <2>1 DEF CopiedFrom
  <2>4. Has("describe", "transformed")' => InOrder(transformed)'
    <3>1. ASSUME Has("describe", "transformed")'
          PROVE  transformed' = Simulated(copy)
      BY <1>8, <2>1, <3>1
    <3>2. ASSUME transformed' = Simulated(copy)
          PROVE  InOrder(transformed)'
      <4>1. /\ transformed'.lock = StoredAs(i)'.lock
            /\ \/ transformed'.level = StoredAs(j)'.level /\ transformed'.quality = StoredAs(k)'.quality
               \/ transformed'.level = 240 /\ transformed'.quality = 15
        BY <1>6, <2>2, <2>3, <3>2, Zenon
      <4>2. /\ i \in 0..Len(storedData') /\ j \in 0..Len(storedData') /\ k \in 0..Len(storedData')
            /\ i <= j /\ j <= k
        BY <1>5
      <4> HIDE DEF w, At
      <4> QED BY <4>1, <4>2 DEF InOrder
    <3> QED BY <3>1, <3>2
  <2>5. CopiedFrom(n, n, n)'
    <3>1. w \in {"transformed", "plain"}
      OBVIOUS
    <3> HIDE DEF w
    <3>2. ~Has("describe", "level")' /\ ~Has("describe", "quality")' /\ ~Has("describe", "store")'
      BY <1>8, <2>1, <3>1
    <3> QED BY <1>5, <3>2 DEF CopiedFrom
  <2>6. Copied'
    BY <1>5, <2>5, Zenon DEF Copied
  <2>7. ToldAsMeasured' /\ Plain'
    BY <1>1, <1>2, <2>1, <2>4, NoSignalOK DEF ToldAsMeasured, Plain
  <2>8. SignalMonitorTypeOK'
    BY <1>1, <1>2, <2>1, <2>2, NoSignalOK DEF SignalMonitorTypeOK
  <2> QED BY <1>3, <1>7, <2>6, <2>7, <2>8, SignalPartsNext
<1> QED BY <1>9, <1>10, <1>11, <1>12 DEF ReadData

\* All steps of the description.
LEMMA DescribeKeeps ==
  ASSUME SignalInv, Describe
  PROVE  SignalInv'
<1>1. SignalMonitorTypeOK /\ Measuring /\ Stored /\ Copied /\ ToldAsMeasured /\ Plain
  BY SignalParts
<1>2. /\ UNCHANGED <<scale, opened, transforms, sample, oldApiCallStats, copy, signalData, storedData>>
      /\ MovesTo("describe", "idle") /\ transformed' = NoSignal
  BY DEF Describe, keepsData, keepsSetup
<1>3. Kept /\ Stored'
  BY <1>1, <1>2, KeepsData
<1>4. StoredAtOnce(signalData)
  BY <1>1, StoredIs DEF Stored, StoredAtOnce, StoredAs
<1>5. honest'
  BY <1>1, <1>4 DEF Describe, ToldAsMeasured
<1>6. \A w \in {"level", "quality", "store", "transformed"} : ~Has("describe", w)'
  BY <1>1, <1>2 DEF SignalMonitorTypeOK, Monitors, MovesTo, Has
<1>7. SignalMonitorTypeOK'
  BY <1>1, <1>2, <1>5, NoSignalOK DEF SignalMonitorTypeOK, MovesTo
<1>8. Measuring'
  <2>1. \A t \in Monitors : (Has(t, "set")' => Has(t, "set")) /\ (Has(t, "snr")' => Has(t, "snr"))
    BY <1>1, <1>2 DEF MovesTo, Has, SignalMonitorTypeOK, Monitors
  <2>2. /\ \A e : OfOneInterface(e)' <=> OfOneInterface(e)
        /\ \A e : LevelIsOld(e)' <=> LevelIsOld(e)
    BY <1>2, MeasuredKeeps
  <2> QED BY <1>1, <1>2, <2>1, <2>2 DEF Measuring
<1>9. Copied' /\ ToldAsMeasured' /\ Plain'
  BY <1>1, <1>2, <1>3, <1>5, <1>6, CopiedKeeps DEF ToldAsMeasured, Plain
<1> QED BY <1>3, <1>7, <1>8, <1>9, SignalPartsNext

\* The invariant holds at first,
LEMMA SignalInitInv == SignalMonitorInit => SignalInv
<1> SUFFICES ASSUME SignalMonitorInit PROVE SignalInv
  OBVIOUS
<1>1. /\ storedData = <<>> /\ Len(storedData) = 0 /\ 0 \in 0..Len(storedData)
      /\ doing = [t \in Monitors |-> "idle"] /\ copy = NoSignal /\ honest = TRUE
      /\ signalData = NoSignal /\ "describe" \in Monitors
  BY DEF SignalMonitorInit, Monitors
<1>2. SignalMonitorTypeOK
  <2>1. storedData \in Seq(Samples) /\ Len(storedData) <= MaxStored
    BY <1>1, SignalMonitorAssumption
  <2> QED BY <2>1, NoSignalOK DEF SignalMonitorInit, SignalMonitorTypeOK
<1>3. \A t \in Monitors, w \in {"set", "snr", "level", "quality", "store", "transformed"} : ~Has(t, w)
  BY <1>1 DEF Has
<1>4. Stored
  BY <1>1 DEF Stored, StoredAs
<1>5. CopiedFrom(0, 0, 0)
  BY <1>1, <1>3 DEF CopiedFrom
<1>6. Copied
  BY <1>1, <1>5, Zenon DEF Copied
<1>7. Measuring /\ ToldAsMeasured /\ Plain
  BY <1>1, <1>3, NoSignalOK DEF Measuring, ToldAsMeasured, Plain
<1> QED BY <1>2, <1>4, <1>6, <1>7, SignalParts

\* and every step keeps it.
LEMMA SignalNextInv == SignalInv /\ [SignalMonitorNext]_monitorVars => SignalInv'
<1> SUFFICES ASSUME SignalInv, [SignalMonitorNext]_monitorVars PROVE SignalInv'
  OBVIOUS
<1>1. ASSUME NEW t \in Monitors, MonitorSignal(t)
      PROVE  SignalInv'
  <2>1. \A b \in BOOLEAN : (~b) \in BOOLEAN
    OBVIOUS
  <2> QED BY <1>1, <2>1, StoreSampleKeeps, ReadStatusKeeps, NewStatsKeeps,
                     ReadSignalStrengthKeeps, ReadSnrKeeps, Zenon DEF MonitorSignal
<1>2. CASE UNCHANGED monitorVars
  <2>1. UNCHANGED <<scale, opened, oldApiCallStats, doing, sample, signalData, transforms, copy,
                    transformed, storedData, honest>>
    BY <1>2 DEF monitorVars
  <2>2. SignalMonitorTypeOK /\ Measuring /\ Stored /\ Copied /\ ToldAsMeasured /\ Plain
    BY SignalParts
  <2>3. Kept /\ Stored'
    BY <2>1, <2>2, KeepsData
  <2>4. SignalMonitorTypeOK' /\ Plain'
    BY <2>1, <2>2 DEF SignalMonitorTypeOK, Plain
  <2>5. \A t, w : Has(t, w)' => Has(t, w)
    BY <2>1 DEF Has
  <2>6. Measuring'
    BY <2>1, <2>2, MeasuringKeeps
  <2>7. Copied'
    BY <2>1, <2>2, <2>3, <2>5, CopiedKeeps
  <2>8. ToldAsMeasured'
    BY <2>1, <2>2, <2>3, <2>5, DescribedKeeps
  <2> QED BY <2>3, <2>4, <2>6, <2>7, <2>8, SignalPartsNext
<1> QED BY <1>1, <1>2, ReadDataKeeps, DescribeKeeps, RequestKeeps, Zenon DEF SignalMonitorNext

\* What a client is told of the signal of a DVB frontend is what was stored, at once or in that
\* order, and what was stored is never half of the new statistics and half of the old calls: for
\* all signals, changing from call to call, whichever calls fail, with the two threads that
\* measure and the one that closes and tunes at any pace.
THEOREM SignalAlwaysMeasured == SignalMonitorSpec => []SignalIsMeasured
<1>1. SignalInv => SignalIsMeasured
  BY DEF SignalInv
<1> QED BY <1>1, SignalInitInv, SignalNextInv, PTL DEF SignalMonitorSpec

-----------------------------------------------------------------------------
(* TsInput: packets that filterData() sees *)

\* A number is what it divides to, and the rest.
LEMMA Divided ==
  ASSUME NEW a \in Nat, NEW M \in Nat \ {0}
  PROVE  a = (M * (a \div M)) + (a % M) /\ a % M \in 0..M-1 /\ a \div M \in Nat
OBVIOUS

\* and back: what a multiple and a rest divide to.
LEMMA DivisionBack ==
  ASSUME NEW q \in Nat, NEW M \in Nat \ {0}, NEW r \in 0..M-1
  PROVE  ((M * q) + r) % M = r /\ ((M * q) + r) \div M = q
OBVIOUS

\* One block less
LEMMA OneLess ==
  ASSUME NEW a \in Nat, NEW M \in Nat \ {0}, a \div M >= 1
  PROVE  a - M \in Nat /\ (a - M) \div M = (a \div M) - 1
<1> DEFINE q == a \div M
           r == a % M
<1>1. a = (M * q) + r /\ r \in 0..M-1 /\ q \in Nat BY Divided
<1> HIDE DEF r
<1>2. PICK p \in Nat : q = p + 1
  <2>1. q - 1 \in Nat /\ q = (q - 1) + 1 BY <1>1
  <2> QED BY <2>1
<1> HIDE DEF q
<1>3. M * (p + 1) = (M * p) + M /\ M * p \in Nat OBVIOUS
<1>4. a - M = (M * p) + r BY <1>1, <1>2, <1>3
<1>5. ((M * p) + r) \div M = p BY <1>1, DivisionBack
<1>6. a - M \in Nat BY <1>1, <1>3, <1>4
<1> QED BY <1>2, <1>4, <1>5, <1>6 DEF q

\* Division grows with what is divided.
LEMMA DivGrows ==
  ASSUME NEW a \in Nat, NEW n \in Nat, NEW M \in Nat \ {0}, a <= n * M
  PROVE  a \div M <= n
OBVIOUS

\* A multiple divides without a rest.
LEMMA DivOfMultiple ==
  ASSUME NEW n \in Nat, NEW M \in Nat \ {0}
  PROVE  (n * M) \div M = n
<1>1. 0 \in 0..M-1 OBVIOUS
<1>2. ((M * n) + 0) \div M = n BY <1>1, DivisionBack
<1>3. (M * n) + 0 = n * M OBVIOUS
<1> QED BY <1>2, <1>3

\* Of some numbers one is the least.
LEMMA LeastIs ==
  ASSUME NEW S \in SUBSET Nat, S # {}
  PROVE  \E x \in S : \A y \in S : x <= y
<1>1. IsWellFoundedOn(OpToRel(<, Nat), Nat)
  BY NatLessThanWellFounded
<1>2. PICK x \in S : \A y \in S : <<y, x>> \notin OpToRel(<, Nat)
  BY <1>1, WFMin
<1>3. ASSUME NEW y \in S PROVE x <= y
  <2>1. x \in Nat /\ y \in Nat OBVIOUS
  <2>2. ~(y < x) BY <1>2, <2>1 DEF OpToRel
  <2> QED BY <2>1, <2>2
<1> QED BY <1>3

\* What holds of the first, and of the next whenever it holds of one, holds of all: the set of
\* those that it does not hold of has no least element.
LEMMA UpTo ==
  ASSUME NEW n \in Nat, NEW Good \in SUBSET (0..n), 0 \in Good,
         \A k \in 1..n : k - 1 \in Good => k \in Good
  PROVE  Good = 0..n
<1> SUFFICES ASSUME (0..n) \ Good # {} PROVE FALSE
  OBVIOUS
<1>1. (0..n) \ Good \in SUBSET Nat OBVIOUS
<1>2. PICK x \in (0..n) \ Good : \A y \in (0..n) \ Good : x <= y BY <1>1, LeastIs
<1>3. x \in 1..n /\ x - 1 \in 0..n BY <1>2
<1>4. x - 1 \in Good BY <1>2, <1>3
<1> QED BY <1>2, <1>3, <1>4

-----------------------------------------------------------------------------
(* purge() *)

\* The sizes are numbers, and TsPackets packets fill the buffer.
LEMMA Sizes == TsPackets \in Nat \ {0} /\ P \in Nat \ {0} /\ Size \in Nat /\ Size = TsPackets * P /\ Size \div P = TsPackets
<1>1. TsPackets \in Nat \ {0} /\ P \in Nat \ {0} BY InputAssumption
<1>2. TsPackets * P \in Nat BY <1>1
<1> QED BY <1>1, <1>2, DivOfMultiple DEF Size

\* The word holds the places of the buffer twice.
LEMMA WordIs == Word \in Nat /\ Word > 2 * Size
<1>1. Word \in Nat /\ Word > 2 * (TsPackets * P) BY InputAssumption
<1> QED BY <1>1 DEF Size

BufferOf(m, w, p, e, u) == [mem |-> m, write |-> w, processed |-> p, examined |-> e, excused |-> u]
IsBuffer(c) == c = BufferOf(c.mem, c.write, c.processed, c.examined, c.excused)

\* One field of a buffer is set: the others stay.
LEMMA BufferWith ==
  ASSUME NEW m, NEW w, NEW p, NEW e, NEW u, NEW v
  PROVE  /\ [BufferOf(m, w, p, e, u) EXCEPT !.mem = v] = BufferOf(v, w, p, e, u)
         /\ [BufferOf(m, w, p, e, u) EXCEPT !.write = v] = BufferOf(m, v, p, e, u)
         /\ [BufferOf(m, w, p, e, u) EXCEPT !.processed = v] = BufferOf(m, w, v, e, u)
         /\ [BufferOf(m, w, p, e, u) EXCEPT !.examined = v] = BufferOf(m, w, p, v, u)
         /\ [BufferOf(m, w, p, e, u) EXCEPT !.excused = v] = BufferOf(m, w, p, e, v)
BY DEF BufferOf

\* The fields of a buffer.
LEMMA BufferFields ==
  ASSUME NEW m, NEW w, NEW p, NEW e, NEW u
  PROVE  /\ BufferOf(m, w, p, e, u).mem = m /\ BufferOf(m, w, p, e, u).write = w
         /\ BufferOf(m, w, p, e, u).processed = p /\ BufferOf(m, w, p, e, u).examined = e
         /\ BufferOf(m, w, p, e, u).excused = u
         /\ IsBuffer(BufferOf(m, w, p, e, u))
BY DEF BufferOf, IsBuffer

\* A buffer is of its fields.
LEMMA BufferThere ==
  ASSUME NEW c, IsBuffer(c)
  PROVE  \E m, w, p, e, u : c = BufferOf(m, w, p, e, u)
BY Zenon DEF IsBuffer

\* One step of the loop: after n blocks
PurgeStep(b, marked, f) ==
  f = [n \in 0..TsPackets |->
         IF n = 0 THEN b
         ELSE IF TsPackets - n \in marked THEN WithoutBlock(f[n - 1], TsPackets - n) ELSE f[n - 1]]

\* The loop has one course.
LEMMA PurgeIs ==
  ASSUME NEW b, NEW marked
  PROVE  \E f : /\ PurgeStep(b, marked, f)
                /\ Purge(b, marked) =
                     [f[TsPackets] EXCEPT !.excused = @ \cup ((f[TsPackets].write \div P)..((f[TsPackets].processed \div P) - 1))]
<1> DEFINE Next1(g, n) == IF n = 0 THEN b
                          ELSE IF TsPackets - n \in marked THEN WithoutBlock(g[n - 1], TsPackets - n) ELSE g[n - 1]
           Good == {m \in 0..TsPackets : \E g : g = [n \in 0..m |-> Next1(g, n)]}
<1>0. TsPackets \in Nat /\ 0 \in 0..TsPackets BY Sizes
<1>1. 0 \in Good
  <2> DEFINE g == [n \in 0..0 |-> b]
  <2>1. g = [n \in 0..0 |-> Next1(g, n)]
    <3>1. \A n \in 0..0 : n = 0 OBVIOUS
    <3>2. \A n \in 0..0 : Next1(g, n) = b BY <3>1
    <3> HIDE DEF Next1
    <3> QED BY <3>2
  <2> HIDE DEF g, Next1
  <2> QED BY <2>1, <1>0
<1>2. ASSUME NEW m \in 1..TsPackets, m - 1 \in Good PROVE m \in Good
  <2>0. m \in Nat /\ m \in 0..TsPackets /\ m # 0 BY <1>0
  <2>1. PICK g : g = [n \in 0..m - 1 |-> Next1(g, n)] BY <1>2
  <2> DEFINE h == [n \in 0..m |-> IF n = m THEN Next1(g, m) ELSE g[n]]
  <2>2. ASSUME NEW n \in 0..m PROVE h[n] = Next1(h, n)
    <3>1. CASE n = m
      <4>1. h[n] = Next1(g, m) BY <3>1
      <4>2. m - 1 \in 0..m /\ m - 1 # m BY <2>0
      <4>3. h[m - 1] = g[m - 1] BY <4>2
      <4> HIDE DEF h
      <4> QED BY <4>1, <4>3, <3>1
    <3>2. CASE n # m
      <4>1. n \in 0..m - 1 BY <3>2, <2>0
      <4>2. h[n] = g[n] BY <3>2
      <4>3. g[n] = Next1(g, n)
        <5> HIDE DEF Next1
        <5> QED BY <2>1, <4>1
      <4>4. n = 0 \/ (n - 1 \in 0..m /\ n - 1 # m) BY <4>1, <2>0
      <4>5. n = 0 \/ h[n - 1] = g[n - 1] BY <4>4
      <4> HIDE DEF h
      <4> QED BY <4>2, <4>3, <4>5
    <3> QED BY <3>1, <3>2
  <2>3. h = [n \in 0..m |-> h[n]] OBVIOUS
  <2> HIDE DEF h, Next1
  <2>4. h = [n \in 0..m |-> Next1(h, n)] BY <2>2, <2>3
  <2> QED BY <2>0, <2>4
<1>3. TsPackets \in Good
  <2> HIDE DEF Good
  <2>1. Good \in SUBSET (0..TsPackets) BY DEF Good
  <2>2. Good = 0..TsPackets BY <1>0, <1>1, <1>2, <2>1, UpTo
  <2> QED BY <1>0, <2>2
<1> DEFINE after[n \in 0..TsPackets] ==
             IF n = 0 THEN b
             ELSE IF TsPackets - n \in marked THEN WithoutBlock(after[n - 1], TsPackets - n) ELSE after[n - 1]
<1>4. after = CHOOSE g : g = [n \in 0..TsPackets |-> Next1(g, n)] BY Zenon DEF after
<1>5. Purge(b, marked) =
        [after[TsPackets] EXCEPT !.excused = @ \cup ((after[TsPackets].write \div P)..((after[TsPackets].processed \div P) - 1))]
  BY Zenon DEF Purge
<1>6. after = [n \in 0..TsPackets |-> Next1(after, n)]
  <2> HIDE DEF after, Next1
  <2> QED BY <1>3, <1>4, Zenon
<1>7. PurgeStep(b, marked, after)
  <2> HIDE DEF after
  <2> QED BY <1>6, Zenon DEF PurgeStep
<1> HIDE DEF after
<1> QED BY <1>5, <1>7

\* When no packet is marked purge() leaves all as it is.
LEMMA PurgeNothing ==
  ASSUME NEW b, IsBuffer(b)
  PROVE  /\ Purge(b, {}).write = b.write /\ Purge(b, {}).processed = b.processed
         /\ Purge(b, {}).examined = b.examined /\ b.excused \subseteq Purge(b, {}).excused
<1>0. TsPackets \in Nat /\ 0 \in 0..TsPackets BY Sizes
<1>1. PICK f : /\ PurgeStep(b, {}, f)
               /\ Purge(b, {}) =
                    [f[TsPackets] EXCEPT !.excused = @ \cup ((f[TsPackets].write \div P)..((f[TsPackets].processed \div P) - 1))]
  BY PurgeIs
<1> DEFINE Good == {n \in 0..TsPackets : f[n] = b}
<1>2. 0 \in Good BY <1>0, <1>1 DEF PurgeStep
<1>3. ASSUME NEW n \in 1..TsPackets, n - 1 \in Good PROVE n \in Good
  <2>1. n \in 0..TsPackets /\ n # 0 BY <1>0
  <2>2. f[n] = f[n - 1] BY <1>1, <2>1 DEF PurgeStep
  <2> QED BY <1>3, <2>1, <2>2
<1>4. f[TsPackets] = b
  <2> HIDE DEF Good
  <2>1. Good \in SUBSET (0..TsPackets) BY DEF Good
  <2>2. Good = 0..TsPackets BY <1>0, <1>2, <1>3, <2>1, UpTo
  <2>3. TsPackets \in Good BY <1>0, <2>2
  <2> QED BY <2>3 DEF Good
<1> DEFINE more == b.excused \cup ((b.write \div P)..((b.processed \div P) - 1))
<1>5. Purge(b, {}) = [b EXCEPT !.excused = more] BY <1>1, <1>4
<1> HIDE DEF more
<1>6. PICK m0, w0, p0, e0, u0 : b = BufferOf(m0, w0, p0, e0, u0) BY BufferThere
<1>7. Purge(b, {}) = BufferOf(m0, w0, p0, e0, more) BY <1>5, <1>6, BufferWith
<1>8. b.write = w0 /\ b.processed = p0 /\ b.examined = e0 BY <1>6, BufferFields
<1> QED BY <1>7, <1>8, BufferFields DEF more

\* The fields of a buffer without block k.
LEMMA WithoutBlockIs ==
  ASSUME NEW c, IsBuffer(c), NEW k
  PROVE  /\ IsBuffer(WithoutBlock(c, k))
         /\ WithoutBlock(c, k).write = c.write - P
         /\ WithoutBlock(c, k).processed = c.processed
         /\ WithoutBlock(c, k).examined = {x \in Blocks : (x < k /\ x \in c.examined) \/ (x >= k /\ x + 1 \in c.examined)}
         /\ WithoutBlock(c, k).excused = {x \in Blocks : (x < k /\ x \in c.excused) \/ (x >= k /\ x + 1 \in c.excused)}
<1> DEFINE m == SubSeq(c.mem, 1, P * k) \o SubSeq(c.mem, P * (k + 1) + 1, c.write)
                \o SubSeq(c.mem, c.write - P + 1, Size)
           e == {x \in Blocks : (x < k /\ x \in c.examined) \/ (x >= k /\ x + 1 \in c.examined)}
           u == {x \in Blocks : (x < k /\ x \in c.excused) \/ (x >= k /\ x + 1 \in c.excused)}
           w == c.write - P
<1>1. WithoutBlock(c, k) = [c EXCEPT !.mem = m, !.write = w, !.examined = e, !.excused = u]
  BY Zenon DEF WithoutBlock
<1> HIDE DEF m, e, u, w
<1>2. PICK m0, w0, p0, e0, u0 : c = BufferOf(m0, w0, p0, e0, u0) BY BufferThere
<1>3. c.processed = p0 BY <1>2, BufferFields
<1>4. WithoutBlock(c, k) = [BufferOf(m0, w0, p0, e0, u0) EXCEPT !.mem = m, !.write = w, !.examined = e, !.excused = u]
  BY <1>1, <1>2, Zenon
<1>5. WithoutBlock(c, k) = BufferOf(m, w, p0, e, u)
  <2>1. [BufferOf(m0, w0, p0, e0, u0) EXCEPT !.mem = m, !.write = w, !.examined = e, !.excused = u]
          = BufferOf(m, w, p0, e, u)
    <3> DEFINE b == BufferOf(m0, w0, p0, e0, u0)
    <3>1. [b EXCEPT !.mem = m, !.write = w, !.examined = e, !.excused = u] =
            [[[[b EXCEPT !.mem = m] EXCEPT !.write = w] EXCEPT !.examined = e] EXCEPT !.excused = u]
      <4> HIDE DEF b
      <4> QED OBVIOUS
    <3>2. [b EXCEPT !.mem = m] = BufferOf(m, w0, p0, e0, u0) BY DEF BufferOf
    <3>3. [BufferOf(m, w0, p0, e0, u0) EXCEPT !.write = w] = BufferOf(m, w, p0, e0, u0) BY DEF BufferOf
    <3>4. [BufferOf(m, w, p0, e0, u0) EXCEPT !.examined = e] = BufferOf(m, w, p0, e, u0) BY DEF BufferOf
    <3>5. [BufferOf(m, w, p0, e, u0) EXCEPT !.excused = u] = BufferOf(m, w, p0, e, u) BY DEF BufferOf
    <3> QED BY <3>1, <3>2, <3>3, <3>4, <3>5, Zenon
  <2> QED BY <1>4, <2>1, Zenon
<1>6. WithoutBlock(c, k) = BufferOf(m, w, c.processed, e, u)
  BY <1>3, <1>5, Zenon
<1> QED BY <1>6, BufferFields DEF e, u, w

\* What the blocks that are left have behind them
Covered(c, n) == \A x \in Nat : x < n => x \in c.examined \cup c.excused

\* When all the blocks above k are done: the marked ones below are still there.
HalfPurged(b, marked, c, n) ==
  /\ IsBuffer(c) /\ c.write \in Nat /\ c.write <= b.write /\ c.processed = b.processed
  /\ \A k \in marked : k < TsPackets - n => k < c.write \div P
  /\ Covered(c, c.write \div P)

\* The loop of purge() goes on to the next block,
LEMMA PurgeStepRight ==
  ASSUME NEW b, b.write \in Nat, b.write <= Size, NEW marked \in SUBSET Blocks,
         NEW c, NEW n \in 1..TsPackets, HalfPurged(b, marked, c, n - 1)
  PROVE  HalfPurged(b, marked, IF TsPackets - n \in marked THEN WithoutBlock(c, TsPackets - n) ELSE c, n)
<1> DEFINE k == TsPackets - n
           d == WithoutBlock(c, k)
           W == c.write \div P
<1>0. TsPackets \in Nat /\ n \in Nat /\ n <= TsPackets /\ P \in Nat \ {0} /\ k \in Nat /\ marked \subseteq Nat
  BY Sizes DEF Blocks
<1>1. /\ IsBuffer(c) /\ c.write \in Nat /\ c.write <= b.write /\ c.processed = b.processed
      /\ \A j \in marked : j < TsPackets - (n - 1) => j < W
      /\ Covered(c, W)
  BY DEF HalfPurged
<1>2. W \in Nat /\ W <= TsPackets
  <2>1. c.write <= TsPackets * P BY <1>1, Sizes
  <2> QED BY <1>0, <1>1, <2>1, Divided, DivGrows
<1>3. CASE k \notin marked
  <2>1. \A j \in marked : j < TsPackets - n => j < TsPackets - (n - 1) BY <1>0
  <2> HIDE DEF W
  <2> QED BY <1>1, <1>3, <2>1 DEF HalfPurged, W
<1>4. CASE k \in marked
  <2>1. k < W
    <3>1. k < TsPackets - (n - 1) BY <1>0
    <3> HIDE DEF k, W
    <3> QED BY <1>1, <1>4, <3>1
  <2>2. c.write - P \in Nat /\ (c.write - P) \div P = W - 1
    <3>1. W >= 1 BY <2>1, <1>0, <1>2
    <3> QED BY <3>1, <1>0, <1>1, OneLess
  <2>3. /\ IsBuffer(d) /\ d.write = c.write - P /\ d.processed = c.processed
        /\ d.examined = {x \in Blocks : (x < k /\ x \in c.examined) \/ (x >= k /\ x + 1 \in c.examined)}
        /\ d.excused = {x \in Blocks : (x < k /\ x \in c.excused) \/ (x >= k /\ x + 1 \in c.excused)}
    BY <1>1, WithoutBlockIs
  <2> HIDE DEF d
  <2>4. d.write \div P = W - 1 /\ d.write \in Nat /\ d.write <= b.write
    <3>1. b.write \in Nat /\ c.write \in Nat BY <1>1
    <3> QED BY <2>2, <2>3, <1>0, <1>1, <3>1
  <2> HIDE DEF W
  <2>5. \A j \in marked : j < TsPackets - n => j < d.write \div P
    <3> SUFFICES ASSUME NEW j \in marked, j < TsPackets - n PROVE j < W - 1
      BY <2>4
    <3>1. j \in Nat BY <1>0
    <3> QED BY <3>1, <2>1, <1>0, <1>2
  <2>6. Covered(d, W - 1)
    <3> SUFFICES ASSUME NEW x \in Nat, x < W - 1 PROVE x \in d.examined \cup d.excused
      BY DEF Covered
    <3>1. x \in Blocks BY <1>0, <1>2 DEF Blocks
    <3>2. x \in c.examined \cup c.excused /\ x + 1 \in c.examined \cup c.excused
      <4>1. x < W /\ x + 1 < W /\ x + 1 \in Nat BY <1>2
      <4> QED BY <1>1, <4>1 DEF Covered
    <3>3. x < k \/ x >= k BY <1>0
    <3> HIDE DEF k
    <3> QED BY <2>3, <3>1, <3>2, <3>3
  <2> HIDE DEF k
  <2>7. HalfPurged(b, marked, d, n) BY <1>1, <2>3, <2>4, <2>5, <2>6 DEF HalfPurged
  <2> QED BY <1>4, <2>7 DEF d, k
<1> QED BY <1>3, <1>4

\* up to the first one: all blocks that the processed index is past are covered.
LEMMA PurgeRight ==
  ASSUME NEW b, IsBuffer(b), b.write \in 0..Size, b.processed = b.write,
         NEW marked \in SUBSET (0..(b.write \div P) - 1),
         Covered(b, b.write \div P)
  PROVE  /\ Purge(b, marked).write \in Nat /\ Purge(b, marked).write <= b.write
         /\ Purge(b, marked).processed = b.processed
         /\ Covered(Purge(b, marked), b.processed \div P)
<1>0. TsPackets \in Nat /\ P \in Nat \ {0} /\ Size \in Nat /\ b.write \in Nat /\ b.write <= Size
  BY Sizes
<1>1. b.write \div P \in Nat /\ b.write \div P <= TsPackets
  <2>1. b.write <= TsPackets * P BY <1>0, Sizes
  <2> QED BY <1>0, <2>1, Divided, DivGrows
<1>2. marked \in SUBSET Blocks BY <1>0, <1>1 DEF Blocks
<1>3. PICK f : /\ PurgeStep(b, marked, f)
               /\ Purge(b, marked) =
                    [f[TsPackets] EXCEPT !.excused = @ \cup ((f[TsPackets].write \div P)..((f[TsPackets].processed \div P) - 1))]
  BY PurgeIs
<1> DEFINE Good == {n \in 0..TsPackets : HalfPurged(b, marked, f[n], n)}
<1>4. 0 \in Good
  <2>1. 0 \in 0..TsPackets BY <1>0
  <2>2. f[0] = b BY <1>3, <2>1 DEF PurgeStep
  <2>3. \A k \in marked : k < b.write \div P BY <1>1
  <2>4. HalfPurged(b, marked, b, 0) BY <1>0, <2>3 DEF HalfPurged
  <2> QED BY <2>1, <2>2, <2>4
<1>5. ASSUME NEW n \in 1..TsPackets, n - 1 \in Good PROVE n \in Good
  <2>1. n \in 0..TsPackets /\ n # 0 BY <1>0
  <2>2. f[n] = IF TsPackets - n \in marked THEN WithoutBlock(f[n - 1], TsPackets - n) ELSE f[n - 1]
    BY <1>3, <2>1 DEF PurgeStep
  <2>3. HalfPurged(b, marked, f[n - 1], n - 1) BY <1>5
  <2>4. HalfPurged(b, marked, f[n], n) BY <2>2, <2>3, <1>0, <1>2, PurgeStepRight
  <2> QED BY <2>1, <2>4
<1>6. HalfPurged(b, marked, f[TsPackets], TsPackets)
  <2> HIDE DEF Good
  <2>1. Good \in SUBSET (0..TsPackets) BY DEF Good
  <2>2. Good = 0..TsPackets BY <1>0, <1>4, <1>5, <2>1, UpTo
  <2>3. TsPackets \in Good BY <1>0, <2>2
  <2> QED BY <2>3 DEF Good
<1> DEFINE c == f[TsPackets]
           W == c.write \div P
           more == c.excused \cup (W..((c.processed \div P) - 1))
<1>7. IsBuffer(c) /\ c.write \in Nat /\ c.write <= b.write /\ c.processed = b.processed /\ Covered(c, W)
  BY <1>6 DEF HalfPurged
<1>8. Purge(b, marked) = [c EXCEPT !.excused = more] BY <1>3
<1> HIDE DEF c, more
<1>9. PICK m0, w0, p0, e0, u0 : c = BufferOf(m0, w0, p0, e0, u0) BY <1>7, BufferThere
<1>10. /\ Purge(b, marked).write = c.write /\ Purge(b, marked).processed = c.processed
       /\ Purge(b, marked).examined = c.examined /\ Purge(b, marked).excused = more
  <2>1. Purge(b, marked) = [BufferOf(m0, w0, p0, e0, u0) EXCEPT !.excused = more] BY <1>8, <1>9, Zenon
  <2>2. Purge(b, marked) = BufferOf(m0, w0, p0, e0, more) BY <2>1, BufferWith
  <2>3. c.write = w0 /\ c.processed = p0 /\ c.examined = e0 BY <1>9, BufferFields
  <2> QED BY <2>2, <2>3, BufferFields
<1>11. Covered(Purge(b, marked), b.processed \div P)
  <2> SUFFICES ASSUME NEW x \in Nat, x < b.processed \div P
               PROVE  x \in c.examined \cup more
    BY <1>10 DEF Covered
  <2>1. W \in Nat BY <1>7, <1>0, Divided
  <2> HIDE DEF W
  <2>2. CASE x < W
    <3>1. x \in c.examined \cup c.excused BY <1>7, <2>2 DEF Covered
    <3> QED BY <3>1 DEF more
  <2>3. CASE x >= W
    <3>1. b.processed \div P \in Nat BY <1>1
    <3>2. x \in W..((c.processed \div P) - 1) BY <1>7, <2>1, <2>3, <3>1
    <3> QED BY <3>2 DEF more
  <2> QED BY <2>1, <2>2, <2>3
<1> QED BY <1>7, <1>10, <1>11

-----------------------------------------------------------------------------
(* A read *)

\* What the processed index is past, in a buffer, unless it has wrapped
Passed(b) ==
  /\ IsBuffer(b) /\ b.write \in 0..Word-1 /\ b.processed \in 0..Word-1
  /\ Wrapped(b.write) => Wrapped(b.processed)
  /\ ~Wrapped(b.processed) => Covered(b, b.processed \div P)

\* Then filterData() has been there, or
AllPassed(f) ==
  /\ f.write \in 0..Word-1 /\ f.processed \in 0..Word-1
  /\ IF Wrapped(f.write) THEN f.processed = f.write
     ELSE f.write <= f.processed /\ f.processed <= Size /\ Covered(f, f.processed \div P)

\* What filterData() sees before it purges
LEMMA SeenIs ==
  ASSUME NEW b, IsBuffer(b), NEW saw, NEW u
  PROVE  [b EXCEPT !.processed = b.write, !.examined = saw, !.excused = u]
           = BufferOf(b.mem, b.write, b.write, saw, u)
<1>1. PICK m0, w0, p0, e0, u0 : b = BufferOf(m0, w0, p0, e0, u0) BY BufferThere
<1>2. b.mem = m0 /\ b.write = w0 BY <1>1, BufferFields
<1> DEFINE c == BufferOf(m0, w0, p0, e0, u0)
<1>3. [c EXCEPT !.processed = w0, !.examined = saw, !.excused = u] =
        [[[c EXCEPT !.processed = w0] EXCEPT !.examined = saw] EXCEPT !.excused = u]
  <2> HIDE DEF c
  <2> QED OBVIOUS
<1>4. [c EXCEPT !.processed = w0] = BufferOf(m0, w0, w0, e0, u0) BY DEF BufferOf
<1>5. [BufferOf(m0, w0, w0, e0, u0) EXCEPT !.examined = saw] = BufferOf(m0, w0, w0, saw, u0)
  BY DEF BufferOf
<1>6. [BufferOf(m0, w0, w0, saw, u0) EXCEPT !.excused = u] = BufferOf(m0, w0, w0, saw, u)
  BY DEF BufferOf
<1>7. [c EXCEPT !.processed = w0, !.examined = saw, !.excused = u] = BufferOf(m0, w0, w0, saw, u)
  BY <1>3, <1>4, <1>5, <1>6, Zenon
<1> QED BY <1>1, <1>2, <1>7, Zenon

\* The marked packets are among the new ones.
LEMMA MarkedAreNew ==
  ASSUME NEW b, NEW unwanted \in Unwanted(b)
  PROVE  {k \in UnFiltered(b) : b.mem[P * k + 1] # 0} \cup unwanted \subseteq UnFiltered(b)
<1> DEFINE new == UnFiltered(b)
<1>1. Unwanted(b) \in {SUBSET {k \in new : b.mem[P * k + 1] = 0}, {{}}} BY DEF Unwanted
<1> HIDE DEF new
<1>2. unwanted \subseteq new BY <1>1
<1>3. {k \in new : b.mem[P * k + 1] # 0} \subseteq new OBVIOUS
<1> QED BY <1>2, <1>3 DEF new

\* With a wrapped index there is nothing to look at: what has been completed is passed over.
LEMMA FilterWrapped ==
  ASSUME NEW b, Passed(b), Wrapped(b.processed), NEW unwanted \in Unwanted(b)
  PROVE  AllPassed(FilterData(b, unwanted))
<1> DEFINE new == UnFiltered(b)
           bad == {k \in new : b.mem[P * k + 1] # 0} \cup unwanted
           saw == b.examined \cup new
           behind == Behind(b)
           seen == [b EXCEPT !.processed = b.write, !.examined = saw, !.excused = behind]
           there == BufferOf(b.mem, b.write, b.write, saw, behind)
           f == FilterData(b, unwanted)
           W == b.write \div P
<1>0. P \in Nat \ {0} /\ TsPackets \in Nat /\ Size \in Nat /\ Word \in Nat BY Sizes, WordIs
<1>1. IsBuffer(b) /\ b.write \in 0..Word-1 /\ b.write \in Nat /\ b.processed \in Nat
  BY <1>0 DEF Passed
<1>2. new = {}
  <2>1. b.processed \div P >= TsPackets
    <3> SUFFICES ASSUME b.processed \div P <= TsPackets - 1 PROVE FALSE
      BY <1>0, <1>1, Divided
    <3> DEFINE q == b.processed \div P
               r == b.processed % P
    <3>1. b.processed = (P * q) + r /\ r \in 0..P-1 /\ q \in Nat BY <1>0, <1>1, Divided
    <3>2. PICK d \in Nat : TsPackets = q + 1 + d
      <4>1. TsPackets - q - 1 \in Nat /\ TsPackets = q + 1 + (TsPackets - q - 1) BY <1>0, <3>1
      <4> QED BY <4>1
    <3> HIDE DEF q, r
    <3>3. TsPackets * P = (P * q) + P + (P * d) /\ P * q \in Nat /\ P * d \in Nat BY <1>0, <3>1, <3>2
    <3>4. b.processed <= TsPackets * P BY <1>0, <3>1, <3>3
    <3> QED BY <1>0, <1>1, <3>4, Sizes DEF Wrapped
  <2>2. b.processed \div P \in Nat BY <1>0, <1>1, Divided
  <2>3. \A k \in Blocks : ~(b.processed \div P <= k) BY <1>0, <2>1, <2>2 DEF Blocks
  <2> QED BY <2>3 DEF UnFiltered
<1>3. bad = {}
  <2>1. bad \subseteq UnFiltered(b) BY MarkedAreNew, Zenon
  <2> HIDE DEF bad
  <2> QED BY <1>2, <2>1
<1>4. behind = {k \in Blocks : k < W} BY DEF Behind
<1>5. f = IF filtering THEN Purge(seen, bad) ELSE seen
  <2> HIDE DEF saw, behind
  <2> QED BY Zenon DEF FilterData, saw, behind
<1>6. seen = there
  <2> HIDE DEF saw, behind
  <2> QED BY <1>1, SeenIs
<1>7. /\ IsBuffer(there) /\ there.write = b.write /\ there.processed = b.write
      /\ there.excused = behind
  <2> HIDE DEF saw, behind
  <2> QED BY BufferFields
<1>8. f.write = b.write /\ f.processed = b.write /\ behind \subseteq f.excused
  <2> HIDE DEF there, seen, bad, saw, behind
  <2>1. CASE filtering
    <3>1. f = Purge(there, {}) BY <1>3, <1>5, <1>6, <2>1
    <3> HIDE DEF f
    <3> QED BY <1>7, <3>1, PurgeNothing
  <2>2. CASE ~filtering BY <1>5, <1>6, <1>7, <2>2
  <2> QED BY <2>1, <2>2
<1> HIDE DEF f, behind
<1> SUFFICES ASSUME ~Wrapped(b.write) PROVE Covered(f, W)
  <2>1. ~Wrapped(b.write) => b.write <= Size BY <1>0, <1>1 DEF Wrapped
  <2> HIDE DEF W
  <2> QED BY <1>1, <1>8, <2>1 DEF AllPassed, W, f
<1>9. W \in Nat /\ W <= TsPackets
  <2>1. b.write <= TsPackets * P BY <1>0, <1>1, Sizes DEF Wrapped
  <2> QED BY <1>0, <1>1, <2>1, Divided, DivGrows
<1> HIDE DEF W
<1>10. ASSUME NEW x \in Nat, x < W PROVE x \in f.examined \cup f.excused
  <2>1. x \in Blocks BY <1>0, <1>9, <1>10 DEF Blocks
  <2> QED BY <1>4, <1>8, <1>10, <2>1
<1> QED BY <1>10 DEF Covered

\* Otherwise it has looked at the new blocks, or purged them.
LEMMA FilterRight ==
  ASSUME NEW b, Passed(b), ~Wrapped(b.processed), NEW unwanted \in Unwanted(b)
  PROVE  AllPassed(FilterData(b, unwanted))
<1> DEFINE new == UnFiltered(b)
           bad == {k \in new : b.mem[P * k + 1] # 0} \cup unwanted
           saw == b.examined \cup new
           behind == Behind(b)
           seen == [b EXCEPT !.processed = b.write, !.examined = saw, !.excused = behind]
           there == BufferOf(b.mem, b.write, b.write, saw, b.excused)
           W == b.write \div P
           Q == b.processed \div P
<1>0. P \in Nat \ {0} /\ TsPackets \in Nat /\ Size \in Nat /\ Word \in Nat /\ Word > 2 * Size
  BY Sizes, WordIs
<1>1. IsBuffer(b) /\ b.write \in Nat /\ b.processed \in Nat /\ b.write \in 0..Size /\ Covered(b, Q)
  BY <1>0 DEF Passed, Wrapped
<1>2. W \in Nat /\ Q \in Nat /\ W <= TsPackets
  <2>1. b.write <= TsPackets * P BY <1>0, <1>1, Sizes
  <2> QED BY <1>0, <1>1, <2>1, Divided, DivGrows
<1>3. seen = there
  <2>1. behind = b.excused BY DEF Behind
  <2> HIDE DEF saw, behind
  <2> QED BY <1>1, <2>1, SeenIs
<1>4. new = {k \in Blocks : Q <= k /\ k < W} BY Zenon DEF UnFiltered
<1>5. /\ IsBuffer(there) /\ there.write = b.write /\ there.processed = b.write
      /\ there.examined = saw /\ there.excused = b.excused
  BY BufferFields
<1> HIDE DEF there, W, Q
<1>6. Covered(there, W)
  <2> SUFFICES ASSUME NEW x \in Nat, x < W PROVE x \in saw \cup b.excused
    BY <1>5 DEF Covered
  <2>1. CASE x < Q
    <3>1. x \in b.examined \cup b.excused BY <1>1, <2>1 DEF Covered
    <3> QED BY <3>1
  <2>2. CASE x >= Q
    <3>1. x \in Blocks BY <1>0, <1>2 DEF Blocks
    <3> QED BY <1>2, <1>4, <2>2, <3>1
  <2> QED BY <2>1, <2>2, <1>2
<1>7. bad \in SUBSET (0..(W - 1))
  <2>1. bad \subseteq UnFiltered(b) BY MarkedAreNew, Zenon
  <2>2. new \subseteq 0..(W - 1) BY <1>0, <1>2, <1>4 DEF Blocks
  <2> HIDE DEF bad
  <2> QED BY <2>1, <2>2
<1>8. FilterData(b, unwanted) = IF filtering THEN Purge(there, bad) ELSE there
  <2> HIDE DEF saw, behind
  <2>1. FilterData(b, unwanted) = IF filtering THEN Purge(seen, bad) ELSE seen
    BY Zenon DEF FilterData, saw, behind
  <2> HIDE DEF seen, bad
  <2> QED BY <2>1, <1>3
<1> HIDE DEF bad, saw
<1>9. b.write \in 0..Word-1 /\ ~Wrapped(b.write) BY <1>0, <1>1 DEF Wrapped
<1>10. CASE ~filtering BY <1>1, <1>5, <1>6, <1>8, <1>9, <1>10 DEF W, AllPassed
<1>11. CASE filtering
  <2> DEFINE f == Purge(there, bad)
  <2>1. f.write \in Nat /\ f.write <= there.write /\ f.processed = there.processed
        /\ Covered(f, there.processed \div P)
    BY <1>1, <1>5, <1>6, <1>7, PurgeRight DEF W
  <2> HIDE DEF f
  <2>2. FilterData(b, unwanted) = f BY <1>8, <1>11 DEF f
  <2>3. f.processed = b.write /\ f.write <= b.write BY <1>5, <2>1
  <2>4. f.write \in 0..Word-1 /\ ~Wrapped(f.write) BY <1>0, <1>1, <2>1, <2>3 DEF Wrapped
  <2>5. f.processed \in 0..Word-1 /\ f.processed <= Size BY <1>0, <1>1, <2>3
  <2> QED BY <1>5, <2>1, <2>2, <2>3, <2>4, <2>5 DEF AllPassed
<1> QED BY <1>10, <1>11

\* There is no block below 0.
LEMMA NoneCovered ==
  ASSUME NEW c
  PROVE  Covered(c, 0 \div P)
<1>1. 0 \div P = 0 BY Sizes
<1> QED BY <1>1 DEF Covered

\* The invariant: what the processed index is past was looked at or may be passed over.
Reaching ==
  /\ write \in 0..Word-1 /\ processed \in 0..Word-1
  /\ IF Wrapped(write) THEN processed = write
     ELSE /\ write <= processed /\ processed <= Size
          /\ \A x \in Nat : x < processed \div P => x \in examined \cup excused

\* What a read appends is not processed yet.
LEMMA FilledRight ==
  ASSUME Reaching, NEW n \in 1..Room
  PROVE  Passed(Filled(n))
<1> DEFINE from == IF Wrapped(write) THEN write - Word ELSE write
           m == [i \in 1..Size |-> IF i \in from+1..from+n THEN (place + i - 1 - from) % P ELSE mem[i]]
<1>0. Size \in Nat /\ Word \in Nat /\ Word > 2 * Size BY Sizes, WordIs
<1>1. Filled(n) = BufferOf(m, Added(write, n), processed, examined, excused)
  BY Zenon DEF Filled, BufferOf
<1> HIDE DEF m, from
<1>2. /\ IsBuffer(Filled(n)) /\ Filled(n).write = Added(write, n) /\ Filled(n).processed = processed
      /\ Filled(n).examined = examined /\ Filled(n).excused = excused
  BY <1>1, BufferFields
<1>3. write \in 0..Word-1 /\ processed \in 0..Word-1 BY DEF Reaching
<1>4. Added(write, n) \in 0..Word-1 /\ (Wrapped(Added(write, n)) => Wrapped(write))
  BY <1>0, <1>3 DEF Added, Room, Wrapped
<1>5. Wrapped(write) <=> Wrapped(processed) BY <1>0, <1>3 DEF Reaching, Wrapped
<1>6. ~Wrapped(processed) => Covered(Filled(n), processed \div P)
  BY <1>2, <1>5 DEF Reaching, Covered
<1> QED BY <1>2, <1>3, <1>4, <1>5, <1>6 DEF Passed

\* A buffer that was reset is processed as far as it is filled.
LEMMA ResetRight ==
  ASSUME NEW b, IsBuffer(b)
  PROVE  Passed(Reset(b)) /\ Reset(b).write = 0 /\ Reset(b).processed = 0
         /\ Reset(b).examined = {} /\ Reset(b).excused = {}
<1>1. PICK m0, w0, p0, e0, u0 : b = BufferOf(m0, w0, p0, e0, u0) BY BufferThere
<1>2. Reset(b) = [BufferOf(m0, w0, p0, e0, u0) EXCEPT !.write = 0, !.processed = 0, !.examined = {}, !.excused = {}]
  BY <1>1, Zenon DEF Reset
<1>3. Reset(b) = BufferOf(m0, 0, 0, {}, {})
  <2>1. [BufferOf(m0, w0, p0, e0, u0) EXCEPT !.write = 0, !.processed = 0, !.examined = {}, !.excused = {}]
          = BufferOf(m0, 0, 0, {}, {})
    <3> DEFINE c == BufferOf(m0, w0, p0, e0, u0)
    <3>1. [c EXCEPT !.write = 0, !.processed = 0, !.examined = {}, !.excused = {}] =
            [[[[c EXCEPT !.write = 0] EXCEPT !.processed = 0] EXCEPT !.examined = {}] EXCEPT !.excused = {}]
      <4> HIDE DEF c
      <4> QED OBVIOUS
    <3>2. [c EXCEPT !.write = 0] = BufferOf(m0, 0, p0, e0, u0) BY DEF BufferOf
    <3>3. [BufferOf(m0, 0, p0, e0, u0) EXCEPT !.processed = 0] = BufferOf(m0, 0, 0, e0, u0) BY DEF BufferOf
    <3>4. [BufferOf(m0, 0, 0, e0, u0) EXCEPT !.examined = {}] = BufferOf(m0, 0, 0, {}, u0) BY DEF BufferOf
    <3>5. [BufferOf(m0, 0, 0, {}, u0) EXCEPT !.excused = {}] = BufferOf(m0, 0, 0, {}, {}) BY DEF BufferOf
    <3> QED BY <3>1, <3>2, <3>3, <3>4, <3>5, Zenon
  <2> QED BY <1>2, <2>1, Zenon
<1>4. /\ IsBuffer(Reset(b)) /\ Reset(b).write = 0 /\ Reset(b).processed = 0
      /\ Reset(b).examined = {} /\ Reset(b).excused = {}
  BY <1>3, BufferFields
<1>5. 0 \in 0..Word-1 /\ ~Wrapped(0) BY Sizes, WordIs DEF Wrapped
<1> QED BY <1>4, <1>5, NoneCovered DEF Passed

\* What trySyncing() moves counts as processed and is excused, or the index wraps.
LEMMA SyncingRight ==
  ASSUME NEW b, Passed(b)
  PROVE  Passed(TrySyncing(b))
<1>0. P \in Nat \ {0} /\ TsPackets \in Nat /\ Size \in Nat /\ Word \in Nat /\ Word > 2 * Size
  BY Sizes, WordIs
<1>1. CASE b.write < 3 * P \/ SyncAt(b.mem, 0)
  <2>1. TrySyncing(b) = b BY <1>1 DEF TrySyncing
  <2> QED BY <2>1
<1>2. CASE ~(b.write < 3 * P \/ SyncAt(b.mem, 0)) /\ SyncPlaces(b.mem) = {}
  <2>1. TrySyncing(b) = Reset(b) BY <1>2 DEF TrySyncing
  <2>2. IsBuffer(b) BY DEF Passed
  <2> QED BY <2>1, <2>2, ResetRight
<1>3. CASE ~(b.write < 3 * P \/ SyncAt(b.mem, 0)) /\ SyncPlaces(b.mem) # {}
  <2> DEFINE i == Min(SyncPlaces(b.mem))
             w == Taken(b.write, i)
             u == IF Wrapped(w) THEN {} ELSE 0..(w \div P) - 1
             s == BufferOf(Shifted(b.mem, i), w, w, {}, u)
  <2>1. TrySyncing(b) = s BY <1>3, Zenon DEF TrySyncing, BufferOf
  <2>2. i \in Nat /\ i <= Size
    <3>1. SyncPlaces(b.mem) \in SUBSET Nat BY DEF SyncPlaces
    <3>2. \E x \in SyncPlaces(b.mem) : \A y \in SyncPlaces(b.mem) : x <= y BY <3>1, <1>3, LeastIs
    <3>3. i \in SyncPlaces(b.mem) BY <3>2, Zenon DEF Min
    <3>4. i \in 0..(Size - 2 * P - 1) BY <3>3 DEF SyncPlaces
    <3> HIDE DEF i
    <3> QED BY <1>0, <3>4
  <2>3. w \in 0..Word-1
    <3> HIDE DEF i
    <3> QED BY <1>0, <2>2 DEF Passed, Taken
  <2> HIDE DEF i, w
  <2>4. IsBuffer(s) /\ s.write = w /\ s.processed = w /\ s.excused = u
    <3> HIDE DEF u
    <3> QED BY BufferFields
  <2> HIDE DEF s
  <2>5. ~Wrapped(w) => Covered(s, w \div P)
    <3>1. w \div P \in Nat BY <1>0, <2>3, Divided
    <3> QED BY <2>4, <3>1 DEF Covered
  <2> QED BY <2>1, <2>3, <2>4, <2>5 DEF Passed
<1> QED BY <1>1, <1>2, <1>3

-----------------------------------------------------------------------------

\* A read with all that follows it,
LEMMA ReadRight ==
  ASSUME Reaching, NEW n, ReadBytes(n)
  PROVE  Reaching'
<1> DEFINE b == TrySyncing(Filled(n))
<1>1. n \in 1..Room BY DEF ReadBytes
<1>2. Passed(b) BY <1>1, FilledRight, SyncingRight
<1>3. PICK unwanted \in Unwanted(b) :
        /\ write' = FilterData(b, unwanted).write /\ processed' = FilterData(b, unwanted).processed
        /\ examined' = FilterData(b, unwanted).examined /\ excused' = FilterData(b, unwanted).excused
  BY DEF ReadBytes
<1> HIDE DEF b
<1>4. AllPassed(FilterData(b, unwanted)) BY <1>2, FilterRight, FilterWrapped
<1> QED BY <1>3, <1>4 DEF AllPassed, Covered, Reaching, Wrapped, Size

\* Nothing is passed of an empty buffer.
LEMMA NothingPassed ==
  ASSUME write' = 0, processed' = 0
  PROVE  Reaching'
<1>1. 0 \in 0..Word-1 /\ ~(0 > Size) /\ 0 <= Size /\ 0 \div P = 0 BY Sizes, WordIs
<1> QED BY <1>1 DEF Reaching, Wrapped, Size

\* The next buffer of the ring is empty.
LEMMA NextRight ==
  ASSUME Reaching, NextBuffer
  PROVE  Reaching'
<1>1. IsBuffer(Filled(0))
  <2>1. \E m, w : Filled(0) = BufferOf(m, w, processed, examined, excused) BY Zenon DEF Filled, BufferOf
  <2> QED BY <2>1, BufferFields
<1>2. write' = 0 /\ processed' = 0 BY <1>1, ResetRight DEF NextBuffer
<1> QED BY <1>2, NothingPassed

\* The invariant holds at first,
LEMMA ReachingAtFirst ==
  ASSUME InputInit
  PROVE  Reaching
<1>1. 0 \in 0..Word-1 /\ ~Wrapped(0) /\ 0 <= Size /\ 0 \div P = 0 BY Sizes, WordIs DEF Wrapped
<1> QED BY <1>1 DEF InputInit, Reaching

\* and every step keeps it.
LEMMA ReachingStep ==
  ASSUME Reaching, [InputNext]_inputVars
  PROVE  Reaching'
<1>1. CASE ReadSome BY <1>1, ReadRight DEF ReadSome
<1>2. CASE Cut
  <2>1. UNCHANGED <<write, processed, examined, excused>> BY <1>2 DEF Cut
  <2> QED BY <2>1 DEF Reaching, Wrapped, Size
<1>3. CASE NextBuffer BY <1>3, NextRight
<1>4. CASE UNCHANGED inputVars
  <2>1. UNCHANGED <<write, processed, examined, excused>> BY <1>4 DEF inputVars
  <2> QED BY <2>1 DEF Reaching, Wrapped, Size
<1> QED BY <1>1, <1>2, <1>3, <1>4 DEF InputNext

\* A full buffer was processed up to its end.
LEMMA ReachingReaches ==
  ASSUME Reaching
  PROVE  FilterReaches
<1> SUFFICES ASSUME Full PROVE Blocks \ examined \subseteq excused
  BY DEF FilterReaches
<1>0. Size \in Nat /\ TsPackets \in Nat BY Sizes
<1>1. write = Size /\ ~Wrapped(write) BY <1>0 DEF Full, Wrapped
<1>2. processed \div P = TsPackets
  <2>1. processed = Size BY <1>0, <1>1 DEF Reaching
  <2> QED BY <2>1, Sizes
<1>3. \A x \in Blocks : x \in examined \cup excused BY <1>0, <1>1, <1>2 DEF Reaching, Blocks
<1> QED BY <1>3

\* However the bytes come, are lost, and are purged, and whether or not a resync lets the
\* indexes wrap, filterData() has looked at every packet of a full buffer, or the resync or a
\* purge let it pass over it (PacketBuffer::trySyncing(), purge(), Filter::filterData()).
THEOREM FilterAlwaysReaches == InputSpec => []FilterReaches
<1>1. InputInit => Reaching BY ReachingAtFirst
<1>2. Reaching /\ [InputNext]_inputVars => Reaching' BY ReachingStep
<1>3. Reaching => FilterReaches BY ReachingReaches
<1> QED BY <1>1, <1>2, <1>3, PTL DEF InputSpec
=============================================================================
