------------------------------ MODULE RtpReports ------------------------------
(***************************************************************************)
(* What a client hears of a stream: the streaming thread numbers, counts   *)
(* and writes packets (StreamThreadRtp, RtpTcp, Http, TSWriter), the RTCP  *)
(* thread reads the counters, one atomic after the other and without a     *)
(* lock, into the sender report that it sends with SDES and APP            *)
(* (StreamThreadRtcpBase).                                                 *)
(*                                                                         *)
(* Abstracted: the constant fields of the packets; how packets get into    *)
(* the ring is module PacketRing's, how a frame shares its connection      *)
(* RtspConnection's, how threads are paused and joined StreamingThread's.  *)
(***************************************************************************)
EXTENDS Integers, Sequences

CONSTANTS
  Protocols,     \* of {"rtp", "rtptcp", "http", "tswriter"}
  DataSizes,     \* octets of a packet
  DescSizes,     \* characters of attributeDescribeString()
  CounterMod,    \* 2^32
  CseqMod,       \* 2^16
  MaxPackets,    \* bound: packets of a behaviour
  MaxTime        \* bound: ticks

ASSUME RtpReportsAssumption ==
  /\ Protocols \subseteq {"rtp", "rtptcp", "http", "tswriter"}
  /\ DataSizes \subseteq Nat \ {0}
  /\ DescSizes \subseteq Nat
  /\ CounterMod \in Nat \ {0} /\ CseqMod \in Nat \ {0} /\ MaxPackets \in Nat /\ MaxTime \in Nat

VARIABLES
  protocol, playing,               \* of the session; not paused
  ticks,                           \* the clock
  writing, packet, cseq,           \* where the streaming thread is, its packet, _cseq
  spc, soc, timestamp, rtpPayload, \* the Stream's counters
  reporting, report,               \* where the RTCP thread is, and its sender report
  failed,                          \* selfDestruct() was called
  counted                          \* history: of each packet that was counted its time, and
                                   \* the octets of all the packets up to it

countVars == <<spc, soc, timestamp, rtpPayload>>
writerVars == <<writing, packet, cseq, failed, counted>>
reporterVars == <<reporting, report>>
rtpVars == <<protocol, playing, ticks, writerVars, countVars, reporterVars>>

IsRtp == protocol \in {"rtp", "rtptcp"}   \* the protocols with sequence numbers and RTCP
NoPacket == [octets |-> 0, stamp |-> 0, cseq |-> 0]
NoReport == [timestamp |-> 0, spc |-> 0, soc |-> 0, words |-> <<>>, length |-> 0]
Packets == [octets : {0} \cup DataSizes, stamp : 0..MaxTime, cseq : 0..CseqMod-1]

RtpReportsTypeOK ==
  /\ protocol \in Protocols /\ playing \in BOOLEAN /\ failed \in BOOLEAN
  /\ ticks \in 0..MaxTime /\ cseq \in 0..CseqMod-1
  /\ writing \in {"read", "spc", "soc", "timestamp", "write"} /\ packet \in Packets
  /\ {spc, soc} \subseteq 0..CounterMod-1 /\ timestamp \in 0..MaxTime /\ rtpPayload \in Nat
  /\ reporting \in {"wait", "timestamp", "spc", "soc", "app", "send"}
  /\ report \in [timestamp : 0..MaxTime, spc : 0..CounterMod-1, soc : 0..CounterMod-1,
                 words : Seq(Nat), length : Nat]
  /\ counted \in Seq([stamp : 0..MaxTime, octets : Nat])

-----------------------------------------------------------------------------
(* The streaming thread *)

\* Numbers and stamps a packet: one of data, or one of null packets when there is no data.
BeginPacket(octets) ==
  /\ writing = "read" /\ playing /\ Len(counted) < MaxPackets
  /\ writing' = "spc"
  /\ cseq' = IF IsRtp THEN (cseq + 1) % CseqMod ELSE cseq
  /\ packet' = [octets |-> octets, stamp |-> ticks, cseq |-> cseq']
  /\ UNCHANGED <<protocol, playing, ticks, failed, counted, countVars, reporterVars>>

\* The octets of the first n packets that were counted
OctetsOf(n) == IF n = 0 THEN 0 ELSE counted[n].octets

\* Stream::addRtpData(), one atomic variable after the other.
CountPacket ==
  /\ writing = "spc" /\ writing' = "soc"
  /\ spc' = (spc + 1) % CounterMod
  /\ counted' = Append(counted, [stamp |-> packet.stamp,
                                 octets |-> OctetsOf(Len(counted)) + packet.octets])
  /\ UNCHANGED <<soc, timestamp, rtpPayload>>
CountOctets ==
  /\ writing = "soc" /\ writing' = "timestamp"
  /\ soc' = (soc + packet.octets) % CounterMod /\ rtpPayload' = rtpPayload + packet.octets
  /\ UNCHANGED <<spc, timestamp, counted>>
Stamp ==
  /\ writing = "timestamp" /\ writing' = "write"
  /\ timestamp' = packet.stamp /\ UNCHANGED <<spc, soc, rtpPayload, counted>>

AddRtpData ==
  /\ CountPacket \/ CountOctets \/ Stamp
  /\ UNCHANGED <<protocol, playing, ticks, packet, cseq, failed, reporterVars>>

\* A packet that cannot be written was counted all the same.  The client is then given up;
\* what is written to a file is not looked at.
WriteRtp(ok) == protocol = "rtp" /\ failed' = (failed \/ ~ok)
WriteRtpTcp(ok) == protocol = "rtptcp" /\ failed' = (failed \/ ~ok)
WriteHttp(ok) == protocol = "http" /\ failed' = (failed \/ ~ok)
WriteTS == protocol = "tswriter" /\ UNCHANGED failed

WritePacket ==
  /\ writing = "write" /\ writing' = "read" /\ packet' = NoPacket
  /\ WriteTS \/ \E ok \in BOOLEAN : WriteRtp(ok) \/ WriteRtpTcp(ok) \/ WriteHttp(ok)
  /\ UNCHANGED <<protocol, playing, ticks, cseq, counted, countVars, reporterVars>>

-----------------------------------------------------------------------------
(* The RTCP thread *)

\* What getSR() would be if it read the octets before the packets, as the packet has them last.
GetSR_OctetsFirst ==
  \/ /\ reporting = "wait" /\ IsRtp /\ playing
     /\ reporting' = "timestamp" /\ report' = NoReport
  \/ /\ reporting = "timestamp"
     /\ reporting' = "spc" /\ report' = [report EXCEPT !.timestamp = timestamp]
  \/ /\ reporting = "spc"
     /\ reporting' = "soc" /\ report' = [report EXCEPT !.soc = soc]
  \/ /\ reporting = "soc"
     /\ reporting' = "app" /\ report' = [report EXCEPT !.spc = spc]

\* getSR(): timestamp, packet count and octet count.
GetSR ==
  \/ /\ reporting = "wait" /\ IsRtp /\ playing
     /\ reporting' = "timestamp" /\ report' = NoReport
  \/ /\ reporting = "timestamp"
     /\ reporting' = "spc" /\ report' = [report EXCEPT !.timestamp = timestamp]
  \/ /\ reporting = "spc"
     /\ reporting' = "soc" /\ report' = [report EXCEPT !.spc = spc]
  \/ /\ reporting = "soc"
     /\ reporting' = "app" /\ report' = [report EXCEPT !.soc = soc]

\* The length words of the packets: a quarter of their octets, less one.
SRLength == 28
GetSDES == 20
GetAPP(desc) == 16 + desc + (IF desc % 4 = 0 THEN 0 ELSE 4 - (desc % 4))
Words(octets) == (octets \div 4) - 1

Compound(desc) ==
  /\ reporting = "app" /\ reporting' = "send"
  /\ report' = [report EXCEPT
       !.words = <<Words(SRLength), Words(GetSDES), Words(GetAPP(desc))>>,
       !.length = SRLength + GetSDES + GetAPP(desc)]

\* A report that cannot be written is only logged.
SendRtcp == protocol = "rtp" /\ reporting = "send"
SendRtcpTcp == protocol = "rtptcp" /\ reporting = "send"
SendReport == (SendRtcp \/ SendRtcpTcp) /\ reporting' = "wait" /\ report' = NoReport

Reporter ==
  /\ GetSR \/ (\E desc \in DescSizes : Compound(desc)) \/ SendReport
  /\ UNCHANGED <<protocol, playing, ticks, writerVars, countVars>>

-----------------------------------------------------------------------------
(* The rest of the program *)

\* The clock is that of gettimeofday(), which may also be set back.
Tick ==
  /\ ticks' \in 0..MaxTime
  /\ UNCHANGED <<protocol, playing, writerVars, countVars, reporterVars>>

\* The threads stop at the head of their loops.
PauseOrRestart ==
  /\ playing' = ~playing
  /\ UNCHANGED <<protocol, ticks, writerVars, countVars, reporterVars>>

\* The session ends, with its threads, and the next one starts: its packets are numbered from
\* one again, while the counters and the SSRC of the stream go on.
StartAnew(p) ==
  /\ writing = "read" /\ reporting = "wait" /\ ~playing
  /\ protocol' = p /\ playing' = TRUE /\ cseq' = 0 /\ failed' = FALSE
  /\ UNCHANGED <<ticks, writing, packet, counted, countVars, reporterVars>>

RtpReportsInit ==
  /\ protocol \in Protocols /\ playing = TRUE /\ ticks = 0
  /\ writing = "read" /\ packet = NoPacket /\ cseq = 0 /\ failed = FALSE /\ counted = <<>>
  /\ spc = 0 /\ soc = 0 /\ timestamp = 0 /\ rtpPayload = 0
  /\ reporting = "wait" /\ report = NoReport

RtpReportsNext ==
  \/ \E octets \in DataSizes : BeginPacket(octets)
  \/ AddRtpData \/ WritePacket
  \/ Reporter \/ Tick \/ PauseOrRestart
  \/ \E p \in Protocols : StartAnew(p)

RtpReportsSpec == RtpReportsInit /\ [][RtpReportsNext]_rtpVars

-----------------------------------------------------------------------------

\* What the writer has counted of the packets that it has numbered: their octets, and the time
\* of one of them.
Counts ==
  /\ spc = Len(counted) % CounterMod
  /\ LET n == IF writing = "soc" THEN Len(counted) - 1 ELSE Len(counted) IN
     soc = OctetsOf(n) % CounterMod
  /\ writing = "soc" => OctetsOf(Len(counted)) = OctetsOf(Len(counted) - 1) + packet.octets
  /\ writing \in {"soc", "timestamp"} =>
       Len(counted) > 0 /\ counted[Len(counted)].stamp = packet.stamp
  /\ timestamp = 0 \/ \E k \in 1..Len(counted) : timestamp = counted[k].stamp

LengthsFit ==
  4 * (report.words[1] + 1) + 4 * (report.words[2] + 1) + 4 * (report.words[3] + 1) = report.length

\* What the RTCP thread has read so far fits the packets counted by now.
Reads ==
  /\ reporting = "spc" =>
       report.timestamp = 0 \/ \E k \in 1..Len(counted) : report.timestamp = counted[k].stamp
  /\ reporting \in {"soc", "app", "send"} =>
       \E n \in 0..Len(counted) :
         /\ report.spc = n % CounterMod
         /\ report.timestamp = 0 \/ \E k \in 1..n : report.timestamp = counted[k].stamp
         /\ reporting # "soc" =>
              \E m \in 0..Len(counted) : m >= n - 1 /\ report.soc = OctetsOf(m) % CounterMod
  /\ reporting = "send" => LengthsFit

\* Stream::addRtpData() counts the packet before its octets and stamps it last, getSR() reads
\* the time first, then packets and octets: a report that goes out has at least the octets of
\* all its packets but the last, no packet or octet that was not counted, and the time of
\* a packet that it counts, also when the clock is set back.  A client that follows the length words through it comes
\* to its end.
ReportFits ==
  reporting = "send" =>
    /\ \E n, m \in 0..Len(counted) :
         /\ m >= n - 1
         /\ report.spc = n % CounterMod /\ report.soc = OctetsOf(m) % CounterMod
         /\ report.timestamp = 0 \/ \E k \in 1..n : report.timestamp = counted[k].stamp
    /\ LengthsFit

RtpReportsInv == RtpReportsTypeOK /\ Counts /\ Reads
===============================================================================
