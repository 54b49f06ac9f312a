------------------------------- MODULE ServerProofs -------------------------------
(***************************************************************************)
(* What the servers send and read, for every value of the constants: whole *)
(* requests and frames on a connection, replies that fit their requests,   *)
(* RTCP reports that fit the packets, streams for the sessions that a      *)
(* description promises one, and a description that tunes what it tells of.*)
(***************************************************************************)
EXTENDS RtspConnection, Replies, RtpReports, Frontends, ChannelText, SequenceTheorems,
        FiniteSetTheorems, WellFoundedInduction, TLAPS

-----------------------------------------------------------------------------
(* RtspConnection: what a connection carries stays whole *)

\* The size of a request: its head and its body.
LEMMA RequestFacts ==
  ASSUME NEW r \in RtspRequests
  PROVE  r.body \in Nat /\ Bytes(r) \in Nat /\ Bytes(r) = HeadLen + r.body
         /\ HeadLen \in Nat /\ FieldLen \in Nat /\ FieldLen < HeadLen
         /\ Bytes(r) > 0
BY RtspAssumption, SMT DEF RtspRequests, Bytes

\* What the server thread makes of what was read: the length of a body is a number, and of the
\* first request that has one.
LEMMA LengthFacts ==
  ASSUME ReadingInv, Len(queue) > 0, NEW n \in Nat
  PROVE  /\ ContentLength(n) \in Nat /\ ActualSize(n) \in Nat /\ SizeWith(n) \in Nat
         /\ queue[1] \in RtspRequests
         /\ n >= HeadLen /\ queue[1].body > 0 => ContentLength(n) = queue[1].body
         /\ queue[1].body = 0 /\ ContentLength(n) > 0 => n >= Bytes(queue[1])
<1>1. queue[1] \in RtspRequests /\ (Len(queue) = 2 => queue[2] \in RtspRequests)
  BY DEF ReadingInv
<1>2. queue[1].body \in Nat /\ Bytes(queue[1]) \in Nat /\ HeadLen \in Nat /\ FieldLen \in Nat /\ FieldLen < HeadLen
  BY <1>1, RequestFacts
<1>3. Len(queue) = 2 => queue[2].body \in Nat
  BY <1>1, RequestFacts
<1>4. ContentLength(n) \in Nat
  BY <1>2, <1>3 DEF ContentLength
<1>5. ActualSize(n) \in Nat /\ SizeWith(n) \in Nat
  BY <1>2, <1>4 DEF ActualSize, SizeWith, ReadingInv
<1>6. n >= HeadLen /\ queue[1].body > 0 => ContentLength(n) = queue[1].body
  BY <1>2 DEF ContentLength
<1>7. queue[1].body = 0 /\ ContentLength(n) > 0 => n >= Bytes(queue[1])
  BY <1>2 DEF ContentLength
<1> QED BY <1>1, <1>4, <1>5, <1>6, <1>7

\* A message that is taken for complete, and is not, was taken so before its header's end.
LEMMA DoneIsWhole ==
  ASSUME ReadingInv, Arrives, Done(sent), sent < Bytes(queue[1])
  PROVE  ~end /\ sent < HeadLen
<1>1. Len(queue) > 0 /\ sent \in Nat
  BY DEF ReadingInv, Arrives
<1>2. queue[1] \in RtspRequests
  BY <1>1, LengthFacts
<1> DEFINE c == ContentLength(sent)
<1>3. /\ c \in Nat
      /\ sent >= HeadLen /\ queue[1].body > 0 => c = queue[1].body
      /\ queue[1].body = 0 /\ c > 0 => sent >= Bytes(queue[1])
  BY <1>1, LengthFacts
<1>4. queue[1].body \in Nat /\ Bytes(queue[1]) = HeadLen + queue[1].body /\ HeadLen \in Nat
  BY <1>2, RequestFacts
<1>5. CASE end
  <2>1. sent = actual
    BY <1>5 DEF Done, SizeWith
  <2>2. actual # Bytes(queue[1])
    BY <2>1, <1>1, <1>4
  <2>3. raw >= Bytes(queue[1]) /\ raw \in Nat /\ raw <= sent
    BY <1>5, <2>2 DEF ReadingInv
  <2> QED BY <2>3, <1>1, <1>4
<1>6. CASE ~end /\ c = 0
  <2>1. sent >= HeadLen
    BY <1>6 DEF Done
  <2> QED BY <2>1, <1>1, <1>3, <1>4, <1>6
<1>7. CASE ~end /\ c > 0
  <2>1. sent = c + (IF sent >= HeadLen THEN HeadLen ELSE 3)
    BY <1>7, <1>3 DEF Done, SizeWith, ActualSize
  <2>2. ~(sent >= HeadLen)
    BY <2>1, <1>1, <1>3, <1>4, <1>7
  <2> QED BY <2>2, <1>7, <1>1, <1>4
<1> QED BY <1>3, <1>5, <1>6, <1>7

-----------------------------------------------------------------------------

\* Nothing is read of no request.
LEMMA NothingRead ==
  ASSUME queue \in Seq(RtspRequests), Len(queue) = 0,
         sent = 0, raw = 0, actual = 0, end = FALSE
  PROVE  ReadingInv
<1>1. Len(queue) \in 0..2
  OBVIOUS
<1>2. sent \in Nat /\ raw \in Nat /\ raw <= sent /\ actual \in Nat
  OBVIOUS
<1>3. end \in BOOLEAN
  OBVIOUS
<1>4. ~end
  OBVIOUS
<1> QED BY <1>1, <1>2, <1>3, <1>4, Zenon DEF ReadingInv

LEMMA InitInv == RtspInit => ConnectionInv
<1> SUFFICES ASSUME RtspInit PROVE ConnectionInv
  OBVIOUS
<1>1. ReadingInv
  <2>1. queue \in Seq(RtspRequests) /\ Len(queue) = 0
    BY EmptySeq DEF RtspInit
  <2> QED BY <2>1, NothingRead DEF RtspInit
<1>2. WritingInv
  BY RtspAssumption DEF RtspInit, WritingInv, Writers, Streamers
<1> QED BY <1>1, <1>2 DEF RtspInit, ConnectionInv, NothingMixed, FramesNeverMix, WholeRequests

\* The steps of the client: the first request stays the first.
LEMMA ClientInv ==
  ASSUME ConnectionInv,
         (\E r \in RtspRequests : Ask(r) \/ Pipeline(r)) \/ SendMore \/ Drain \/ Leave
  PROVE  ConnectionInv'
<1>1. WritingInv' /\ NothingMixed'
  BY DEF ConnectionInv, WritingInv, NothingMixed, FramesNeverMix, WholeRequests, Ask, Pipeline,
    SendMore, Drain, Leave, outVars, ClientOnly
<1>2. ASSUME NEW r \in RtspRequests, Ask(r) PROVE ReadingInv'
  <2>1. Bytes(r) \in Nat
    BY RequestFacts
  <2>2. sent = 0 /\ raw = 0 /\ ~end
    BY <1>2 DEF ConnectionInv, ReadingInv, Ask
  <2> QED BY <1>2, <2>1, <2>2 DEF ConnectionInv, ReadingInv, Ask, ClientOnly
<1>3. ASSUME NEW r \in RtspRequests, Pipeline(r) PROVE ReadingInv'
  <2>1. Bytes(r) \in Nat
    BY RequestFacts
  <2>2. queue' \in Seq(RtspRequests) /\ Len(queue') = 2 /\ queue'[1] = queue[1]
    <3>1. queue \in Seq(RtspRequests) /\ Len(queue) = 1 /\ queue' = Append(queue, r)
      BY <1>3 DEF ConnectionInv, ReadingInv, Pipeline
    <3>2. /\ Append(queue, r) \in Seq(RtspRequests)
          /\ Len(Append(queue, r)) = 2
          /\ Append(queue, r)[1] = queue[1]
      <4>1. 1 \in 1..Len(queue)
        BY <3>1
      <4> QED BY ONLY <3>1, <4>1, r \in RtspRequests, AppendProperties
    <3> QED BY ONLY <3>1, <3>2
  <2>3. Bytes(queue[1])' = Bytes(queue[1])
    <3>1. queue'[1] = queue[1]
      BY <2>2
    <3> QED BY ONLY <3>1, Zenon DEF Bytes
  <2>4. /\ Len(queue') \in 0..2 /\ Len(queue') > 0
        /\ sent' \in Nat /\ raw' \in Nat /\ raw' <= sent' /\ actual' \in Nat /\ end' \in BOOLEAN
    <3>1. Len(queue') \in 0..2 /\ Len(queue') > 0
      BY <2>2
    <3>2. sent \in Nat /\ raw \in Nat /\ raw <= sent /\ actual \in Nat /\ end \in BOOLEAN
      BY DEF ConnectionInv, ReadingInv
    <3>3. sent' = sent + Bytes(r) /\ raw' = raw /\ actual' = actual /\ end' = end
      BY <1>3 DEF Pipeline, ClientOnly
    <3> QED BY <2>1, <3>1, <3>2, <3>3
  <2>5. end' => actual' = Bytes(queue[1])' \/ raw' >= Bytes(queue[1])'
    BY <1>3, <2>3 DEF ConnectionInv, ReadingInv, Pipeline, ClientOnly
  <2>6. Len(queue') # 0
    BY <2>2
  <2> QED BY <2>2, <2>4, <2>5, <2>6, Zenon DEF ReadingInv
<1>4. ASSUME SendMore PROVE ReadingInv'
  <2>1. Total \in Nat /\ Len(queue) > 0
    <3>1. queue \in Seq(RtspRequests) /\ Len(queue) \in 0..2 /\ sent \in Nat
      BY DEF ConnectionInv, ReadingInv
    <3>2. queue # <<>> /\ Len(queue) > 0
      BY <1>4, <3>1, EmptySeq DEF SendMore, Total
    <3>3. queue[1] \in RtspRequests /\ (Len(queue) = 2 => queue[2] \in RtspRequests)
      BY <3>1, <3>2
    <3>4. Bytes(queue[1]) \in Nat /\ (Len(queue) = 2 => Bytes(queue[2]) \in Nat)
      BY <3>3, RequestFacts
    <3> QED BY <3>2, <3>4 DEF Total
  <2>2. sent' \in Nat /\ sent <= sent'
    BY <1>4, <2>1 DEF SendMore, ConnectionInv, ReadingInv
  <2> QED BY <1>4, <2>1, <2>2 DEF ConnectionInv, ReadingInv, SendMore, ClientOnly, Bytes
<1>5. ASSUME Drain \/ Leave PROVE ReadingInv'
  BY <1>5 DEF ConnectionInv, ReadingInv, Drain, Leave, ClientOnly, Bytes
<1> QED BY <1>1, <1>2, <1>3, <1>4, <1>5 DEF ConnectionInv

\* The steps of the server thread.
LEMMA ServerInv ==
  ASSUME ConnectionInv, ServerStep
  PROVE  ConnectionInv'
<1>1. ASSUME ReadMore PROVE ConnectionInv'
  <2>1. WritingInv' /\ NothingMixed'
    BY <1>1 DEF ConnectionInv, WritingInv, NothingMixed, FramesNeverMix, WholeRequests, ReadMore,
      Arrives, outVars
  <2>2. Len(queue) > 0 /\ sent \in Nat /\ ReadingInv
    BY <1>1 DEF ConnectionInv, ReadingInv, ReadMore, Arrives
  <2>3. queue[1] \in RtspRequests
    BY <2>2, LengthFacts
  <2>4. /\ ContentLength(sent) \in Nat /\ SizeWith(sent) \in Nat
        /\ sent >= HeadLen /\ queue[1].body > 0 => ContentLength(sent) = queue[1].body
        /\ queue[1].body = 0 /\ ContentLength(sent) > 0 => sent >= Bytes(queue[1])
    BY <2>2, LengthFacts
  <2>5. queue[1].body \in Nat /\ Bytes(queue[1]) = HeadLen + queue[1].body /\ HeadLen \in Nat
    BY <2>3, RequestFacts
  <2>6. ASSUME end' PROVE SizeWith(sent) = Bytes(queue[1]) \/ sent >= Bytes(queue[1])
    <3>1. CASE end
      <4>1. SizeWith(sent) = actual
        BY <3>1 DEF SizeWith
      <4>2. raw \in Nat /\ raw <= sent /\ (actual = Bytes(queue[1]) \/ raw >= Bytes(queue[1]))
        BY <2>2, <3>1 DEF ReadingInv
      <4> QED BY <4>1, <4>2, <2>2, <2>5
    <3>2. CASE ~end
      <4>1. sent >= HeadLen
        BY <1>1, <2>6, <3>2 DEF ReadMore
      <4>2. ContentLength(sent) > 0
        BY <1>1, <2>4, <3>2, <4>1 DEF ReadMore, Done
      <4>3. SizeWith(sent) = ContentLength(sent) + HeadLen
        BY <3>2, <4>1, <4>2 DEF SizeWith, ActualSize
      <4> QED BY <4>1, <4>2, <4>3, <2>2, <2>4, <2>5
    <3> QED BY <3>1, <3>2
  <2>7. ReadingInv'
    BY <1>1, <2>2, <2>4, <2>6 DEF ReadingInv, ReadMore, Bytes
  <2> QED BY <2>1, <2>7 DEF ConnectionInv
<1>2. ASSUME Process PROVE ConnectionInv'
  <2>1. ReadingInv'
    <3>1. queue' \in Seq(RtspRequests) /\ Len(queue') = 0
      BY <1>2, EmptySeq DEF Process
    <3>2. sent' = 0 /\ raw' = 0 /\ actual' = 0 /\ end' = FALSE
      BY <1>2 DEF Process
    <3>3. Len(queue') \in 0..2 /\ sent' \in Nat /\ raw' \in Nat /\ raw' <= sent' /\ actual' \in Nat
      BY <3>1, <3>2
    <3> QED BY <3>1, <3>2, <3>3, Zenon DEF ReadingInv
  <2>2. rest["reply"] = 0 /\ holder' = holder
    BY <1>2 DEF Process, Arrives, ConnectionInv, WritingInv, Writers
  <2>3. WritingInv'
    <3>1. rest' \in [Writers -> 0..FrameSize] /\ \A w \in Streamers : rest'[w] = rest[w]
      BY <1>2, RtspAssumption DEF Process, ConnectionInv, WritingInv, Writers, Streamers
    <3>2. ~streaming' => holder' = "none"
      BY <1>2 DEF Process, ConnectionInv, WritingInv
    <3>3. server' = "reply" /\ overlapped' = streaming'
      BY <1>2 DEF Process
    <3> QED BY <2>2, <3>1, <3>2, <3>3 DEF ConnectionInv, WritingInv
  <2>4. NothingMixed'
    <3>1. hasty' => wrapped'
      <4>1. ReadingInv /\ Arrives /\ Done(sent)
        BY <1>2 DEF ConnectionInv, Process
      <4>2. CASE sent < Bytes(queue[1])
        BY <1>2, <4>1, <4>2, DoneIsWhole DEF Process
      <4>3. CASE ~(sent < Bytes(queue[1]))
        BY <1>2, <4>3 DEF Process
      <4> QED BY <4>2, <4>3
    <3> QED BY <1>2, <3>1 DEF Process, ConnectionInv, NothingMixed, FramesNeverMix, WholeRequests
  <2> QED BY <2>1, <2>3, <2>4 DEF ConnectionInv
<1>3. ASSUME Close PROVE ConnectionInv'
  <2>1. rest["reply"] = 0
    BY <1>3 DEF Close, ConnectionInv, WritingInv, Writers
  <2>2. WritingInv'
    BY <1>3, <2>1 DEF Close, ConnectionInv, WritingInv, outVars
  <2>3. ReadingInv'
    <3>1. queue' \in Seq(RtspRequests) /\ Len(queue') = 0
      BY <1>3, EmptySeq DEF Close
    <3>2. sent' = 0 /\ raw' = 0 /\ actual' = 0 /\ end' = FALSE
      BY <1>3 DEF Close
    <3>3. Len(queue') \in 0..2 /\ sent' \in Nat /\ raw' \in Nat /\ raw' <= sent' /\ actual' \in Nat
      BY <3>1, <3>2
    <3> QED BY <3>1, <3>2, <3>3, Zenon DEF ReadingInv
  <2>4. NothingMixed'
    BY <1>3 DEF Close, ConnectionInv, NothingMixed, FramesNeverMix, WholeRequests, outVars
  <2> QED BY <2>2, <2>3, <2>4 DEF ConnectionInv
<1>4. ASSUME EndSession PROVE ConnectionInv'
  <2>1. WritingInv' /\ NothingMixed'
    BY <1>4 DEF EndSession, ConnectionInv, WritingInv, NothingMixed, FramesNeverMix, WholeRequests,
      inVars, outVars
  <2>2. ReadingInv'
    BY <1>4 DEF EndSession, ConnectionInv, ReadingInv, inVars, Bytes
  <2> QED BY <2>1, <2>2 DEF ConnectionInv
<1> QED BY <1>1, <1>2, <1>3, <1>4 DEF ServerStep

\* The steps of the writers: of two that are in the middle of their frames none is a reply that
\* was begun while the stream did not play, and they are not both streamers.
LEMMA WriterInv ==
  ASSUME ConnectionInv, (\E w \in Streamers : Frame(w)) \/ (\E w \in Writers : WriterStep(w))
  PROVE  ConnectionInv'
<1>1. ReadingInv'
  <2>1. UNCHANGED inVars
    BY DEF Frame, WriterStep, Write, WriteEnds
  <2> QED BY <2>1 DEF ConnectionInv, ReadingInv, inVars, Bytes
<1>2. WholeRequests'
  BY DEF ConnectionInv, NothingMixed, WholeRequests, Frame, WriterStep, Write, WriteEnds, inVars
<1>3. ASSUME NEW w \in Streamers, Frame(w) PROVE WritingInv' /\ FramesNeverMix'
  <2>1. FramesNeverMix'
    BY <1>3 DEF Frame, ConnectionInv, NothingMixed, FramesNeverMix
  <2>2. rest' \in [Writers -> 0..FrameSize]
    BY <1>3, RtspAssumption DEF Frame, ConnectionInv, WritingInv, Writers, Streamers
  <2>3. \A v \in Writers \ {w} : rest'[v] = rest[v]
    BY <1>3 DEF Frame, ConnectionInv, WritingInv
  <2>4. \A v \in Streamers : rest'[v] > 0 => holder' = v
    BY <1>3, <2>3 DEF Frame, ConnectionInv, WritingInv, Writers, Streamers
  <2>5. rest'["reply"] = rest["reply"]
    BY <2>3 DEF Writers, Streamers
  <2> QED BY <1>3, <2>1, <2>2, <2>4, <2>5 DEF Frame, ConnectionInv, WritingInv
<1>4. ASSUME NEW w \in Writers, WriterStep(w) PROVE WritingInv'
  <2>1. rest[w] > 0 /\ rest \in [Writers -> 0..FrameSize]
    BY <1>4 DEF WriterStep, Write, WriteEnds, ConnectionInv, WritingInv
  <2>2. /\ rest' \in [Writers -> 0..FrameSize]
        /\ \A v \in Writers \ {w} : rest'[v] = rest[v]
        /\ rest'[w] > 0 => holder' = holder /\ server' = server
        /\ rest'[w] = 0 => Returns(w)
    <3>1. CASE Write(w)
      <4>1. rest' = [rest EXCEPT ![w] = rest[w] - 1] /\ rest[w] - 1 \in 0..FrameSize
        BY <2>1, <3>1, RtspAssumption DEF Write
      <4>2. rest[w] = 1 => Returns(w)
        BY <3>1 DEF Write
      <4>3. rest[w] # 1 => holder' = holder /\ server' = server
        BY <3>1 DEF Write
      <4> QED BY <2>1, <4>1, <4>2, <4>3
    <3>2. CASE WriteEnds(w)
      BY <2>1, <3>2, RtspAssumption DEF WriteEnds
    <3> QED BY <1>4, <3>1, <3>2 DEF WriterStep
  <2>3. streaming' = streaming /\ overlapped' = overlapped
    BY <1>4 DEF WriterStep, Write, WriteEnds
  <2>4. CASE w \in Streamers
    <3>1. holder = w
      BY <2>1, <2>4 DEF ConnectionInv, WritingInv
    <3>2. \A v \in Streamers \ {w} : rest[v] = 0
      BY <2>1, <3>1 DEF ConnectionInv, WritingInv, Writers
    <3>3. server' = server /\ w # "reply"
      BY <2>1, <2>2, <2>4 DEF Returns, Streamers
    <3>4. rest'["reply"] = rest["reply"]
      BY <2>2, <3>3 DEF Writers
    <3>5. \A v \in Streamers : rest'[v] > 0 => holder' = v
      BY <2>2, <3>1, <3>2 DEF Writers
    <3>6. holder' \in Streamers \cup {"none"} /\ (~streaming' => holder' = "none")
      BY <2>1, <2>2, <2>3, <3>1 DEF Returns, ConnectionInv, WritingInv
    <3> QED BY <2>2, <2>3, <3>3, <3>4, <3>5, <3>6 DEF ConnectionInv, WritingInv
  <2>5. CASE w = "reply"
    <3>1. \A v \in Streamers : rest'[v] = rest[v]
      BY <2>2, <2>5 DEF Writers, Streamers
    <3>2. holder' = holder
      BY <2>1, <2>2, <2>5 DEF Returns, ConnectionInv, WritingInv, Streamers
    <3>3. rest'["reply"] > 0 => server' = server /\ rest["reply"] > 0
      BY <2>1, <2>2, <2>5
    <3> QED BY <2>2, <2>3, <3>1, <3>2, <3>3 DEF ConnectionInv, WritingInv
  <2> QED BY <2>4, <2>5 DEF Writers
<1>5. ASSUME NEW w \in Writers, WriterStep(w) PROVE FramesNeverMix'
  <2>1. ASSUME NEW v \in Writers \ {w}, Begun(v), rest[w] > 0, "reply" \in {v, w} => ~overlapped
        PROVE  FALSE
    <3>1. rest[v] > 0 /\ rest[w] > 0
      BY <2>1, RtspAssumption DEF Begun
    <3>2. CASE v \in Streamers /\ w \in Streamers
      BY <3>1, <3>2, <2>1 DEF ConnectionInv, WritingInv
    <3>3. CASE v = "reply" /\ w \in Streamers
      BY <3>1, <3>3, <2>1 DEF ConnectionInv, WritingInv, Streamers
    <3>4. CASE w = "reply" /\ v \in Streamers
      BY <3>1, <3>4, <2>1 DEF ConnectionInv, WritingInv, Streamers
    <3> QED BY <2>1, <3>2, <3>3, <3>4 DEF Writers
  <2>2. CASE Write(w)
    BY <2>1, <2>2 DEF Write, ConnectionInv, NothingMixed, FramesNeverMix
  <2>3. CASE WriteEnds(w)
    BY <2>3 DEF WriteEnds, ConnectionInv, NothingMixed, FramesNeverMix
  <2> QED BY <1>5, <2>2, <2>3 DEF WriterStep
<1> QED BY <1>1, <1>2, <1>3, <1>4, <1>5 DEF ConnectionInv, NothingMixed

LEMMA NextInv ==
  ASSUME ConnectionInv, [RtspNext]_rtspVars
  PROVE  ConnectionInv'
<1>1. CASE RtspNext
  BY <1>1, ClientInv, ServerInv, WriterInv DEF RtspNext, StreamerStep, Writers
<1>2. CASE UNCHANGED rtspVars
  BY <1>2 DEF ConnectionInv, ReadingInv, WritingInv, NothingMixed, FramesNeverMix, WholeRequests,
    rtspVars, inVars, outVars, Bytes
<1> QED BY <1>1, <1>2

\* HttpcSocket and the writers of a connection: the invariant, for every size.
THEOREM ConnectionInvariant == RtspSpec => []ConnectionInv
BY InitInv, NextInv, PTL DEF RtspSpec

\* Before a write ends early frames of RTP and RTCP are whole, and so are replies that were begun
\* while the stream did not play; a request that is handled came whole, unless it was measured
\* before the end of its header was there.
THEOREM ConnectionStaysWhole == RtspSpec => []NothingMixed
<1>1. ConnectionInv => NothingMixed
  BY DEF ConnectionInv
<1> QED BY <1>1, ConnectionInvariant, PTL

-----------------------------------------------------------------------------
(* Replies: what is replied to a request *)

\* The IDs are numbers.
LEMMA NoIdIs == MaxIDs \in Nat /\ 0 \in 0..MaxIDs
<1>1. MaxIDs \in Nat BY RepliesAssumption, Zenon
<1> QED BY <1>1

\* Of some numbers one is the least.
LEMMA LeastIs ==
  ASSUME NEW S \in SUBSET Nat, S # {}
  PROVE  \E x \in S : \A y \in S : x <= y
<1>1. IsWellFoundedOn(OpToRel(<, Nat), Nat)
  BY NatLessThanWellFounded
<1>2. PICK x \in S : \A y \in S : <<y, x>> \notin OpToRel(<, Nat)
  BY <1>1, WFMin
<1>3. ASSUME NEW y \in S PROVE x <= y
  <2>1. x \in Nat /\ y \in Nat OBVIOUS
  <2>2. ~(y < x) BY <1>2, <2>1 DEF OpToRel
  <2> QED BY <2>1, <2>2
<1> QED BY <1>3

\* The stream that is found is one, and suits.
LEMMA FoundSuits ==
  ASSUME RepliesInv, NEW r \in StreamRequests, NEW new, FindStream(r, new) # Absent
  PROVE  FindStream(r, new) \in Feeds /\ Suits(FindStream(r, new), r, new)
<1> DEFINE fits == {f \in Feeds : Suits(f, r, new)}
<1>0. NumStreams \in Nat BY RepliesAssumption, Zenon
<1>1. fits \in SUBSET Nat BY <1>0 DEF Feeds
<1>2. ~(fits = {} \/ (r.session = Absent /\ ~r.params))
  BY DEF FindStream
<1>3. CASE r.fe \in fits
  <2>1. FindStream(r, new) = r.fe BY <1>2, <1>3 DEF FindStream
  <2> QED BY <2>1, <1>3
<1>4. CASE r.fe \notin fits
  <2>1. FindStream(r, new) = CHOOSE f \in fits : \A g \in fits : f <= g BY <1>2, <1>4 DEF FindStream
  <2>2. \E f \in fits : \A g \in fits : f <= g BY <1>1, <1>2, LeastIs
  <2>3. FindStream(r, new) \in fits
    <3> HIDE DEF fits
    <3> QED BY <2>1, <2>2, Zenon
  <2> QED BY <2>3
<1> QED BY <1>3, <1>4

-----------------------------------------------------------------------------
(* One request *)

Types == {"none", "tcp", "unicast", "multicast", "http"}

\* A request in or for the session id that takes the slot s
Takes(r, s, id) ==
  /\ r \in StreamRequests /\ s \in ClientSlots /\ id \in 1..MaxIDs
  /\ IF r.session = Absent THEN s.session = Absent /\ s.type = "none"
                           ELSE s.session = id /\ r.session = id

\* What comes of it: the slot is free again, or in use by the session, which was told
RightOutcome(r, s, id, out) ==
  /\ Fits(r, out.reply) /\ out.stream \in ClientSlots
  /\ out.reply.session \in {Absent, id}
  /\ \/ out.stream.session = Absent /\ out.stream.type = "none"
     \/ /\ out.stream.session = id
        /\ (\/ out.stream.type = "none" \/ out.reply.session = id
            \/ r.method = "GET" \/ (s.session = id /\ s.type # "none"))

\* The fields of a request.
LEMMA RequestIs ==
  ASSUME NEW r, r \in StreamRequests
  PROVE  /\ r.method \in Methods /\ r.session \in 0..given /\ r.cseq \in Numbers
         /\ (r.transport # "none" => r.method \in {"SETUP", "GET"})
         /\ (r.method = "GET" => r.transport \in {"none", "multicast"})
BY DEF StreamRequests

\* What processing a request makes of its stream.
LEMMA ProcessedIs ==
  ASSUME NEW r, NEW s, NEW id, Takes(r, s, id)
  PROVE  /\ Processed(s, r, id) \in ClientSlots /\ Processed(s, r, id).session = id
         /\ Processed(s, r, id).type = TypeFor(s, r)
         /\ (r.cseq = 0 \/ Processed(s, r, id).cseq = r.cseq)
<1>1. s \in ClientSlots /\ id \in 0..MaxIDs /\ r.cseq \in Numbers
  BY RequestIs, NoIdIs DEF Takes
<1> DEFINE number == IF r.cseq = 0 THEN s.cseq ELSE r.cseq
           described == s.described \/ (r.params /\ r.method \in {"SETUP", "PLAY", "GET"})
           type == TypeFor(s, r)
           a == [s EXCEPT !.session = id]
           b == [a EXCEPT !.cseq = number]
           c == [b EXCEPT !.type = type]
           d == [c EXCEPT !.described = described]
<1>2. type \in Types BY <1>1 DEF TypeFor, ClientSlots, Types
<1>3. number \in Numbers \cup {0} BY <1>1 DEF ClientSlots
<1>4. described \in BOOLEAN BY Zenon
<1>5. Processed(s, r, id) = d BY <1>1 DEF Processed, ClientSlots
<1> HIDE DEF number, described, type
<1>6. a \in ClientSlots /\ a.session = id BY <1>1 DEF ClientSlots
<1>7. b \in ClientSlots /\ b.session = id /\ b.cseq = number
  <2> HIDE DEF a
  <2> QED BY <1>3, <1>6 DEF ClientSlots
<1>8. c \in ClientSlots /\ c.session = id /\ c.cseq = number /\ c.type = type
  <2> HIDE DEF b
  <2> QED BY <1>2, <1>7 DEF ClientSlots, Types
<1>9. d \in ClientSlots /\ d.session = id /\ d.cseq = number /\ d.type = type
  <2> HIDE DEF c
  <2> QED BY <1>4, <1>8 DEF ClientSlots
<1> QED BY <1>5, <1>9 DEF number, type

\* A stream that was freed is free.
LEMMA FreeAgain ==
  ASSUME NEW s \in ClientSlots
  PROVE  /\ [FreeStream EXCEPT !.cseq = s.cseq] \in ClientSlots
         /\ [FreeStream EXCEPT !.cseq = s.cseq].session = Absent
         /\ [FreeStream EXCEPT !.cseq = s.cseq].type = "none"
<1>1. 0 \in 0..MaxIDs BY NoIdIs
<1> QED BY <1>1 DEF ClientSlots, FreeStream, Absent

\* The fields of each reply.
LEMMA RepliesAre ==
  ASSUME NEW r, NEW status, NEW number, NEW octets
  PROVE  /\ NoContent(status, number).status = status /\ NoContent(status, number).cseq = number
         /\ NoContent(status, number).session = Absent
         /\ NoContent(status, number).body = NoContent(status, number).announced
         /\ WithContent(status, number, octets).status = status
         /\ WithContent(status, number, octets).cseq = number
         /\ WithContent(status, number, octets).session = Absent
         /\ WithContent(status, number, octets).body = WithContent(status, number, octets).announced
BY DEF NoContent, WithContent, NoReply

\* The fields of an outcome.
LEMMA OutcomeIs ==
  ASSUME NEW s, NEW reply
  PROVE  Outcome(s, reply).stream = s /\ Outcome(s, reply).reply = reply
BY DEF Outcome

\* SETUP and PLAY that are carried out, with a reply that tells the session
LEMMA SetupRight ==
  ASSUME NEW r, NEW s, NEW id, Takes(r, s, id), r.method = "SETUP"
  PROVE  RightOutcome(r, s, id, Dispatch(r, Processed(s, r, id)))
<1> DEFINE t == Processed(s, r, id)
           reply == methodSetup(t)
           known == t.type \in {"tcp", "unicast", "multicast"}
<1>1. t \in ClientSlots /\ t.session = id /\ t.type = TypeFor(s, r) /\ (r.cseq = 0 \/ t.cseq = r.cseq)
  BY ProcessedIs
<1>2. Dispatch(r, t) = SetupOrPlay(r, t, reply) BY DEF Dispatch
<1> HIDE DEF t
<1>3. id \in 1..MaxIDs /\ s \in ClientSlots /\ (r.session = Absent \/ r.session = id) BY DEF Takes
<1>4. CASE Updates(t, r)
  <2>1. Dispatch(r, t).stream = t /\ Dispatch(r, t).reply = reply
    BY <1>2, <1>4, OutcomeIs DEF SetupOrPlay
  <2>2. /\ reply.cseq = t.cseq /\ reply.announced = reply.body
        /\ reply.status = (IF known THEN 200 ELSE 461)
        /\ reply.session = (IF known THEN t.session ELSE Absent)
    BY DEF methodSetup, NoReply
  <2>3. Fits(r, reply) BY <2>2, <1>1, <1>3 DEF Fits
  <2>4. CASE known BY <2>1, <2>2, <2>3, <2>4, <1>1 DEF RightOutcome, t
  <2>5. CASE ~known
    <3>1. t.type = "none" \/ (s.session = id /\ s.type # "none")
      <4>1. CASE s.type = "none"
        <5>1. t.type \in {"none", "tcp", "unicast", "multicast"} BY <1>1, <4>1 DEF TypeFor
        <5> QED BY <5>1, <2>5
      <4>2. CASE s.type # "none" BY <4>2 DEF Takes
      <4> QED BY <4>1, <4>2
    <3> QED BY <2>1, <2>2, <2>3, <2>5, <3>1, <1>1 DEF RightOutcome, t
  <2> QED BY <2>4, <2>5
<1>5. CASE ~Updates(t, r)
  <2>1. /\ Dispatch(r, t).stream = [FreeStream EXCEPT !.cseq = t.cseq]
        /\ Dispatch(r, t).reply = NoContent(408, r.cseq)
    BY <1>2, <1>5, OutcomeIs DEF SetupOrPlay
  <2>2. Fits(r, NoContent(408, r.cseq)) BY RepliesAre DEF Fits
  <2> QED BY <2>1, <2>2, <1>1, RepliesAre, FreeAgain DEF RightOutcome, t
<1> QED BY <1>4, <1>5 DEF t

\* What each method makes of the stream, and replies: PLAY,
LEMMA PlayRight ==
  ASSUME NEW r, NEW s, NEW id, Takes(r, s, id), r.method = "PLAY"
  PROVE  RightOutcome(r, s, id, Dispatch(r, Processed(s, r, id)))
<1> DEFINE t == Processed(s, r, id)
           reply == methodPlay(t)
<1>1. t \in ClientSlots /\ t.session = id /\ (r.cseq = 0 \/ t.cseq = r.cseq)
  BY ProcessedIs
<1>2. Dispatch(r, t) = SetupOrPlay(r, t, reply) BY DEF Dispatch
<1> HIDE DEF t
<1>3. r.session = Absent \/ r.session = id BY DEF Takes
<1>4. CASE Updates(t, r)
  <2>1. Dispatch(r, t).stream = t /\ Dispatch(r, t).reply = reply
    BY <1>2, <1>4, OutcomeIs DEF SetupOrPlay
  <2>2. reply.cseq = t.cseq /\ reply.announced = reply.body /\ reply.session = t.session
    BY DEF methodPlay, NoReply
  <2>3. Fits(r, reply) BY <2>2, <1>1, <1>3 DEF Fits
  <2> QED BY <2>1, <2>2, <2>3, <1>1 DEF RightOutcome, t
<1>5. CASE ~Updates(t, r)
  <2>1. /\ Dispatch(r, t).stream = [FreeStream EXCEPT !.cseq = t.cseq]
        /\ Dispatch(r, t).reply = NoContent(408, r.cseq)
    BY <1>2, <1>5, OutcomeIs DEF SetupOrPlay
  <2>2. Fits(r, NoContent(408, r.cseq)) BY RepliesAre DEF Fits
  <2> QED BY <2>1, <2>2, <1>1, RepliesAre, FreeAgain DEF RightOutcome, t
<1> QED BY <1>4, <1>5 DEF t

\* GET,
LEMMA GetRight ==
  ASSUME NEW r, NEW s, NEW id, Takes(r, s, id), r.method = "GET"
  PROVE  RightOutcome(r, s, id, Dispatch(r, Processed(s, r, id)))
<1> DEFINE t == Processed(s, r, id)
           reply == IF r.transport = "multicast" THEN WithContent(200, 0, 1) ELSE NoContent(200, 0)
<1>1. t \in ClientSlots /\ t.session = id BY ProcessedIs
<1>2. Dispatch(r, t) = Get(r, t) BY DEF Dispatch
<1> HIDE DEF t
<1>3. Dispatch(r, t).stream = t /\ Dispatch(r, t).reply = reply BY <1>2, OutcomeIs DEF Get
<1>4. reply.session = Absent /\ reply.body = reply.announced BY RepliesAre
<1>5. Fits(r, reply)
  <2> HIDE DEF reply
  <2> QED BY <1>4 DEF Fits
<1> HIDE DEF reply
<1> QED BY <1>1, <1>3, <1>4, <1>5 DEF RightOutcome, t

\* TEARDOWN,
LEMMA TeardownRight ==
  ASSUME NEW r, NEW s, NEW id, Takes(r, s, id), r.method = "TEARDOWN"
  PROVE  RightOutcome(r, s, id, Dispatch(r, Processed(s, r, id)))
<1> DEFINE t == Processed(s, r, id)
           reply == methodTeardown(r)
<1>1. t \in ClientSlots BY ProcessedIs
<1>2. Dispatch(r, t) = Outcome([FreeStream EXCEPT !.cseq = t.cseq], reply) BY DEF Dispatch
<1> HIDE DEF t
<1>3. reply.session = r.session /\ reply.cseq = r.cseq /\ reply.announced = reply.body
  BY DEF methodTeardown, NoReply
<1>4. r.session \in {Absent, id} BY DEF Takes
<1>5. Fits(r, reply) BY <1>3 DEF Fits
<1> HIDE DEF reply
<1>6. Dispatch(r, t).stream = [FreeStream EXCEPT !.cseq = t.cseq] /\ Dispatch(r, t).reply = reply
  BY <1>2, OutcomeIs
<1> QED BY <1>1, <1>3, <1>4, <1>5, <1>6, FreeAgain DEF RightOutcome, t

\* A new session keeps a stream without a transport, one that has its stream is told it.
LEMMA OthersRight ==
  ASSUME NEW r, NEW s, NEW id, Takes(r, s, id), NEW reply,
         r.method \notin {"SETUP", "GET"},
         Fits(r, reply), reply.session \in {Absent, id},
         Dispatch(r, Processed(s, r, id)) = Outcome(Processed(s, r, id), reply)
  PROVE  RightOutcome(r, s, id, Dispatch(r, Processed(s, r, id)))
<1> DEFINE t == Processed(s, r, id)
<1>1. t \in ClientSlots /\ t.session = id /\ t.type = TypeFor(s, r) BY ProcessedIs
<1> HIDE DEF t
<1>2. r.transport = "none" BY RequestIs DEF Takes
<1>3. t.type = "none" \/ (s.session = id /\ s.type # "none")
  <2>1. CASE s.type = "none"
    <3> QED BY <1>1, <1>2, <2>1 DEF TypeFor
  <2>2. CASE s.type # "none" BY <2>2 DEF Takes
  <2> QED BY <2>1, <2>2
<1> QED BY <1>1, <1>3, OutcomeIs DEF RightOutcome, t

\* DESCRIBE,
LEMMA DescribeIs ==
  ASSUME NEW r
  PROVE  /\ methodDescribe(r).session = r.session /\ methodDescribe(r).cseq = r.cseq
         /\ methodDescribe(r).body = methodDescribe(r).announced
         /\ methodOptions(r).session = r.session /\ methodOptions(r).cseq = r.cseq
         /\ methodOptions(r).body = methodOptions(r).announced
<1>1. /\ methodOptions(r).session = r.session /\ methodOptions(r).cseq = r.cseq
      /\ methodOptions(r).body = methodOptions(r).announced
  BY DEF methodOptions, NoReply
<1> DEFINE n == 1 + SetUpStreams(r.fe)
           a == [WithContent(200, r.cseq, n) EXCEPT !.session = r.session]
           b == [NoContent(404, r.cseq) EXCEPT !.session = r.session]
<1>2. methodDescribe(r) = a \/ methodDescribe(r) = b BY Zenon DEF methodDescribe
<1> HIDE DEF n
<1>3. a.session = r.session /\ a.cseq = r.cseq /\ a.body = a.announced
  BY DEF WithContent, NoReply
<1>4. b.session = r.session /\ b.cseq = r.cseq /\ b.body = b.announced
  BY DEF NoContent, NoReply
<1> HIDE DEF a, b
<1> QED BY <1>1, <1>2, <1>3, <1>4

\* and all of them.
LEMMA DispatchRight ==
  ASSUME NEW r, NEW s, NEW id, Takes(r, s, id)
  PROVE  RightOutcome(r, s, id, Dispatch(r, Processed(s, r, id)))
<1> DEFINE t == Processed(s, r, id)
<1>1. r.method \in Methods BY RequestIs DEF Takes
<1>2. r.session \in {Absent, id} BY DEF Takes
<1>3. CASE r.method = "OPTIONS"
  <2>1. Dispatch(r, t) = Outcome(t, methodOptions(r)) BY <1>3 DEF Dispatch
  <2>2. Fits(r, methodOptions(r)) /\ methodOptions(r).session \in {Absent, id}
    BY <1>2, DescribeIs DEF Fits
  <2> HIDE DEF t
  <2>3. Dispatch(r, Processed(s, r, id)) = Outcome(Processed(s, r, id), methodOptions(r)) BY <2>1 DEF t
  <2> QED BY <1>3, <2>2, <2>3, OthersRight
<1>4. CASE r.method = "DESCRIBE"
  <2>1. Dispatch(r, t) = Outcome(t, methodDescribe(r)) BY <1>4 DEF Dispatch
  <2>2. Fits(r, methodDescribe(r)) /\ methodDescribe(r).session \in {Absent, id}
    BY <1>2, DescribeIs DEF Fits
  <2> HIDE DEF t
  <2>3. Dispatch(r, Processed(s, r, id)) = Outcome(Processed(s, r, id), methodDescribe(r)) BY <2>1 DEF t
  <2> QED BY <1>4, <2>2, <2>3, OthersRight
<1>5. CASE r.method \in {"HEAD", "OTHER"}
  <2>1. Dispatch(r, t) = Outcome(t, NoReply) BY <1>5 DEF Dispatch
  <2>2. Fits(r, NoReply) BY DEF Fits
  <2>3. NoReply.session = Absent BY DEF NoReply
  <2> HIDE DEF t
  <2>4. Dispatch(r, Processed(s, r, id)) = Outcome(Processed(s, r, id), NoReply) BY <2>1 DEF t
  <2> QED BY <1>5, <2>2, <2>3, <2>4, OthersRight
<1> HIDE DEF t
<1> QED BY <1>1, <1>3, <1>4, <1>5, SetupRight, PlayRight, GetRight, TeardownRight DEF Methods

-----------------------------------------------------------------------------

\* The invariant holds at first.
LEMMA RepliesInitially == ASSUME RepliesInit PROVE RepliesInv
<1>1. 0 \in 0..MaxIDs BY NoIdIs
<1>2. FreeStream \in ClientSlots /\ FreeStream.type = "none" /\ FreeStream.session = Absent
  BY <1>1 DEF FreeStream, ClientSlots, Absent
<1>3. stream \in [Feeds -> ClientSlots] BY <1>2 DEF RepliesInit
<1>4. \A f \in Feeds : stream[f] = FreeStream BY DEF RepliesInit
<1> QED BY <1>1, <1>2, <1>3, <1>4 DEF RepliesInit, RepliesInv, RepliesTypeOK, RepliesRight

\* The streams stay as they are.
LEMMA NothingTaken ==
  ASSUME RepliesInv, UNCHANGED <<stream, given, toldIDs>>, fitting'
  PROVE  RepliesInv'
BY DEF RepliesInv, RepliesTypeOK, RepliesRight

\* All replies so far fit.
LEMMA FittingIs == ASSUME RepliesInv PROVE fitting = TRUE
BY DEF RepliesInv, RepliesRight, RepliesTypeOK

\* One stream gets a slot that is free or known.
LEMMA OneTaken ==
  ASSUME RepliesInv, NEW f \in Feeds, NEW slot \in ClientSlots, NEW ids \in SUBSET (1..MaxIDs),
         stream' = [stream EXCEPT ![f] = slot], toldIDs' = toldIDs \cup ids,
         given' \in 0..MaxIDs, fitting' = TRUE,
         \/ slot.type = "none"
         \/ slot.session # Absent /\ slot.session \in toldIDs \cup ids
  PROVE  RepliesInv'
<1>1. stream \in [Feeds -> ClientSlots] /\ toldIDs \subseteq 1..MaxIDs BY DEF RepliesInv, RepliesTypeOK
<1>2. stream' \in [Feeds -> ClientSlots] BY <1>1
<1>3. stream'[f] = slot /\ \A g \in Feeds : g # f => stream'[g] = stream[g] BY <1>1
<1>4. RepliesTypeOK' BY <1>1, <1>2 DEF RepliesTypeOK
<1>5. \A g \in Feeds : stream'[g].session # Absent => stream'[g].session \in toldIDs' \/ stream'[g].type = "none"
  BY <1>3 DEF RepliesInv, RepliesRight
<1>6. \A g \in Feeds : stream'[g].session = Absent => stream'[g].type = "none"
  BY <1>3 DEF RepliesInv
<1> QED BY <1>4, <1>5, <1>6 DEF RepliesInv, RepliesRight

\* A request of a stream keeps the invariant,
LEMMA ProcessingRight ==
  ASSUME RepliesInv, NEW r \in StreamRequests, r.session # Absent \/ given < MaxIDs,
         ProcessStreamingRequest(r)
  PROVE  RepliesInv'
<1> DEFINE new == r.session = Absent
           f == FindStream(r, new)
           id == IF new THEN given + 1 ELSE r.session
           out == Dispatch(r, Processed(stream[f], r, id))
           ids == {out.reply.session, IF r.method = "GET" THEN id ELSE Absent} \ {Absent}
<1>1. /\ f # Absent /\ given' = (IF new THEN id ELSE given)
      /\ stream' = [stream EXCEPT ![f] = out.stream]
      /\ fitting' = (fitting /\ Fits(r, out.reply))
      /\ toldIDs' = toldIDs \cup ids
  BY DEF ProcessStreamingRequest
<1>2. f \in Feeds /\ Suits(f, r, new) BY <1>1, FoundSuits
<1>3. given \in 0..MaxIDs /\ r.session \in 0..given /\ MaxIDs \in Nat
  BY RequestIs, RepliesAssumption DEF RepliesInv, RepliesTypeOK
<1>4. id \in 1..MaxIDs /\ given' \in 0..MaxIDs
  <2>1. CASE new BY <1>1, <1>3, <2>1
  <2>2. CASE ~new
    <3>1. r.session \in 1..MaxIDs BY <1>3, <2>2 DEF Absent
    <3> QED BY <1>1, <1>3, <2>2, <3>1
  <2> QED BY <2>1, <2>2
<1>5. stream[f] \in ClientSlots BY <1>2 DEF RepliesInv, RepliesTypeOK
<1>6. Takes(r, stream[f], id)
  <2> HIDE DEF f
  <2>1. CASE new
    <3>1. stream[f].session = Absent /\ stream[f].type = "none"
      BY <1>2, <2>1 DEF Suits, RepliesInv
    <3> QED BY <3>1, <2>1, <1>4, <1>5 DEF Takes
  <2>2. CASE ~new
    <3>1. stream[f].session = r.session /\ id = r.session BY <1>2, <2>2 DEF Suits
    <3> QED BY <3>1, <2>2, <1>4, <1>5 DEF Takes
  <2> QED BY <2>1, <2>2
<1>7. RightOutcome(r, stream[f], id, out) BY <1>6, DispatchRight
<1> HIDE DEF f, id, out
<1>8. fitting' = TRUE
  <2>1. Fits(r, out.reply) BY <1>7 DEF RightOutcome
  <2> QED BY <1>1, <2>1, FittingIs, Zenon
<1>9. ids \in SUBSET (1..MaxIDs) BY <1>4, <1>7 DEF RightOutcome
<1>10. \/ out.stream.type = "none"
       \/ out.stream.session # Absent /\ out.stream.session \in toldIDs \cup ids
  <2>1. id # Absent BY <1>4 DEF Absent
  <2>2. out.reply.session = id => id \in ids BY <2>1
  <2>3. r.method = "GET" => id \in ids BY <2>1
  <2>4. stream[f].session = id /\ stream[f].type # "none" => id \in toldIDs
    BY <1>2, <2>1 DEF RepliesInv, RepliesRight
  <2> HIDE DEF ids
  <2> QED BY <1>7, <2>1, <2>2, <2>3, <2>4 DEF RightOutcome
<1>11. out.stream \in ClientSlots BY <1>7 DEF RightOutcome
<1> HIDE DEF ids
<1> QED BY <1>1, <1>2, <1>4, <1>8, <1>9, <1>10, <1>11, OneTaken

\* as does any request,
LEMMA RequestsRight ==
  ASSUME RepliesInv, HandleRequest
  PROVE  RepliesInv'
<1>1. PICK r \in StreamRequests :
        /\ r.session # Absent \/ given < MaxIDs
        /\ AnswerOutside(r) \/ NoMoreFrontends(r) \/ ProcessStreamingRequest(r)
  BY DEF HandleRequest
<1>2. CASE AnswerOutside(r)
  <2> DEFINE result == IF r.method = "OPTIONS" THEN methodOptions(r) ELSE methodDescribe(r)
  <2>1. fitting' = (fitting /\ Fits(r, result)) /\ UNCHANGED <<stream, given, toldIDs>>
    BY <1>2 DEF AnswerOutside
  <2>2. result.session = r.session /\ result.cseq = r.cseq /\ result.body = result.announced
    BY DescribeIs
  <2> HIDE DEF result
  <2>3. Fits(r, result) BY <2>2 DEF Fits
  <2>4. fitting' BY <2>1, <2>3, FittingIs, Zenon
  <2> QED BY <2>1, <2>4, NothingTaken
<1>3. CASE NoMoreFrontends(r)
  <2>1. Fits(r, WithContent(503, r.cseq, 1)) BY RepliesAre DEF Fits
  <2>2. fitting' BY <1>3, <2>1, FittingIs, Zenon DEF NoMoreFrontends
  <2> QED BY <1>3, <2>2, NothingTaken DEF NoMoreFrontends
<1>4. CASE ProcessStreamingRequest(r) BY <1>1, <1>4, ProcessingRight
<1> QED BY <1>1, <1>2, <1>3, <1>4

\* and one for a file,
LEMMA FilesRight ==
  ASSUME RepliesInv, GetFile
  PROVE  RepliesInv'
<1>1. PICK file \in StaticFiles, head \in BOOLEAN :
        fitting' = (fitting /\ Fits([method |-> IF head THEN "HEAD" ELSE "GET", cseq |-> 0,
                                     session |-> Absent], methodGet(file, head)))
  BY DEF GetFile
<1> DEFINE r == [method |-> IF head THEN "HEAD" ELSE "GET", cseq |-> 0, session |-> Absent]
           status == CASE file = "root" -> 301 [] file = "STOP" -> 204 [] file = "missing" -> 404
                       [] OTHER -> 200
           n == FileLength(file)
           reply == [WithContent(status, 0, n) EXCEPT !.body = IF head THEN 0 ELSE n]
<1>2. methodGet(file, head) = reply BY Zenon DEF methodGet
<1> HIDE DEF status, n
<1>3. reply.cseq = 0 /\ reply.session = Absent /\ (head \/ reply.body = reply.announced)
  BY DEF WithContent, NoReply
<1>4. r.method = (IF head THEN "HEAD" ELSE "GET") /\ r.cseq = 0 /\ r.session = Absent OBVIOUS
<1> HIDE DEF reply, r
<1>5. Fits(r, reply) BY <1>3, <1>4 DEF Fits
<1>6. fitting' BY <1>1, <1>2, <1>5, FittingIs, Zenon DEF r
<1>7. UNCHANGED <<stream, given, toldIDs>> BY DEF GetFile
<1> QED BY <1>6, <1>7, NothingTaken

\* thus every step.
LEMMA RepliesStep == RepliesInv /\ [RepliesNext]_repliesVars => RepliesInv'
<1> SUFFICES ASSUME RepliesInv, [RepliesNext]_repliesVars PROVE RepliesInv'
  OBVIOUS
<1>1. CASE UNCHANGED repliesVars
  BY <1>1 DEF repliesVars, RepliesInv, RepliesTypeOK, RepliesRight
<1>2. CASE HandleRequest BY <1>2, RequestsRight
<1>3. CASE GetFile BY <1>3, FilesRight
<1>4. CASE PostSettings
  <2> DEFINE r == [method |-> "POST", cseq |-> 0, session |-> Absent]
  <2>1. Fits(r, methodPost)
    <3>1. r.session = Absent /\ r.cseq = 0 OBVIOUS
    <3>2. methodPost.cseq = 0 /\ methodPost.body = methodPost.announced BY RepliesAre DEF methodPost
    <3> HIDE DEF r
    <3> QED BY <3>1, <3>2 DEF Fits
  <2>2. fitting' BY <1>4, <2>1, FittingIs, Zenon DEF PostSettings
  <2> QED BY <1>4, <2>2, NothingTaken DEF PostSettings
<1>5. CASE TimeoutSession
  <2>1. PICK f \in Feeds : stream' = [stream EXCEPT ![f] = [FreeStream EXCEPT !.cseq = stream[f].cseq]]
    BY <1>5 DEF TimeoutSession
  <2>2. UNCHANGED <<given, fitting, toldIDs>> BY <1>5 DEF TimeoutSession
  <2> DEFINE slot == [FreeStream EXCEPT !.cseq = stream[f].cseq]
  <2>3. stream[f] \in ClientSlots BY DEF RepliesInv, RepliesTypeOK
  <2>4. slot \in ClientSlots /\ slot.type = "none" BY <2>3, FreeAgain
  <2>5. toldIDs' = toldIDs \cup {} BY <2>2
  <2>6. given' \in 0..MaxIDs /\ fitting' = TRUE BY <2>2, FittingIs DEF RepliesInv, RepliesTypeOK
  <2>7. stream' = [stream EXCEPT ![f] = slot] BY <2>1
  <2> HIDE DEF slot
  <2> QED BY <2>4, <2>5, <2>6, <2>7, OneTaken
<1> QED BY <1>1, <1>2, <1>3, <1>4, <1>5 DEF RepliesNext

\* HttpcServer, RtspServer, HttpServer and StreamManager: for any number of frontends, every
\* reply fits its request, and every stream in use has a client that was told its session.
THEOREM RepliesAlwaysRight == RepliesSpec => []RepliesRight
<1>1. RepliesInit => RepliesInv BY RepliesInitially
<1>2. RepliesInv => RepliesRight BY DEF RepliesInv
<1> QED BY <1>1, <1>2, RepliesStep, PTL DEF RepliesSpec

-----------------------------------------------------------------------------
(* RtpReports: sender reports *)

\* A number is what it divides to, and the rest.
LEMMA Divided ==
  ASSUME NEW a \in Nat, NEW M \in Nat \ {0}
  PROVE  a = (M * (a \div M)) + (a % M) /\ a % M \in 0..M-1 /\ a \div M \in Nat
OBVIOUS

\* and back: the rest of a multiple and a rest.
LEMMA RestBack ==
  ASSUME NEW q \in Nat, NEW M \in Nat \ {0}, NEW r \in 0..M-1
  PROVE  ((M * q) + r) % M = r
OBVIOUS

\* Multiples of M sum up.
LEMMA Multiples ==
  ASSUME NEW q \in Nat, NEW s \in Nat, NEW M \in Nat
  PROVE  (M * q) + (M * s) = M * (q + s) /\ M * q \in Nat /\ M * s \in Nat
OBVIOUS

\* A counter that wraps counts on from its rest.
LEMMA WrapsOn ==
  ASSUME NEW a \in Nat, NEW b \in Nat, NEW M \in Nat \ {0}
  PROVE  ((a % M) + b) % M = (a + b) % M
<1> DEFINE q == a \div M
           r == a % M
           s == (r + b) \div M
           t == (r + b) % M
<1>1. a = (M * q) + r /\ r \in 0..M-1 /\ q \in Nat BY Divided
<1>2. r + b \in Nat BY <1>1
<1>3. r + b = (M * s) + t /\ t \in 0..M-1 /\ s \in Nat BY <1>2, Divided
<1>4. (M * q) + (M * s) = M * (q + s) /\ q + s \in Nat /\ M * q \in Nat /\ M * s \in Nat BY <1>1, <1>3, Multiples
<1> HIDE DEF q, r, s, t
<1>5. a + b = (M * (q + s)) + t BY <1>1, <1>3, <1>4
<1>6. ((M * (q + s)) + t) % M = t BY <1>3, <1>4, RestBack
<1>7. (r + b) % M = t BY DEF t
<1> QED BY <1>5, <1>6, <1>7 DEF r

\* One element more at the end.
LEMMA OneMore ==
  ASSUME NEW S, NEW s \in Seq(S), NEW e \in S
  PROVE  /\ Append(s, e) \in Seq(S) /\ Len(Append(s, e)) = Len(s) + 1
         /\ \A k \in 1..Len(s) : Append(s, e)[k] = s[k]
         /\ Append(s, e)[Len(s) + 1] = e
OBVIOUS

\* An element of a sequence.
LEMMA ElementOf ==
  ASSUME NEW S, NEW s \in Seq(S), NEW n \in 1..Len(s)
  PROVE  s[n] \in S
OBVIOUS

\* What was counted is numbers,
LEMMA OctetsAreNumbers ==
  ASSUME RtpReportsTypeOK, NEW n \in 0..Len(counted)
  PROVE  OctetsOf(n) \in Nat
<1>1. counted \in Seq([stamp : 0..MaxTime, octets : Nat]) BY DEF RtpReportsTypeOK
<1>2. CASE n = 0 BY <1>2 DEF OctetsOf
<1>3. CASE n # 0
  <2>1. n \in 1..Len(counted) BY <1>1, <1>3
  <2>2. counted[n] \in [stamp : 0..MaxTime, octets : Nat] BY <1>1, <2>1, ElementOf
  <2> QED BY <1>3, <2>2 DEF OctetsOf
<1> QED BY <1>2, <1>3

\* and what is counted next.
LEMMA PacketIsSized ==
  ASSUME RtpReportsTypeOK
  PROVE  packet.stamp \in 0..MaxTime /\ packet.octets \in Nat
<1>1. packet \in Packets BY DEF RtpReportsTypeOK
<1>2. packet.stamp \in 0..MaxTime /\ packet.octets \in {0} \cup DataSizes BY <1>1 DEF Packets
<1>3. \A octets \in {0} \cup DataSizes : octets \in Nat BY RtpReportsAssumption
<1> QED BY <1>2, <1>3, Zenon

\* What was read stays right while packets are counted.
LEMMA ReadsStayRight ==
  ASSUME RtpReportsTypeOK, Reads, report' = report, reporting' = reporting,
         Len(counted') \in Nat, Len(counted') >= Len(counted),
         \A k \in 1..Len(counted) : counted'[k] = counted[k]
  PROVE  Reads'
<1>0. Len(counted) \in Nat BY DEF RtpReportsTypeOK
<1>1. \A n \in 0..Len(counted) : n \in 0..Len(counted') BY <1>0
<1>2. \A n \in 0..Len(counted) : OctetsOf(n)' = OctetsOf(n) BY <1>0 DEF OctetsOf
<1>3. \A n \in 0..Len(counted) : \A k \in 1..n : k \in 1..Len(counted) BY <1>0
<1>4. LengthsFit => LengthsFit' BY DEF LengthsFit
<1>5. reporting' = "spc" =>
        report'.timestamp = 0 \/ \E k \in 1..Len(counted') : report'.timestamp = counted'[k].stamp
  BY <1>0 DEF Reads
<1>6. ASSUME reporting' \in {"soc", "app", "send"}
      PROVE  \E n \in 0..Len(counted') :
         /\ report'.spc = n % CounterMod
         /\ report'.timestamp = 0 \/ \E k \in 1..n : report'.timestamp = counted'[k].stamp
         /\ reporting' # "soc" =>
              \E m \in 0..Len(counted') : m >= n - 1 /\ report'.soc = OctetsOf(m)' % CounterMod
  <2>1. PICK n \in 0..Len(counted) :
         /\ report.spc = n % CounterMod
         /\ report.timestamp = 0 \/ \E k \in 1..n : report.timestamp = counted[k].stamp
         /\ reporting # "soc" =>
              \E m \in 0..Len(counted) : m >= n - 1 /\ report.soc = OctetsOf(m) % CounterMod
    BY <1>6 DEF Reads
  <2>2. n \in 0..Len(counted') BY <1>1
  <2>3. report'.timestamp = 0 \/ \E k \in 1..n : report'.timestamp = counted'[k].stamp
    BY <2>1, <1>3
  <2>4. ASSUME reporting' # "soc"
        PROVE  \E m \in 0..Len(counted') : m >= n - 1 /\ report'.soc = OctetsOf(m)' % CounterMod
    <3>1. PICK m \in 0..Len(counted) : m >= n - 1 /\ report.soc = OctetsOf(m) % CounterMod
      BY <2>1, <2>4
    <3>2. m \in 0..Len(counted') /\ OctetsOf(m)' = OctetsOf(m) BY <1>1, <1>2
    <3> QED BY <3>1, <3>2
  <2> QED BY <2>1, <2>2, <2>3, <2>4
<1>7. reporting' = "send" => LengthsFit' BY <1>4 DEF Reads
<1> QED BY <1>5, <1>6, <1>7 DEF Reads

\* Nothing of the counters changes.
LEMMA CountsStay ==
  ASSUME Counts, UNCHANGED <<writing, packet, counted, countVars>>
  PROVE  Counts'
BY DEF Counts, OctetsOf, countVars

-----------------------------------------------------------------------------

\* The invariant holds at first.
LEMMA RtpInitially == ASSUME RtpReportsInit PROVE RtpReportsInv
<1>1. Len(counted) = 0 /\ counted \in Seq([stamp : 0..MaxTime, octets : Nat]) BY DEF RtpReportsInit
<1>2. 0 \in 0..MaxTime /\ 0 \in 0..CounterMod-1 /\ 0 \in 0..CseqMod-1 /\ 0 \in Nat /\ 0 % CounterMod = 0
  BY RtpReportsAssumption
<1>3. report \in [timestamp : 0..MaxTime, spc : 0..CounterMod-1, soc : 0..CounterMod-1,
                 words : Seq(Nat), length : Nat]
  <2>1. <<>> \in Seq(Nat) OBVIOUS
  <2> QED BY <2>1, <1>2 DEF RtpReportsInit, NoReport
<1>4. packet \in Packets BY <1>2 DEF RtpReportsInit, NoPacket, Packets
<1>5. RtpReportsTypeOK
  <2>1. /\ protocol \in Protocols /\ playing \in BOOLEAN /\ failed \in BOOLEAN
        /\ writing \in {"read", "spc", "soc", "timestamp", "write"}
        /\ reporting \in {"wait", "timestamp", "spc", "soc", "app", "send"}
    BY DEF RtpReportsInit
  <2>2. /\ ticks \in 0..MaxTime /\ cseq \in 0..CseqMod-1
        /\ {spc, soc} \subseteq 0..CounterMod-1 /\ timestamp \in 0..MaxTime /\ rtpPayload \in Nat
    BY <1>2 DEF RtpReportsInit
  <2> QED BY <1>1, <1>3, <1>4, <2>1, <2>2 DEF RtpReportsTypeOK
<1>6. Counts BY <1>1, <1>2 DEF Counts, OctetsOf, RtpReportsInit
<1>7. Reads BY DEF Reads, RtpReportsInit
<1> QED BY <1>5, <1>6, <1>7 DEF RtpReportsInv

\* The steps of the streaming thread: a packet begins,
LEMMA BeginsRight ==
  ASSUME RtpReportsInv, NEW octets \in DataSizes, BeginPacket(octets)
  PROVE  RtpReportsInv'
<1> USE DEF RtpReportsInv
<1>1. cseq' \in 0..CseqMod-1
  BY RtpReportsAssumption DEF RtpReportsTypeOK, BeginPacket
<1>2. packet' \in Packets BY <1>1 DEF RtpReportsTypeOK, BeginPacket, Packets
<1>3. RtpReportsTypeOK' BY <1>1, <1>2 DEF RtpReportsTypeOK, BeginPacket, countVars, reporterVars
<1>4. Counts' BY DEF Counts, OctetsOf, BeginPacket, countVars
<1>5. Reads' BY ReadsStayRight DEF BeginPacket, reporterVars, RtpReportsTypeOK
<1> QED BY <1>3, <1>4, <1>5

\* is counted,
LEMMA CountsPacketRight ==
  ASSUME RtpReportsInv, CountPacket,
         UNCHANGED <<protocol, playing, ticks, packet, cseq, failed, reporterVars>>
  PROVE  RtpReportsInv'
<1> USE DEF RtpReportsInv
<1>0. PICK L \in Nat : L = Len(counted) BY DEF RtpReportsTypeOK
<1> DEFINE Row == [stamp : 0..MaxTime, octets : Nat]
           row == [stamp |-> packet.stamp, octets |-> OctetsOf(L) + packet.octets]
<1>1. counted \in Seq(Row) /\ L \in Nat /\ L = Len(counted) BY <1>0 DEF RtpReportsTypeOK
<1>2. OctetsOf(L) \in Nat BY <1>1, OctetsAreNumbers
<1>3. packet.stamp \in 0..MaxTime /\ packet.octets \in Nat BY PacketIsSized
<1>4. row \in Row BY <1>2, <1>3
<1>5. counted' = Append(counted, row) /\ writing = "spc" /\ writing' = "soc"
      /\ spc' = (spc + 1) % CounterMod
      /\ soc' = soc /\ timestamp' = timestamp /\ rtpPayload' = rtpPayload
      /\ packet' = packet /\ report' = report /\ reporting' = reporting
  BY <1>1 DEF CountPacket, reporterVars
<1> HIDE DEF row, Row
<1>6. /\ counted' \in Seq(Row) /\ Len(counted') = L + 1
      /\ \A k \in 1..L : counted'[k] = counted[k]
      /\ counted'[L + 1] = row
  BY <1>1, <1>4, <1>5, OneMore
<1>7. spc = L % CounterMod /\ soc = OctetsOf(L) % CounterMod
  BY <1>1, <1>5 DEF Counts
<1>8. spc' = (L + 1) % CounterMod BY <1>1, <1>5, <1>7, WrapsOn, RtpReportsAssumption
<1>9. spc' \in 0..CounterMod-1 BY <1>1, <1>8, RtpReportsAssumption
<1>10. RtpReportsTypeOK'
  BY <1>5, <1>6, <1>9 DEF RtpReportsTypeOK, Row, CountPacket, reporterVars
<1>11. OctetsOf(L)' = OctetsOf(L) BY <1>1, <1>6 DEF OctetsOf
<1>12. OctetsOf(L + 1)' = OctetsOf(L)' + packet'.octets
  <2>1. L + 1 # 0 BY <1>1
  <2>2. OctetsOf(L + 1)' = row.octets BY <1>6, <2>1 DEF OctetsOf
  <2> QED BY <2>2, <1>5, <1>11 DEF row
<1>13. counted'[L + 1].stamp = packet'.stamp BY <1>5, <1>6 DEF row
<1>14. timestamp' = 0 \/ \E k \in 1..L + 1 : timestamp' = counted'[k].stamp
  <2>1. timestamp = 0 \/ \E k \in 1..L : timestamp = counted[k].stamp BY <1>1 DEF Counts
  <2>2. \A k \in 1..L : k \in 1..L + 1 BY <1>1
  <2> QED BY <2>1, <2>2, <1>5, <1>6
<1>15. Counts'
  <2>1. Len(counted') - 1 = L BY <1>1, <1>6
  <2> QED BY <1>1, <1>5, <1>6, <1>7, <1>8, <1>11, <1>12, <1>13, <1>14, <2>1 DEF Counts
<1>16. Reads' BY <1>1, <1>5, <1>6, ReadsStayRight
<1> QED BY <1>10, <1>15, <1>16

\* with its octets,
LEMMA CountsOctetsRight ==
  ASSUME RtpReportsInv, CountOctets,
         UNCHANGED <<protocol, playing, ticks, packet, cseq, failed, reporterVars>>
  PROVE  RtpReportsInv'
<1> USE DEF RtpReportsInv
<1>0. PICK L \in Nat : L = Len(counted) BY DEF RtpReportsTypeOK
<1>1. L \in Nat /\ L = Len(counted) /\ counted' = counted /\ writing = "soc" /\ writing' = "timestamp"
      /\ soc' = (soc + packet.octets) % CounterMod /\ rtpPayload' = rtpPayload + packet.octets
      /\ spc' = spc /\ timestamp' = timestamp
      /\ packet' = packet /\ report' = report /\ reporting' = reporting
  BY <1>0 DEF RtpReportsTypeOK, CountOctets, reporterVars
<1>2. packet.octets \in Nat BY PacketIsSized
<1>3. L > 0 /\ soc = OctetsOf(L - 1) % CounterMod
      /\ OctetsOf(L) = OctetsOf(L - 1) + packet.octets
      /\ counted[L].stamp = packet.stamp
  BY <1>1 DEF Counts
<1>4. OctetsOf(L - 1) \in Nat BY <1>1, <1>3, OctetsAreNumbers
<1>5. soc' = OctetsOf(L) % CounterMod
  <2>1. soc' = ((OctetsOf(L - 1) % CounterMod) + packet.octets) % CounterMod BY <1>1, <1>3
  <2>2. CounterMod \in Nat \ {0} BY RtpReportsAssumption
  <2>3. soc' = (OctetsOf(L - 1) + packet.octets) % CounterMod BY <2>1, <2>2, <1>2, <1>4, WrapsOn
  <2> QED BY <2>3, <1>3
<1>6. OctetsOf(L)' = OctetsOf(L) BY <1>1 DEF OctetsOf
<1>7. Counts' BY <1>1, <1>3, <1>5, <1>6 DEF Counts
<1>8. OctetsOf(L) \in Nat BY <1>1, OctetsAreNumbers
<1>9. soc' \in 0..CounterMod-1 BY <1>5, <1>8, RtpReportsAssumption
<1>10. rtpPayload' \in Nat BY <1>1, <1>2 DEF RtpReportsTypeOK
<1>11. RtpReportsTypeOK' BY <1>1, <1>9, <1>10 DEF RtpReportsTypeOK, reporterVars
<1>12. Reads' BY <1>1, ReadsStayRight
<1> QED BY <1>7, <1>11, <1>12

\* gets its time stamp,
LEMMA StampsRight ==
  ASSUME RtpReportsInv, Stamp,
         UNCHANGED <<protocol, playing, ticks, packet, cseq, failed, reporterVars>>
  PROVE  RtpReportsInv'
<1> USE DEF RtpReportsInv
<1>1. Len(counted) \in Nat /\ UNCHANGED <<report, reporting>> BY DEF RtpReportsTypeOK, reporterVars
<1>2. Len(counted) \in 1..Len(counted) /\ timestamp' = counted[Len(counted)].stamp
  BY <1>1 DEF Counts, Stamp
<1>3. Counts' BY <1>2 DEF Counts, OctetsOf, Stamp
<1>4. RtpReportsTypeOK' BY <1>1 DEF RtpReportsTypeOK, Stamp, Packets, reporterVars
<1>5. Reads' BY <1>1, ReadsStayRight DEF Stamp
<1> QED BY <1>3, <1>4, <1>5

\* and is written.
LEMMA WritesRight ==
  ASSUME RtpReportsInv, WritePacket
  PROVE  RtpReportsInv'
<1> USE DEF RtpReportsInv
<1>1. Len(counted) \in Nat /\ UNCHANGED <<report, reporting, counted, spc, soc, timestamp, rtpPayload>>
      /\ writing = "write" /\ writing' = "read"
  BY DEF RtpReportsTypeOK, reporterVars, countVars, WritePacket
<1>2. NoPacket \in Packets BY RtpReportsAssumption DEF NoPacket, Packets
<1>3. failed' \in BOOLEAN
  BY Zenon DEF WritePacket, WriteRtp, WriteRtpTcp, WriteHttp, WriteTS, RtpReportsTypeOK
<1>4. RtpReportsTypeOK' BY <1>1, <1>2, <1>3 DEF RtpReportsTypeOK, WritePacket
<1>5. Counts' BY <1>1 DEF Counts, OctetsOf
<1>6. Reads' BY <1>1, ReadsStayRight
<1> QED BY <1>4, <1>5, <1>6

-----------------------------------------------------------------------------

\* The steps of getSR(), each of which reads one counter.
LEMMA ReadsRight ==
  ASSUME RtpReportsInv, GetSR, UNCHANGED <<protocol, playing, ticks, writerVars, countVars>>
  PROVE  RtpReportsInv'
<1> USE DEF RtpReportsInv
<1> DEFINE L == Len(counted)
<1>1. L \in Nat /\ UNCHANGED <<packet, writing, counted, spc, soc, timestamp, rtpPayload>>
  BY DEF RtpReportsTypeOK, writerVars, countVars
<1>2. Counts' BY <1>1, CountsStay DEF countVars
<1>3. \A n \in 0..L : OctetsOf(n)' = OctetsOf(n) BY <1>1 DEF OctetsOf
<1>4. CASE reporting = "wait" /\ reporting' = "timestamp" /\ report' = NoReport
  <2>1. report' \in [timestamp : 0..MaxTime, spc : 0..CounterMod-1, soc : 0..CounterMod-1,
                     words : Seq(Nat), length : Nat]
    <3>1. <<>> \in Seq(Nat) OBVIOUS
    <3> QED BY <3>1, <1>4, RtpReportsAssumption DEF NoReport
  <2>2. RtpReportsTypeOK' BY <2>1, <1>4 DEF RtpReportsTypeOK, writerVars, countVars
  <2>3. Reads' BY <1>4 DEF Reads
  <2> QED BY <2>2, <2>3, <1>2
<1>5. CASE reporting = "timestamp" /\ reporting' = "spc" /\ report' = [report EXCEPT !.timestamp = timestamp]
  <2>1. RtpReportsTypeOK' BY <1>5 DEF RtpReportsTypeOK, writerVars, countVars
  <2>2. report'.timestamp = timestamp BY <1>5 DEF RtpReportsTypeOK
  <2>3. Reads' BY <1>1, <1>5, <2>2 DEF Reads, Counts
  <2> QED BY <2>1, <2>3, <1>2
<1>6. CASE reporting = "spc" /\ reporting' = "soc" /\ report' = [report EXCEPT !.spc = spc]
  <2>1. RtpReportsTypeOK' BY <1>6 DEF RtpReportsTypeOK, writerVars, countVars
  <2>2. report'.timestamp = report.timestamp /\ report'.spc = spc BY <1>6 DEF RtpReportsTypeOK
  <2>3. L \in 0..L /\ report'.spc = L % CounterMod BY <1>1, <2>2 DEF Counts
  <2>4. report'.timestamp = 0 \/ \E k \in 1..L : report'.timestamp = counted'[k].stamp
    BY <1>1, <1>6, <2>2 DEF Reads
  <2>5. Reads' BY <1>1, <1>6, <2>3, <2>4 DEF Reads
  <2> QED BY <2>1, <2>5, <1>2
<1>7. CASE reporting = "soc" /\ reporting' = "app" /\ report' = [report EXCEPT !.soc = soc]
  <2>1. RtpReportsTypeOK' BY <1>7 DEF RtpReportsTypeOK, writerVars, countVars
  <2>2. report'.timestamp = report.timestamp /\ report'.spc = report.spc /\ report'.soc = soc
    BY <1>7 DEF RtpReportsTypeOK
  <2>3. PICK n \in 0..L :
           /\ report.spc = n % CounterMod
           /\ report.timestamp = 0 \/ \E k \in 1..n : report.timestamp = counted[k].stamp
    BY <1>7 DEF Reads
  <2>4. \E m \in 0..L : m >= n - 1 /\ soc = OctetsOf(m) % CounterMod
    <3>1. CASE writing = "soc"
      <4>1. L - 1 \in 0..L BY <1>1, <3>1 DEF Counts
      <4>2. soc = OctetsOf(L - 1) % CounterMod BY <3>1 DEF Counts
      <4> QED BY <4>1, <4>2, <1>1
    <3>2. CASE writing # "soc"
      <4>1. L \in 0..L /\ L >= n - 1 BY <1>1
      <4>2. soc = OctetsOf(L) % CounterMod BY <3>2 DEF Counts
      <4> QED BY <4>1, <4>2
    <3> QED BY <3>1, <3>2
  <2>5. PICK m \in 0..L : m >= n - 1 /\ report'.soc = OctetsOf(m)' % CounterMod
    BY <2>2, <2>4, <1>3
  <2>6. Reads' BY <1>1, <1>7, <2>2, <2>3, <2>5 DEF Reads
  <2> QED BY <2>1, <2>6, <1>2
<1> QED BY <1>4, <1>5, <1>6, <1>7 DEF GetSR

\* A quarter of the octets less one, and back
LEMMA WordsFit ==
  ASSUME NEW k \in Nat \ {0}
  PROVE  Words(4 * k) \in Nat /\ 4 * (Words(4 * k) + 1) = 4 * k
BY DEF Words

\* The description is padded to whole words.
LEMMA PadsToWords ==
  ASSUME NEW desc \in Nat
  PROVE  \E k \in Nat \ {0} : GetAPP(desc) = 4 * k
<1> DEFINE q == desc \div 4
           r == desc % 4
<1>1. desc = (4 * q) + r /\ r \in 0..3 /\ q \in Nat OBVIOUS
<1> HIDE DEF q
<1>2. CASE r = 0
  <2>1. GetAPP(desc) = 4 * (q + 4) BY <1>1, <1>2 DEF GetAPP
  <2> QED BY <1>1, <2>1
<1>3. CASE r # 0
  <2>1. GetAPP(desc) = 4 * (q + 5) BY <1>1, <1>3 DEF GetAPP
  <2> QED BY <1>1, <2>1
<1> QED BY <1>2, <1>3

\* The lengths of a compound report fit.
LEMMA CompoundsRight ==
  ASSUME RtpReportsInv, NEW desc \in DescSizes, Compound(desc),
         UNCHANGED <<protocol, playing, ticks, writerVars, countVars>>
  PROVE  RtpReportsInv'
<1> USE DEF RtpReportsInv
<1>1. Len(counted) \in Nat /\ UNCHANGED <<packet, writing, counted, spc, soc, timestamp, rtpPayload>>
      /\ desc \in Nat
  BY RtpReportsAssumption DEF RtpReportsTypeOK, writerVars, countVars
<1>2. Counts' BY <1>1, CountsStay DEF countVars
<1>3. PICK k \in Nat \ {0} : GetAPP(desc) = 4 * k BY <1>1, PadsToWords
<1> DEFINE a == Words(SRLength)
           b == Words(GetSDES)
           c == Words(GetAPP(desc))
           n == SRLength + GetSDES + GetAPP(desc)
<1>4. a = 6 /\ b = 4 /\ c \in Nat /\ 4 * (c + 1) = 4 * k
  BY <1>3, WordsFit DEF Words, SRLength, GetSDES
<1>5. n \in Nat /\ n = 48 + (4 * k) BY <1>3 DEF SRLength, GetSDES
<1>6. a \in Nat /\ b \in Nat /\ (4 * (a + 1)) + (4 * (b + 1)) + (4 * (c + 1)) = n BY <1>4, <1>5
<1>7. /\ reporting = "app" /\ reporting' = "send"
      /\ report' = [report EXCEPT !.words = <<a, b, c>>, !.length = n]
  BY DEF Compound
<1> HIDE DEF a, b, c, n
<1>8. <<a, b, c>> \in Seq(Nat) BY <1>4, <1>6
<1>9. /\ report'.timestamp = report.timestamp /\ report'.spc = report.spc /\ report'.soc = report.soc
      /\ report'.words = <<a, b, c>> /\ report'.length = n
      /\ report' \in [timestamp : 0..MaxTime, spc : 0..CounterMod-1, soc : 0..CounterMod-1,
                      words : Seq(Nat), length : Nat]
  <2> DEFINE half == [report EXCEPT !.words = <<a, b, c>>]
             R == [timestamp : 0..MaxTime, spc : 0..CounterMod-1, soc : 0..CounterMod-1,
                   words : Seq(Nat), length : Nat]
  <2>1. report \in R BY DEF RtpReportsTypeOK
  <2>2. half \in R /\ half.timestamp = report.timestamp /\ half.spc = report.spc /\ half.soc = report.soc
        /\ half.words = <<a, b, c>>
    BY <1>8, <2>1
  <2>3. report' = [half EXCEPT !.length = n] BY <1>7
  <2> HIDE DEF half
  <2> QED BY <2>2, <2>3, <1>5
<1>10. RtpReportsTypeOK' BY <1>7, <1>9 DEF RtpReportsTypeOK, writerVars, countVars
<1>11. LengthsFit' BY <1>6, <1>9 DEF LengthsFit
<1>12. \A m \in 0..Len(counted) : OctetsOf(m)' = OctetsOf(m) BY <1>1 DEF OctetsOf
<1>13. PICK i \in 0..Len(counted) :
         /\ report.spc = i % CounterMod
         /\ report.timestamp = 0 \/ \E j \in 1..i : report.timestamp = counted[j].stamp
         /\ \E m \in 0..Len(counted) : m >= i - 1 /\ report.soc = OctetsOf(m) % CounterMod
  BY <1>7 DEF Reads
<1>14. PICK m \in 0..Len(counted) : m >= i - 1 /\ report.soc = OctetsOf(m) % CounterMod BY <1>13
<1>15. Reads' BY <1>1, <1>7, <1>9, <1>11, <1>12, <1>13, <1>14 DEF Reads
<1> QED BY <1>2, <1>10, <1>15

-----------------------------------------------------------------------------

\* Every step keeps the invariant.
LEMMA RtpStep == RtpReportsInv /\ [RtpReportsNext]_rtpVars => RtpReportsInv'
<1> SUFFICES ASSUME RtpReportsInv, [RtpReportsNext]_rtpVars PROVE RtpReportsInv'
  OBVIOUS
<1>1. CASE UNCHANGED rtpVars
  <2>1. UNCHANGED <<protocol, playing, ticks, writing, packet, cseq, failed, counted, spc, soc, timestamp, rtpPayload,
                    reporting, report>>
    BY <1>1 DEF rtpVars, writerVars, countVars, reporterVars
  <2> QED BY <2>1 DEF RtpReportsInv, RtpReportsTypeOK, Counts, Reads, OctetsOf, LengthsFit
<1>2. CASE \E octets \in DataSizes : BeginPacket(octets) BY <1>2, BeginsRight
<1>3. CASE AddRtpData
  BY <1>3, CountsPacketRight, CountsOctetsRight, StampsRight DEF AddRtpData
<1>4. CASE WritePacket BY <1>4, WritesRight
<1>5. CASE Reporter
  <2>0. UNCHANGED <<protocol, playing, ticks, writerVars, countVars>> BY <1>5 DEF Reporter
  <2>1. CASE GetSR BY <2>0, <2>1, ReadsRight
  <2>2. CASE \E desc \in DescSizes : Compound(desc) BY <2>0, <2>2, CompoundsRight
  <2>3. CASE SendReport
    <3>1. Len(counted) \in Nat /\ UNCHANGED <<packet, writing, counted, spc, soc, timestamp, rtpPayload>>
          /\ reporting' = "wait" /\ report' = NoReport
      BY <2>0, <2>3 DEF RtpReportsInv, RtpReportsTypeOK, writerVars, countVars, SendReport
    <3>2. report' \in [timestamp : 0..MaxTime, spc : 0..CounterMod-1, soc : 0..CounterMod-1,
                       words : Seq(Nat), length : Nat]
      <4>1. <<>> \in Seq(Nat) OBVIOUS
      <4> QED BY <4>1, <3>1, RtpReportsAssumption DEF NoReport
    <3>3. RtpReportsTypeOK' BY <3>1, <3>2, <2>0 DEF RtpReportsInv, RtpReportsTypeOK, writerVars, countVars
    <3>4. Reads' BY <3>1 DEF Reads
    <3>5. Counts' BY <3>1, CountsStay DEF RtpReportsInv, countVars
    <3> QED BY <3>3, <3>4, <3>5 DEF RtpReportsInv
  <2> QED BY <1>5, <2>1, <2>2, <2>3 DEF Reporter
<1>6. CASE Tick
  <2>1. UNCHANGED <<protocol, playing, writing, packet, cseq, failed, counted, spc, soc, timestamp, rtpPayload,
                    reporting, report>> /\ ticks' \in 0..MaxTime
    BY <1>6 DEF Tick, writerVars, countVars, reporterVars
  <2> QED BY <2>1 DEF RtpReportsInv, RtpReportsTypeOK, Counts, Reads, OctetsOf, LengthsFit
<1>7. CASE PauseOrRestart
  <2>1. UNCHANGED <<protocol, ticks, writing, packet, cseq, failed, counted, spc, soc, timestamp, rtpPayload,
                    reporting, report>>
    BY <1>7 DEF PauseOrRestart, writerVars, countVars, reporterVars
  <2>2. playing' \in BOOLEAN BY <1>7 DEF PauseOrRestart
  <2> QED BY <2>1, <2>2 DEF RtpReportsInv, RtpReportsTypeOK, Counts, Reads, OctetsOf, LengthsFit
<1>8. ASSUME NEW p \in Protocols, StartAnew(p) PROVE RtpReportsInv'
  <2>1. UNCHANGED <<ticks, writing, packet, counted, spc, soc, timestamp, rtpPayload, reporting, report>>
    BY <1>8 DEF StartAnew, countVars, reporterVars
  <2>2. protocol' \in Protocols /\ playing' \in BOOLEAN /\ failed' \in BOOLEAN /\ cseq' \in 0..CseqMod-1
    <3>1. 0 \in 0..CseqMod-1 BY RtpReportsAssumption
    <3> QED BY <1>8, <3>1 DEF StartAnew
  <2> QED BY <2>1, <2>2 DEF RtpReportsInv, RtpReportsTypeOK, Counts, Reads, OctetsOf, LengthsFit
<1> QED BY <1>1, <1>2, <1>3, <1>4, <1>5, <1>6, <1>7, <1>8 DEF RtpReportsNext

\* The invariant says what the property says.
LEMMA ReadsFit == RtpReportsInv => ReportFits
<1> SUFFICES ASSUME RtpReportsInv, reporting = "send"
             PROVE  /\ \E n, m \in 0..Len(counted) :
                         /\ m >= n - 1
                         /\ report.spc = n % CounterMod /\ report.soc = OctetsOf(m) % CounterMod
                         /\ report.timestamp = 0 \/ \E k \in 1..n : report.timestamp = counted[k].stamp
                    /\ LengthsFit
  BY DEF ReportFits
<1> QED BY DEF RtpReportsInv, Reads

\* Stream::addRtpData() and getSR(), which read and write the counters without a lock: however
\* packets, pauses, new sessions and the two threads follow one another, a sender report has
\* the octets of all its packets but the last, nothing that was not counted, and lengths that fit.
THEOREM ReportsAlwaysFit == RtpReportsSpec => []ReportFits
<1>1. RtpReportsInit => RtpReportsInv BY RtpInitially
<1> QED BY <1>1, RtpStep, ReadsFit, PTL DEF RtpReportsSpec

-----------------------------------------------------------------------------
(* Frontends: what is advertised is served *)

\* A driver enumerates each system once, so a frontend has each system once at most.
LEMMA CountedOnce ==
  ASSUME NEW f, IsInjective(f), NEW x, NEW K \in SUBSET {k \in DOMAIN f : f[k] = x}
  PROVE  Cardinality(K) \in {0, 1}
<1>1. CASE K = {}
  BY <1>1, FS_EmptySet
<1>2. CASE K # {}
  <2>1. PICK k \in K : TRUE
    BY <1>2
  <2>2. K = {k}
    BY <2>1 DEF IsInjective
  <2> QED BY <2>2, FS_Singleton
<1> QED BY <1>1, <1>2

\* DTV_ENUM_DELSYS, or what type and capabilities say: each system once.
LEMMA EnumeratedOnce ==
  ASSUME NEW tree \in Trees, NEW a \in DOMAIN tree, NEW n \in DOMAIN tree[a]
  PROVE  IsInjective(Enumerated(tree[a][n]))
<1> DEFINE e == tree[a][n]
<1>1. IsInjective(e.enum)
  BY FrontendsAssumption DEF Range
<1>2. /\ IsInjective(<<>>) /\ IsInjective(<<"dvbs">>) /\ IsInjective(<<"dvbt">>)
      /\ IsInjective(<<"annexA">>) /\ IsInjective(<<"annexB">>)
      /\ IsInjective(<<"dvbs2", "dvbs">>) /\ IsInjective(<<"dvbt2", "dvbt">>)
  BY DEF IsInjective
<1> HIDE DEF e
<1>3. \/ Enumerated(e) = e.enum \/ Enumerated(e) = <<"dvbs2", "dvbs">> \/ Enumerated(e) = <<"dvbs">>
      \/ Enumerated(e) = <<"dvbt2", "dvbt">> \/ Enumerated(e) = <<"dvbt">>
      \/ Enumerated(e) = <<"annexA">>
      \/ Enumerated(e) = <<"annexB">> \/ Enumerated(e) = <<>>
  BY DEF Enumerated
<1>4. IsInjective(Enumerated(e))
  BY <1>1, <1>2, <1>3, Zenon DEF e
<1> QED BY <1>4 DEF e

\* setupFrontend(): a frontend counts each system once at most.
LEMMA FrontendIsDevice ==
  ASSUME NEW tree \in Trees, NEW a \in DOMAIN tree, NEW n \in DOMAIN tree[a]
  PROVE  Frontend(tree[a][n]) \in Device
<1> DEFINE e == tree[a][n]
           f == Enumerated(e)
           of(system) == Cardinality({k \in DOMAIN f : e.info /\ f[k] = system})
           cable == IF e.info THEN CountCable(e) ELSE 0
<1>1. \A system : of(system) \in {0, 1}
  <2>1. IsInjective(f)
    BY EnumeratedOnce
  <2> HIDE DEF f, e
  <2> SUFFICES ASSUME NEW system PROVE of(system) \in {0, 1}
    BY Zenon
  <2> DEFINE K == {k \in DOMAIN f : e.info /\ f[k] = system}
  <2>2. K \in SUBSET {k \in DOMAIN f : f[k] = system}
    OBVIOUS
  <2> HIDE DEF K
  <2>3. Cardinality(K) \in {0, 1}
    BY <2>1, <2>2, CountedOnce
  <2> QED BY <2>3 DEF K
<1>2. cable \in {0, 1}
  BY DEF CountCable
<1>3. Frontend(e) = [kind |-> "dvb", dvbs |-> of("dvbs"), dvbs2 |-> of("dvbs2"),
                     dvbt |-> of("dvbt"), dvbt2 |-> of("dvbt2"), dvbc |-> cable]
  BY DEF Frontend
<1> HIDE DEF of, cable
<1>4. Frontend(e) \in Device
  BY <1>1, <1>2, <1>3 DEF Device
<1> QED BY <1>4

\* The places in a tree can be counted.
LEMMA AttachedFinite ==
  ASSUME NEW tree \in Trees
  PROVE  IsFiniteSet(Attached(tree))
<1> DEFINE T == UNION {Range(adapter) : adapter \in Range(tree)}
           places(a) == {<<a, n>> : n \in {m \in DOMAIN tree[a] : tree[a][m].name = "frontend"}}
           P == [a \in DOMAIN tree |-> places(a)]
<1>1. tree \in Seq(Seq(T))
  BY FrontendsAssumption
<1> HIDE DEF T
<1>2. DOMAIN tree = 1..Len(tree) /\ Len(tree) \in Nat
  BY <1>1
<1>3. ASSUME NEW a \in DOMAIN tree PROVE IsFiniteSet(places(a))
  <2>1. tree[a] \in Seq(T)
    BY <1>1, <1>2
  <2>2. DOMAIN tree[a] = 1..Len(tree[a]) /\ Len(tree[a]) \in Nat
    BY <2>1
  <2>3. IsFiniteSet({a} \X (1..Len(tree[a])))
    <3>1. IsFiniteSet(1..Len(tree[a]))
      BY <2>2, FS_Interval
    <3> QED BY <3>1, FS_Singleton, FS_Product, Zenon
  <2>4. places(a) \subseteq {a} \X (1..Len(tree[a]))
    BY <2>2
  <2> QED BY <2>3, <2>4, FS_Subset
<1>4. P \in Surjection(DOMAIN tree, {places(a) : a \in DOMAIN tree})
  BY DEF Surjection
<1>5. IsFiniteSet(DOMAIN tree)
  BY <1>2, FS_Interval
<1>6. IsFiniteSet({places(a) : a \in DOMAIN tree})
  BY <1>4, <1>5, FS_Surjection
<1> QED BY <1>3, <1>6, FS_UNION DEF Attached

\* Whatever is found is a sequence of devices.
LEMMA FoundAreDevices ==
  ASSUME NEW tree \in Trees, NEW fes \in GetAttachedFrontends(tree)
  PROVE  fes \in Seq(Device)
<1> DEFINE n == Cardinality(Attached(tree))
<1>1. n \in Nat
  BY AttachedFinite, FS_CardinalityType
<1> HIDE DEF n
<1>2. PICK at \in [1..n -> Attached(tree)] :
        fes = [i \in DOMAIN at |-> Frontend(tree[at[i][1]][at[i][2]])]
  BY DEF GetAttachedFrontends, n
<1>3. ASSUME NEW i \in 1..n PROVE Frontend(tree[at[i][1]][at[i][2]]) \in Device
  <2>1. at[i] \in Attached(tree)
    OBVIOUS
  <2>2. PICK a \in DOMAIN tree : \E m \in DOMAIN tree[a] : at[i] = <<a, m>>
    BY <2>1 DEF Attached
  <2>3. PICK m \in DOMAIN tree[a] : at[i] = <<a, m>>
    BY <2>2
  <2>4. at[i][1] = a /\ at[i][2] = m
    BY <2>3
  <2> QED BY <2>4, FrontendIsDevice
<1>4. fes \in [1..n -> Device]
  BY <1>2, <1>3
<1> QED BY <1>1, <1>4

\* enumerateDevices(): what there is at start are devices, and nobody was refused.
LEMMA FrontendsInitInv ==
  ASSUME FrontendsInit
  PROVE  FrontendsTypeOK /\ tunable
<1>0. PICK tree \in Trees : \E fes \in GetAttachedFrontends(tree) : devices = EnumerateDevices(fes)
  BY DEF FrontendsInit
<1>1. PICK fes \in GetAttachedFrontends(tree) : devices = EnumerateDevices(fes)
  BY <1>0
<1>2. fes \in Seq(Device)
  BY <1>1, FoundAreDevices
<1>3. \A k \in {"file", "streamer", "childpipe"} : NoFrontend(k) \in Device
  BY DEF NoFrontend, Device
<1> DEFINE pipes == [i \in 1..NumChildPipes |-> NoFrontend("childpipe")]
<1>4. <<NoFrontend("file"), NoFrontend("streamer")>> \in Seq(Device)
  BY <1>3
<1>5. pipes \in Seq(Device)
  BY <1>3, FrontendsAssumption
<1> HIDE DEF pipes
<1> DEFINE readers == <<NoFrontend("file"), NoFrontend("streamer")>>
<1>6. devices = (fes \o readers) \o pipes
  BY <1>1 DEF EnumerateDevices, pipes
<1> HIDE DEF readers
<1>7. devices \in Seq(Device)
  <2>1. fes \o readers \in Seq(Device)
    BY <1>2, <1>4 DEF readers
  <2> QED BY <1>5, <1>6, <2>1
<1> QED BY <1>7 DEF FrontendsInit, FrontendsTypeOK

\* What can be said of a count, where each device has each system once at most.
LEMMA CountIs ==
  ASSUME FrontendsTypeOK, NEW s \in CountedSystems, NEW i \in Indexes
  PROVE  DeliverySystemCount(i)[s] \in {0, 1}
<1> DEFINE d == devices[i]
<1>1. d \in Device
  BY DEF FrontendsTypeOK, Indexes
<1>2. /\ d.dvbs \in {0, 1} /\ d.dvbs2 \in {0, 1} /\ d.dvbt \in {0, 1}
      /\ d.dvbt2 \in {0, 1} /\ d.dvbc \in {0, 1}
  BY <1>1 DEF Device
<1>3. SatelliteCount(d) \in {0, 1}
  BY <1>2 DEF SatelliteCount
<1> HIDE DEF d
<1> QED BY <1>2, <1>3 DEF DeliverySystemCount, CountedSystems, d

\* A device that counts for a system can receive it, if what it is advertised for is set up right.
LEMMA CountedIsCapable ==
  ASSUME FrontendsTypeOK, NEW s \in CountedSystems, NEW i \in Indexes,
         DeliverySystemCount(i)[s] > 0,
         SetUpRight(s) \/ s \in {"dvbt", "dvbt2"}
  PROVE  CapableOf(i, s) \/ CapableToTransform(i, "mapped")
<1> DEFINE d == devices[i]
<1>1. d \in Device
  BY DEF FrontendsTypeOK, Indexes
<1>2. /\ d.dvbs \in {0, 1} /\ d.dvbs2 \in {0, 1} /\ d.dvbt \in {0, 1}
      /\ d.dvbt2 \in {0, 1} /\ d.dvbc \in {0, 1}
  BY <1>1 DEF Device
<1>3. CASE (s = "dvbs2" /\ AdvertiseAsDVBS2(i)) \/ (s = "dvbc" /\ AdvertiseAsDVBC(i))
  BY <1>3 DEF SetUpRight
<1>4. CASE ~((s = "dvbs2" /\ AdvertiseAsDVBS2(i)) \/ (s = "dvbc" /\ AdvertiseAsDVBC(i)))
  <2>1. d.kind = "dvb"
    BY <1>4 DEF DeliverySystemCount, CountedSystems
  <2>2. CASE s = "dvbs2"
    <3>1. SatelliteCount(d) > 0
      BY <1>4, <2>1, <2>2 DEF DeliverySystemCount
    <3>2. d.dvbs + d.dvbs2 > 0
      BY <1>2, <3>1 DEF SatelliteCount
    <3> QED BY <2>1, <2>2, <3>2 DEF CapableOf
  <2>3. CASE s \in {"dvbt", "dvbt2"}
    <3>1. d.dvbt + d.dvbt2 > 0
      BY <1>2, <2>1, <2>3 DEF DeliverySystemCount
    <3> QED BY <2>1, <2>3, <3>1 DEF CapableOf
  <2>4. CASE s = "dvbc"
    <3>1. d.dvbc > 0
      BY <1>4, <2>1, <2>4 DEF DeliverySystemCount
    <3> QED BY <2>1, <2>4, <3>1 DEF CapableOf
  <2>5. CASE s = "dvbc2"
    BY <2>1, <2>5 DEF DeliverySystemCount
  <2> QED BY <2>2, <2>3, <2>4, <2>5 DEF CountedSystems
<1> QED BY <1>3, <1>4

\* The streams can be counted.
LEMMA IndexesFinite ==
  ASSUME FrontendsTypeOK
  PROVE  IsFiniteSet(Indexes)
<1>1. Len(devices) \in Nat /\ Indexes = 1..Len(devices)
  BY DEF FrontendsTypeOK, Indexes
<1> QED BY <1>1, FS_Interval

\* The sum is at most the number of the devices that count for the system.
LEMMA SumIsAtMost ==
  ASSUME FrontendsTypeOK, NEW s \in CountedSystems, NEW S \in SUBSET Indexes,
         \A i \in Indexes : setting[i].enabled /\ DeliverySystemCount(i)[s] > 0 => i \in S
  PROVE  /\ Advertised(s) \in Nat /\ Cardinality(S) \in Nat /\ IsFiniteSet(S)
         /\ Advertised(s) <= Cardinality(S)
<1> DEFINE f == [p \in CountsOf(s) |-> p[1]]
<1>1. IsFiniteSet(S)
  BY IndexesFinite, FS_Subset
<1>2. ASSUME NEW p \in CountsOf(s) PROVE p[1] \in S /\ p = <<p[1], 1>>
  <2>1. PICK i \in Indexes : setting[i].enabled /\ p \in {i} \X (1..DeliverySystemCount(i)[s])
    BY DEF CountsOf
  <2>2. p = <<i, p[2]>> /\ p[2] \in 1..DeliverySystemCount(i)[s]
    BY <2>1
  <2>3. DeliverySystemCount(i)[s] \in {0, 1}
    BY <2>1, CountIs
  <2>4. p[2] = 1 /\ DeliverySystemCount(i)[s] > 0
    BY <2>2, <2>3
  <2> QED BY <2>1, <2>2, <2>4
<1>3. f \in Injection(CountsOf(s), S)
  BY <1>2 DEF Injection, IsInjective
<1>4. IsFiniteSet(CountsOf(s)) /\ Cardinality(CountsOf(s)) <= Cardinality(S)
  BY <1>1, <1>3, FS_Injection
<1> QED BY <1>1, <1>4, FS_CardinalityType DEF Advertised

\* So when fewer sessions hold such devices than the description counts, one is free.
LEMMA PromisedIsFree ==
  ASSUME FrontendsTypeOK, NEW system, NEW freq, Promised(system, freq)
  PROVE  \E i \in Indexes : FreeFor(i, system, freq)
<1> DEFINE S == {i \in Indexes : setting[i].enabled /\ DeliverySystemCount(i)[system] > 0}
<1>1. system \in CountedSystems /\ freq = "mapped" /\ SetUpRight(system)
      /\ Cardinality(Holding(system)) < Advertised(system)
  BY DEF Promised
<1>2. SUFFICES ASSUME \A i \in Indexes : ~FreeFor(i, system, freq) PROVE FALSE
  OBVIOUS
<1>3. \A i \in S : claimed[i] # Nobody
  BY <1>1, <1>2, CountedIsCapable DEF FreeFor
<1>4. S = Holding(system)
  BY <1>3 DEF Holding
<1>5. Advertised(system) \in Nat /\ Cardinality(S) \in Nat /\ Advertised(system) <= Cardinality(S)
  BY <1>1, SumIsAtMost
<1> HIDE DEF S
<1> QED BY <1>1, <1>4, <1>5

\* Of the free streams, one is the first.
LEMMA SomeStreamIsFound ==
  ASSUME FrontendsTypeOK, NEW fe, NEW system, NEW freq, \E i \in Indexes : FreeFor(i, system, freq)
  PROVE  FindStreamFor(fe, system, freq) # {}
<1> DEFINE free == {i \in Indexes : FreeFor(i, system, freq)}
<1>1. free \in SUBSET Nat /\ free # {}
  BY DEF FrontendsTypeOK, Indexes
<1> HIDE DEF free
<1>2. PICK i \in free : \A j \in free : i <= j
  BY <1>1, LeastIs
<1> QED BY <1>2, Zenon DEF FindStreamFor, free

\* The inductive invariant: the devices stay what they are, and nobody was refused.
FrontendsInv == FrontendsTypeOK /\ tunable

\* A session, its end, and what the page sets keep it.
LEMMA FrontendsStep ==
  ASSUME FrontendsInv, [FrontendsNext]_frontendsVars
  PROVE  FrontendsInv'
<1>1. ASSUME NewSession PROVE FrontendsInv'
  <2>1. PICK system \in AskedSystems, freq \in Frequencies, fe \in {0} \cup Indexes :
          LET found == FindStreamFor(fe, system, freq)
          IN /\ claimed' = [i \in Indexes |->
                              IF i \notin found THEN claimed[i]
                              ELSE IF freq = "mapped" THEN system ELSE OtherFrequency]
             /\ tunable' = (tunable /\ (Promised(system, freq) => found # {}))
             /\ UNCHANGED <<devices, setting>>
    BY <1>1, Zenon DEF NewSession
  <2>2. Promised(system, freq) => FindStreamFor(fe, system, freq) # {}
    BY PromisedIsFree, SomeStreamIsFound DEF FrontendsInv
  <2>3. tunable'
    BY <2>1, <2>2, Zenon DEF FrontendsInv
  <2>4. claimed' \in [Indexes -> AskedSystems \cup {Nobody, OtherFrequency}]
    <3>1. \A i \in Indexes : claimed[i] \in AskedSystems \cup {Nobody, OtherFrequency}
      BY DEF FrontendsInv, FrontendsTypeOK
    <3> QED BY <2>1, <3>1, Zenon
  <2>5. Indexes' = Indexes /\ DefaultSetting' = DefaultSetting
    BY <2>1 DEF Indexes
  <2> QED BY <2>1, <2>3, <2>4, <2>5, Zenon DEF FrontendsInv, FrontendsTypeOK
<1>2. ASSUME SessionEnds PROVE FrontendsInv'
  BY <1>2 DEF SessionEnds, FrontendsInv, FrontendsTypeOK, Indexes
<1>3. ASSUME Configure PROVE FrontendsInv'
  BY <1>3 DEF Configure, FrontendsInv, FrontendsTypeOK, Indexes
<1>4. CASE UNCHANGED frontendsVars
  BY <1>4 DEF frontendsVars, FrontendsInv, FrontendsTypeOK, Indexes
<1> QED BY <1>1, <1>2, <1>3, <1>4 DEF FrontendsNext

\* What DESCRIBE counts of the terrestrial systems is at most two for each device that has one.
LEMMA FrontendsServe ==
  ASSUME FrontendsInv
  PROVE  AdvertisedIsServed
<1> DEFINE able == {i \in Indexes : setting[i].enabled /\ CapableOf(i, "dvbt")}
<1>1. FrontendsTypeOK /\ tunable
  BY DEF FrontendsInv
<1>2. ASSUME NEW s \in {"dvbt", "dvbt2"}
      PROVE  /\ Advertised(s) \in Nat /\ Cardinality(able) \in Nat
             /\ Advertised(s) <= Cardinality(able)
  <2>1. s \in CountedSystems
    BY DEF CountedSystems
  <2>2. ASSUME NEW i \in Indexes, setting[i].enabled, DeliverySystemCount(i)[s] > 0 PROVE i \in able
    <3>1. devices[i].kind = "dvb"
      BY <2>2 DEF DeliverySystemCount
    <3>2. DeliverySystemCount(i)[s] = IF s = "dvbt" THEN devices[i].dvbt ELSE devices[i].dvbt2
      BY <3>1 DEF DeliverySystemCount
    <3>3. devices[i] \in Device
      BY <1>1 DEF FrontendsTypeOK, Indexes
    <3>4. devices[i].dvbt \in {0, 1} /\ devices[i].dvbt2 \in {0, 1}
      BY <3>3 DEF Device
    <3>5. devices[i].dvbt + devices[i].dvbt2 > 0
      BY <2>2, <3>2, <3>4
    <3> QED BY <2>2, <3>1, <3>5 DEF CapableOf
  <2> QED BY <1>1, <2>1, <2>2, SumIsAtMost
<1> HIDE DEF able
<1>3. DescribeCounts[2] <= 2 * Cardinality(able)
  BY <1>2 DEF DescribeCounts
<1> QED BY <1>1, <1>3 DEF AdvertisedIsServed, able

\* StreamManager, DESCRIBE: whatever frontends are found and however the page and the sessions
\* change the streams, a session that the description promises a stream for finds one, and the
\* description counts no more terrestrial tuners than there are.
THEOREM AdvertisedAlwaysServed == FrontendsSpec => []AdvertisedIsServed
<1>1. FrontendsInit => FrontendsInv
  BY FrontendsInitInv DEF FrontendsInv
<1>2. FrontendsInv /\ [FrontendsNext]_frontendsVars => FrontendsInv'
  BY FrontendsStep
<1>3. FrontendsInv => AdvertisedIsServed
  BY FrontendsServe
<1> QED BY <1>1, <1>2, <1>3, PTL DEF FrontendsSpec

-----------------------------------------------------------------------------
(* Of the channel that a client asks for what DESCRIBE tells of it (module ChannelText) *)

\* Table: where every text stands once, the table has with it the number it is written with.
LEMMA TableTells ==
  ASSUME NEW pairs, \A p, q \in pairs : p[1] = q[1] => p = q
  PROVE  \A t, n : <<t, n>> \in pairs => t \in DOMAIN Table(pairs) /\ Table(pairs)[t] = n
<1> SUFFICES ASSUME NEW t, NEW n, <<t, n>> \in pairs
             PROVE  t \in DOMAIN Table(pairs) /\ Table(pairs)[t] = n
  OBVIOUS
<1>1. t \in {p[1] : p \in pairs}
  OBVIOUS
<1>2. (CHOOSE p \in pairs : p[1] = t) = <<t, n>>
  OBVIOUS
<1> QED BY <1>1, <1>2 DEF Table

\* Table: the numbers of a table are among those it is written with.
LEMMA TableIn ==
  ASSUME NEW pairs, NEW S, \A p \in pairs : p[2] \in S
  PROVE  \A t \in DOMAIN Table(pairs) : Table(pairs)[t] \in S
<1> SUFFICES ASSUME NEW t \in DOMAIN Table(pairs)
             PROVE  Table(pairs)[t] \in S
  OBVIOUS
<1>1. DOMAIN Table(pairs) = {p[1] : p \in pairs}
  BY DEF Table
<1>2. PICK p \in pairs : p[1] = t
  BY <1>1
<1>3. (CHOOSE q \in pairs : q[1] = t) \in pairs
  BY <1>2
<1>4. Table(pairs)[t] = (CHOOSE q \in pairs : q[1] = t)[2]
  BY DEF Table
<1> QED BY <1>3, <1>4

\* The FEC: what is told of it names it, or is empty where it is automatic.
LEMMA FecTells ==
  /\ \A t : \A old \in 1..12 : TextOr(FecOf, t, old, 9) \in 1..12
  /\ \A n \in 1..12 : \A old \in {n, 9} : TextOr(FecOf, fec_to_string(n), old, 9) = n
<1>1. PICK pairs :
        FecOf = Table(pairs) /\
        pairs = {<<"12", 1>>, <<"23", 2>>, <<"25", 12>>, <<"34", 3>>, <<"35", 10>>, <<"45", 4>>,
           <<"56", 5>>, <<"67", 6>>, <<"78", 7>>, <<"89", 8>>, <<"910", 11>>, <<"auto", 9>>}
  BY DEF FecOf
<1>2. FecOf = Table(pairs) /\ \A p, q \in pairs : p[1] = q[1] => p = q
  BY <1>1
<1>3. FecOf = Table(pairs) /\ \A p \in pairs : p[2] \in 1..12
  BY <1>1
<1>4. ASSUME NEW n \in 1..12, NEW old \in {n, 9}
      PROVE  TextOr(FecOf, fec_to_string(n), old, 9) = n
  <2> DEFINE t == fec_to_string(n)
  <2>1. /\ fec_to_string(1) = "12" /\ fec_to_string(2) = "23" /\ fec_to_string(3) = "34"
        /\ fec_to_string(4) = "45" /\ fec_to_string(5) = "56" /\ fec_to_string(6) = "67"
        /\ fec_to_string(7) = "78" /\ fec_to_string(8) = "89" /\ fec_to_string(9) = ""
        /\ fec_to_string(10) = "35" /\ fec_to_string(11) = "910" /\ fec_to_string(12) = "25"
    BY DEF fec_to_string, Text
  <2>2. n \in {1, 2, 3, 4, 5, 6, 7, 8, 9, 10, 11, 12}
    OBVIOUS
  <2>3. (n = 9 /\ t = "") \/ (t # "" /\ <<t, n>> \in pairs)
    BY <1>1, <2>1, <2>2
  <2>4. \A s, m : <<s, m>> \in pairs => s \in DOMAIN FecOf /\ FecOf[s] = m
    BY <1>2, TableTells
  <2> HIDE DEF t
  <2>5. (n = 9 /\ t = "") \/ (t # "" /\ t \in DOMAIN FecOf /\ FecOf[t] = n)
    BY <2>3, <2>4
  <2>6. TextOr(FecOf, t, old, 9) = n
    BY <2>5, Zenon DEF TextOr
  <2> QED BY <2>6 DEF t
<1>5. ASSUME NEW t, NEW old \in 1..12
      PROVE  TextOr(FecOf, t, old, 9) \in 1..12
  <2>1. \A s \in DOMAIN FecOf : FecOf[s] \in 1..12
    BY <1>3, TableIn
  <2>2. 9 \in 1..12
    OBVIOUS
  <2> QED BY <2>1, <2>2, Zenon DEF TextOr
<1> QED BY <1>4, <1>5

\* The modulation, unless it is automatic.
LEMMA ModTells ==
  /\ \A t : \A old \in 0..6 \cup 9..12 : TextOr(ModOf, t, old, old) \in 0..6 \cup 9..12
  /\ \A n \in 0..5 \cup 9..12 : \A old : TextOr(ModOf, modtype_to_string(n), old, old) = n
<1>1. PICK pairs :
        ModOf = Table(pairs) /\
        pairs = {<<"qpsk", 0>>, <<"dqpsk", 12>>, <<"8psk", 9>>, <<"psk8", 9>>, <<"16apsk", 10>>,
           <<"apsk16", 10>>, <<"32apsk", 11>>, <<"apsk32", 11>>, <<"16qam", 1>>, <<"qam16", 1>>,
           <<"32qam", 2>>, <<"qam32", 2>>, <<"64qam", 3>>, <<"qam64", 3>>, <<"128qam", 4>>,
           <<"qam128", 4>>, <<"256qam", 5>>, <<"qam256", 5>>}
  BY DEF ModOf
<1>2. ModOf = Table(pairs) /\ \A p, q \in pairs : p[1] = q[1] => p = q
  BY <1>1
<1>3. ModOf = Table(pairs) /\ \A p \in pairs : p[2] \in 0..6 \cup 9..12
  BY <1>1
<1>4. ASSUME NEW n \in 0..5 \cup 9..12, NEW old
      PROVE  TextOr(ModOf, modtype_to_string(n), old, old) = n
  <2> DEFINE t == modtype_to_string(n)
  <2>1. /\ modtype_to_string(0) = "qpsk" /\ modtype_to_string(1) = "16qam"
        /\ modtype_to_string(2) = "32qam" /\ modtype_to_string(3) = "64qam"
        /\ modtype_to_string(4) = "128qam" /\ modtype_to_string(5) = "256qam"
        /\ modtype_to_string(9) = "8psk" /\ modtype_to_string(10) = "16apsk"
        /\ modtype_to_string(11) = "32apsk" /\ modtype_to_string(12) = "dqpsk"
    BY DEF modtype_to_string, Text
  <2>2. n \in {0, 1, 2, 3, 4, 5, 9, 10, 11, 12}
    OBVIOUS
  <2>3. t # "" /\ <<t, n>> \in pairs
    BY <1>1, <2>1, <2>2
  <2>4. \A s, m : <<s, m>> \in pairs => s \in DOMAIN ModOf /\ ModOf[s] = m
    BY <1>2, TableTells
  <2> HIDE DEF t
  <2>5. t # "" /\ t \in DOMAIN ModOf /\ ModOf[t] = n
    BY <2>3, <2>4
  <2>6. TextOr(ModOf, t, old, old) = n
    BY <2>5, Zenon DEF TextOr
  <2> QED BY <2>6 DEF t
<1>5. ASSUME NEW t, NEW old \in 0..6 \cup 9..12
      PROVE  TextOr(ModOf, t, old, old) \in 0..6 \cup 9..12
  <2>1. \A s \in DOMAIN ModOf : ModOf[s] \in 0..6 \cup 9..12
    BY <1>3, TableIn
  <2>2. old \in 0..6 \cup 9..12
    OBVIOUS
  <2> QED BY <2>1, <2>2, Zenon DEF TextOr
<1> QED BY <1>4, <1>5

\* The roll-off.
LEMMA RolloffTells ==
  /\ \A t : \A old \in 0..3 : TextOr(RolloffOf, t, old, 3) \in 0..3
  /\ \A n \in 0..3 : \A old \in {n, 3} : TextOr(RolloffOf, rolloff_to_string(n), old, 3) = n
<1>1. PICK pairs :
        RolloffOf = Table(pairs) /\
        pairs = {<<"0.35", 0>>, <<"0.25", 2>>, <<"0.20", 1>>, <<"auto", 3>>}
  BY DEF RolloffOf
<1>2. RolloffOf = Table(pairs) /\ \A p, q \in pairs : p[1] = q[1] => p = q
  BY <1>1
<1>3. RolloffOf = Table(pairs) /\ \A p \in pairs : p[2] \in 0..3
  BY <1>1
<1>4. ASSUME NEW n \in 0..3, NEW old \in {n, 3}
      PROVE  TextOr(RolloffOf, rolloff_to_string(n), old, 3) = n
  <2> DEFINE t == rolloff_to_string(n)
  <2>1. /\ rolloff_to_string(0) = "0.35" /\ rolloff_to_string(1) = "0.20"
        /\ rolloff_to_string(2) = "0.25" /\ rolloff_to_string(3) = ""
    BY DEF rolloff_to_string, Text
  <2>2. n \in {0, 1, 2, 3}
    OBVIOUS
  <2>3. (n = 3 /\ t = "") \/ (t # "" /\ <<t, n>> \in pairs)
    BY <1>1, <2>1, <2>2
  <2>4. \A s, m : <<s, m>> \in pairs => s \in DOMAIN RolloffOf /\ RolloffOf[s] = m
    BY <1>2, TableTells
  <2> HIDE DEF t
  <2>5. (n = 3 /\ t = "") \/ (t # "" /\ t \in DOMAIN RolloffOf /\ RolloffOf[t] = n)
    BY <2>3, <2>4
  <2>6. TextOr(RolloffOf, t, old, 3) = n
    BY <2>5, Zenon DEF TextOr
  <2> QED BY <2>6 DEF t
<1>5. ASSUME NEW t, NEW old \in 0..3
      PROVE  TextOr(RolloffOf, t, old, 3) \in 0..3
  <2>1. \A s \in DOMAIN RolloffOf : RolloffOf[s] \in 0..3
    BY <1>3, TableIn
  <2>2. 3 \in 0..3
    OBVIOUS
  <2> QED BY <2>1, <2>2, Zenon DEF TextOr
<1> QED BY <1>4, <1>5

\* The pilot tones.
LEMMA PilotTells ==
  /\ \A t : \A old \in 0..2 : TextOr(PilotOf, t, old, 2) \in 0..2
  /\ \A n \in 0..2 : \A old \in {n, 2} : TextOr(PilotOf, pilot_tone_to_string(n), old, 2) = n
<1>1. PICK pairs :
        PilotOf = Table(pairs) /\
        pairs = {<<"on", 0>>, <<"off", 1>>, <<"auto", 2>>}
  BY DEF PilotOf
<1>2. PilotOf = Table(pairs) /\ \A p, q \in pairs : p[1] = q[1] => p = q
  BY <1>1
<1>3. PilotOf = Table(pairs) /\ \A p \in pairs : p[2] \in 0..2
  BY <1>1
<1>4. ASSUME NEW n \in 0..2, NEW old \in {n, 2}
      PROVE  TextOr(PilotOf, pilot_tone_to_string(n), old, 2) = n
  <2> DEFINE t == pilot_tone_to_string(n)
  <2>1. /\ pilot_tone_to_string(0) = "on" /\ pilot_tone_to_string(1) = "off"
        /\ pilot_tone_to_string(2) = ""
    BY DEF pilot_tone_to_string, Text
  <2>2. n \in {0, 1, 2}
    OBVIOUS
  <2>3. (n = 2 /\ t = "") \/ (t # "" /\ <<t, n>> \in pairs)
    BY <1>1, <2>1, <2>2
  <2>4. \A s, m : <<s, m>> \in pairs => s \in DOMAIN PilotOf /\ PilotOf[s] = m
    BY <1>2, TableTells
  <2> HIDE DEF t
  <2>5. (n = 2 /\ t = "") \/ (t # "" /\ t \in DOMAIN PilotOf /\ PilotOf[t] = n)
    BY <2>3, <2>4
  <2>6. TextOr(PilotOf, t, old, 2) = n
    BY <2>5, Zenon DEF TextOr
  <2> QED BY <2>6 DEF t
<1>5. ASSUME NEW t, NEW old \in 0..2
      PROVE  TextOr(PilotOf, t, old, 2) \in 0..2
  <2>1. \A s \in DOMAIN PilotOf : PilotOf[s] \in 0..2
    BY <1>3, TableIn
  <2>2. 2 \in 0..2
    OBVIOUS
  <2> QED BY <2>1, <2>2, Zenon DEF TextOr
<1> QED BY <1>4, <1>5

\* The transmission mode.
LEMMA TransTells ==
  /\ \A t : \A old \in 0..6 : TextOr(TransOf, t, old, 2) \in 0..6
  /\ \A n \in 0..6 : \A old \in {n, 2} : TextOr(TransOf, transmode_to_string(n), old, 2) = n
<1>1. PICK pairs :
        TransOf = Table(pairs) /\
        pairs = {<<"1k", 4>>, <<"2k", 0>>, <<"4k", 3>>, <<"8k", 1>>, <<"16k", 5>>,
           <<"32k", 6>>, <<"auto", 2>>}
  BY DEF TransOf
<1>2. TransOf = Table(pairs) /\ \A p, q \in pairs : p[1] = q[1] => p = q
  BY <1>1
<1>3. TransOf = Table(pairs) /\ \A p \in pairs : p[2] \in 0..6
  BY <1>1
<1>4. ASSUME NEW n \in 0..6, NEW old \in {n, 2}
      PROVE  TextOr(TransOf, transmode_to_string(n), old, 2) = n
  <2> DEFINE t == transmode_to_string(n)
  <2>1. /\ transmode_to_string(0) = "2k" /\ transmode_to_string(1) = "8k"
        /\ transmode_to_string(2) = "" /\ transmode_to_string(3) = "4k"
        /\ transmode_to_string(4) = "1k" /\ transmode_to_string(5) = "16k"
        /\ transmode_to_string(6) = "32k"
    BY DEF transmode_to_string, Text
  <2>2. n \in {0, 1, 2, 3, 4, 5, 6}
    OBVIOUS
  <2>3. (n = 2 /\ t = "") \/ (t # "" /\ <<t, n>> \in pairs)
    BY <1>1, <2>1, <2>2
  <2>4. \A s, m : <<s, m>> \in pairs => s \in DOMAIN TransOf /\ TransOf[s] = m
    BY <1>2, TableTells
  <2> HIDE DEF t
  <2>5. (n = 2 /\ t = "") \/ (t # "" /\ t \in DOMAIN TransOf /\ TransOf[t] = n)
    BY <2>3, <2>4
  <2>6. TextOr(TransOf, t, old, 2) = n
    BY <2>5, Zenon DEF TextOr
  <2> QED BY <2>6 DEF t
<1>5. ASSUME NEW t, NEW old \in 0..6
      PROVE  TextOr(TransOf, t, old, 2) \in 0..6
  <2>1. \A s \in DOMAIN TransOf : TransOf[s] \in 0..6
    BY <1>3, TableIn
  <2>2. 2 \in 0..6
    OBVIOUS
  <2> QED BY <2>1, <2>2, Zenon DEF TextOr
<1> QED BY <1>4, <1>5

\* The guard interval.
LEMMA GuardTells ==
  /\ \A t : \A old \in 0..7 : TextOr(GuardOf, t, old, 4) \in 0..7
  /\ \A n \in 0..7 : \A old \in {n, 4} : TextOr(GuardOf, guardinter_to_string(n), old, 4) = n
<1>1. PICK pairs :
        GuardOf = Table(pairs) /\
        pairs = {<<"14", 3>>, <<"18", 2>>, <<"116", 1>>, <<"132", 0>>, <<"1128", 5>>,
           <<"19128", 6>>, <<"19256", 7>>, <<"auto", 4>>}
  BY DEF GuardOf
<1>2. GuardOf = Table(pairs) /\ \A p, q \in pairs : p[1] = q[1] => p = q
  BY <1>1
<1>3. GuardOf = Table(pairs) /\ \A p \in pairs : p[2] \in 0..7
  BY <1>1
<1>4. ASSUME NEW n \in 0..7, NEW old \in {n, 4}
      PROVE  TextOr(GuardOf, guardinter_to_string(n), old, 4) = n
  <2> DEFINE t == guardinter_to_string(n)
  <2>1. /\ guardinter_to_string(0) = "132" /\ guardinter_to_string(1) = "116"
        /\ guardinter_to_string(2) = "18" /\ guardinter_to_string(3) = "14"
        /\ guardinter_to_string(4) = "" /\ guardinter_to_string(5) = "1128"
        /\ guardinter_to_string(6) = "19128" /\ guardinter_to_string(7) = "19256"
    BY DEF guardinter_to_string, Text
  <2>2. n \in {0, 1, 2, 3, 4, 5, 6, 7}
    OBVIOUS
  <2>3. (n = 4 /\ t = "") \/ (t # "" /\ <<t, n>> \in pairs)
    BY <1>1, <2>1, <2>2
  <2>4. \A s, m : <<s, m>> \in pairs => s \in DOMAIN GuardOf /\ GuardOf[s] = m
    BY <1>2, TableTells
  <2> HIDE DEF t
  <2>5. (n = 4 /\ t = "") \/ (t # "" /\ t \in DOMAIN GuardOf /\ GuardOf[t] = n)
    BY <2>3, <2>4
  <2>6. TextOr(GuardOf, t, old, 4) = n
    BY <2>5, Zenon DEF TextOr
  <2> QED BY <2>6 DEF t
<1>5. ASSUME NEW t, NEW old \in 0..7
      PROVE  TextOr(GuardOf, t, old, 4) \in 0..7
  <2>1. \A s \in DOMAIN GuardOf : GuardOf[s] \in 0..7
    BY <1>3, TableIn
  <2>2. 4 \in 0..7
    OBVIOUS
  <2> QED BY <2>1, <2>2, Zenon DEF TextOr
<1> QED BY <1>4, <1>5

\* The polarization.
LEMMA PolTells ==
  /\ \A t : \A old \in 0..3 : TextOr(PolOf, t, old, old) \in 0..3
  /\ \A n \in 0..3 : \A old : TextOr(PolOf, PolarizationChar(n), old, old) = n
<1>1. PICK pairs :
        PolOf = Table(pairs) /\
        pairs = {<<"h", 0>>, <<"v", 1>>, <<"l", 2>>, <<"r", 3>>}
  BY DEF PolOf
<1>2. PolOf = Table(pairs) /\ \A p, q \in pairs : p[1] = q[1] => p = q
  BY <1>1
<1>3. PolOf = Table(pairs) /\ \A p \in pairs : p[2] \in 0..3
  BY <1>1
<1>4. ASSUME NEW n \in 0..3, NEW old
      PROVE  TextOr(PolOf, PolarizationChar(n), old, old) = n
  <2> DEFINE t == PolarizationChar(n)
  <2>1. /\ PolarizationChar(0) = "h" /\ PolarizationChar(1) = "v" /\ PolarizationChar(2) = "l"
        /\ PolarizationChar(3) = "r"
    BY DEF PolarizationChar, Text
  <2>2. n \in {0, 1, 2, 3}
    OBVIOUS
  <2>3. t # "" /\ <<t, n>> \in pairs
    BY <1>1, <2>1, <2>2
  <2>4. \A s, m : <<s, m>> \in pairs => s \in DOMAIN PolOf /\ PolOf[s] = m
    BY <1>2, TableTells
  <2> HIDE DEF t
  <2>5. t # "" /\ t \in DOMAIN PolOf /\ PolOf[t] = n
    BY <2>3, <2>4
  <2>6. TextOr(PolOf, t, old, old) = n
    BY <2>5, Zenon DEF TextOr
  <2> QED BY <2>6 DEF t
<1>5. ASSUME NEW t, NEW old \in 0..3
      PROVE  TextOr(PolOf, t, old, old) \in 0..3
  <2>1. \A s \in DOMAIN PolOf : PolOf[s] \in 0..3
    BY <1>3, TableIn
  <2>2. old \in 0..3
    OBVIOUS
  <2> QED BY <2>1, <2>2, Zenon DEF TextOr
<1> QED BY <1>4, <1>5

\* The system: what is told of it names it.
LEMMA SystemTells ==
  /\ \A r : MsysParameter(r) \in Satellite \cup Terrestrial \cup CableTV \cup {"UNDEFINED"}
  /\ \A s \in Satellite \cup Terrestrial \cup CableTV :
       TextOr(SystemOf, delsys_to_string(s), "UNDEFINED", "UNDEFINED") = s
<1> DEFINE Systems == Satellite \cup Terrestrial \cup CableTV
<1>1. PICK pairs :
        SystemOf = Table(pairs) /\
        pairs = {<<"dvbs2", "DVBS2">>, <<"dvbs2x", "DVBS2">>, <<"dvbs", "DVBS">>,
           <<"dvbt", "DVBT">>, <<"dvbt2", "DVBT2">>, <<"dvbc", "DVBC">>}
  BY DEF SystemOf
<1>2. SystemOf = Table(pairs) /\ \A p, q \in pairs : p[1] = q[1] => p = q
  BY <1>1
<1>3. SystemOf = Table(pairs) /\ \A p \in pairs : p[2] \in Systems
  BY <1>1 DEF Satellite, Terrestrial, CableTV
<1>4. ASSUME NEW s \in Systems
      PROVE  TextOr(SystemOf, delsys_to_string(s), "UNDEFINED", "UNDEFINED") = s
  <2> DEFINE t == delsys_to_string(s)
  <2>1. s \in {"DVBS", "DVBS2", "DVBC", "DVBT", "DVBT2"}
    BY DEF Satellite, Terrestrial, CableTV
  <2>2. t # "" /\ <<t, s>> \in pairs
    BY <1>1, <2>1 DEF delsys_to_string
  <2>3. \A u, m : <<u, m>> \in pairs => u \in DOMAIN SystemOf /\ SystemOf[u] = m
    BY <1>2, TableTells
  <2> HIDE DEF t
  <2>4. t # "" /\ t \in DOMAIN SystemOf /\ SystemOf[t] = s
    BY <2>2, <2>3
  <2>5. TextOr(SystemOf, t, "UNDEFINED", "UNDEFINED") = s
    BY <2>4, Zenon DEF TextOr
  <2> QED BY <2>5 DEF t
<1> HIDE DEF Systems
<1>5. ASSUME NEW r
      PROVE  MsysParameter(r) \in Systems \cup {"UNDEFINED"}
  <2>1. \A s \in DOMAIN SystemOf : SystemOf[s] \in Systems
    BY <1>3, TableIn
  <2> QED BY <2>1, Zenon DEF MsysParameter, TextOr
<1> QED BY <1>4, <1>5 DEF Systems

-----------------------------------------------------------------------------

\* getIntParameter(): a parameter that a request gives as a number is one, or is not given.
LEMMA NumberIn ==
  ASSUME ChannelTextAssumption, NEW r \in ChannelRequests, NEW p \in NumberNames
  PROVE  Number(r, p) \in Nat \cup {-1}
<1>1. p \in DOMAIN r => r[p] \in Int
  <2>1. CASE \E q \in DOMAIN Texts : r \in [{q} -> Texts[q]]
    BY <2>1 DEF ChannelTextAssumption
  <2>2. CASE r \in [msys : Texts["msys"], mtype : Texts["mtype"]]
    BY <2>2 DEF NumberNames
  <2>3. CASE r \in [isi : Texts["isi"], plsm : Texts["plsm"], plsc : Texts["plsc"]]
    BY <2>3 DEF ChannelTextAssumption, NumberNames
  <2>4. \/ \E q \in DOMAIN Texts : r \in [{q} -> Texts[q]]
        \/ r \in [msys : Texts["msys"], mtype : Texts["mtype"]]
        \/ r \in [isi : Texts["isi"], plsm : Texts["plsm"], plsc : Texts["plsc"]]
    <3>1. \/ r \in UNION {[{q} -> Texts[q]] : q \in DOMAIN Texts \ {"plsm", "plsc"}}
          \/ r \in [msys : Texts["msys"], mtype : Texts["mtype"]]
          \/ r \in [isi : Texts["isi"], plsm : Texts["plsm"], plsc : Texts["plsc"]]
      BY Zenon DEF ChannelRequests
    <3>2. r \in UNION {[{q} -> Texts[q]] : q \in DOMAIN Texts \ {"plsm", "plsc"}}
            => \E q \in DOMAIN Texts : r \in [{q} -> Texts[q]]
      OBVIOUS
    <3> QED BY <3>1, <3>2, Zenon
  <2> QED BY <2>1, <2>2, <2>3, <2>4
<1> QED BY <1>1 DEF Number

\* doParseStreamString(): a request for one of the systems has the modulation one of the known.
LEMMA ModulationIn ==
  ASSUME NEW r, NEW old \in 0..6 \cup 9..12
  PROVE  ModulationOf(r, old) \in 0..6 \cup 9..12
<1>1. MsysParameter(r) \in {"DVBS", "DVBS2", "DVBT", "DVBT2", "DVBC", "UNDEFINED"}
  BY SystemTells DEF Satellite, Terrestrial, CableTV
<1>2. TextOr(ModOf, Parameter(r, "mtype"), old, old) \in 0..6 \cup 9..12
  BY ModTells
<1>3. CASE Parameter(r, "mtype") # ""
  BY <1>2, <1>3 DEF ModulationOf
<1>4. CASE Parameter(r, "mtype") = ""
  <2>1. ModulationOf(r, old) \in {0, 9, AutoMod, old}
    BY <1>1, <1>4, Zenon DEF ModulationOf, Satellite, Terrestrial, CableTV
  <2> QED BY <2>1 DEF AutoMod, NewChannel
<1> QED BY <1>3, <1>4

\* FrontendData::doParseStreamString(): the fields of the channel it makes.
LEMMA ParsedFields ==
  ASSUME NEW c, NEW r, NEW d, d = ParsedStreamString(c, r)
  PROVE  /\ d.delsys = IF MsysParameter(r) = "UNDEFINED" THEN c.delsys ELSE MsysParameter(r)
         /\ d.mod = ModulationOf(r, c.mod)
         /\ d.srate = IF Number(r, "sr") = -1 THEN c.srate ELSE 1000 * Number(r, "sr")
         /\ d.fec = TextOr(FecOf, Parameter(r, "fec"), c.fec, 9)
         /\ d.rolloff = TextOr(RolloffOf, Parameter(r, "ro"), c.rolloff, 3)
         /\ d.inversion = Given(Number(r, "specinv"), c.inversion)
         /\ d.pilot = TextOr(PilotOf, Parameter(r, "plts"), c.pilot, 2)
         /\ d.src = IF Number(r, "src") \in 1..255 THEN Number(r, "src") ELSE 1
         /\ d.pol = TextOr(PolOf, Parameter(r, "pol"), c.pol, c.pol)
         /\ d.isId = Number(r, "isi")
         /\ d.plsMode = Given(Number(r, "plsm"), 1) % 4
         /\ d.plsCode = Given(Number(r, "plsc"), 0) % 262144
         /\ d.bandwidth = Given(Number(r, "bw"), c.bandwidth)
         /\ d.trans = TextOr(TransOf, Parameter(r, "tmode"), c.trans, 2)
         /\ d.guard = TextOr(GuardOf, Parameter(r, "gi"), c.guard, 4)
         /\ d.plp = Number(r, "plp")
         /\ d.t2id = Given(Number(r, "t2id"), c.t2id)
         /\ d.siso = Given(Number(r, "sm"), c.siso)
         /\ d = [delsys |-> d.delsys, mod |-> d.mod, srate |-> d.srate, fec |-> d.fec,
                 rolloff |-> d.rolloff, inversion |-> d.inversion, pilot |-> d.pilot,
                 src |-> d.src, pol |-> d.pol, isId |-> d.isId, plsMode |-> d.plsMode,
                 plsCode |-> d.plsCode, bandwidth |-> d.bandwidth, trans |-> d.trans,
                 guard |-> d.guard, plp |-> d.plp, t2id |-> d.t2id, siso |-> d.siso]
BY DEF ParsedStreamString

\* FrontendData::doParseStreamString(): whatever the request, each field of the channel is one
\* that the frontend knows, and the symbol rate is of whole kBd.
LEMMA ParsedIsChannel ==
  ASSUME ChannelTextAssumption, NEW r \in ChannelRequests, NEW c \in ParsedChannels, c.srate % 1000 = 0
  PROVE  /\ ParsedStreamString(c, r) \in ParsedChannels
         /\ ParsedStreamString(c, r).srate % 1000 = 0
<1> DEFINE d == ParsedStreamString(c, r)
<1> HIDE DEF d
<1>1. /\ c.delsys \in Satellite \cup Terrestrial \cup CableTV \cup {"UNDEFINED"}
      /\ c.mod \in 0..6 \cup 9..12 /\ c.srate \in Nat /\ c.fec \in 1..12 /\ c.rolloff \in 0..3
      /\ c.inversion \in Nat /\ c.pilot \in 0..2 /\ c.pol \in 0..3 /\ c.bandwidth \in Nat
      /\ c.trans \in 0..6 /\ c.guard \in 0..7 /\ c.t2id \in Nat /\ c.siso \in Nat
  BY DEF ParsedChannels
<1>2. \A p \in NumberNames : Number(r, p) \in Nat \cup {-1}
  BY NumberIn
<1>3. /\ Number(r, "sr") \in Nat \cup {-1} /\ Number(r, "src") \in Nat \cup {-1}
      /\ Number(r, "isi") \in Nat \cup {-1} /\ Number(r, "plsm") \in Nat \cup {-1}
      /\ Number(r, "plsc") \in Nat \cup {-1} /\ Number(r, "plp") \in Nat \cup {-1}
      /\ Number(r, "specinv") \in Nat \cup {-1} /\ Number(r, "bw") \in Nat \cup {-1}
      /\ Number(r, "t2id") \in Nat \cup {-1} /\ Number(r, "sm") \in Nat \cup {-1}
  BY <1>2 DEF NumberNames
<1>4. \A n \in Nat \cup {-1}, old \in Nat : Given(n, old) \in Nat
  BY DEF Given
<1>5. MsysParameter(r) \in Satellite \cup Terrestrial \cup CableTV \cup {"UNDEFINED"}
  BY SystemTells
<1>6. ModulationOf(r, c.mod) \in 0..6 \cup 9..12
  BY <1>1, ModulationIn
<1>7. /\ TextOr(FecOf, Parameter(r, "fec"), c.fec, 9) \in 1..12
      /\ TextOr(RolloffOf, Parameter(r, "ro"), c.rolloff, 3) \in 0..3
      /\ TextOr(PilotOf, Parameter(r, "plts"), c.pilot, 2) \in 0..2
      /\ TextOr(PolOf, Parameter(r, "pol"), c.pol, c.pol) \in 0..3
      /\ TextOr(TransOf, Parameter(r, "tmode"), c.trans, 2) \in 0..6
      /\ TextOr(GuardOf, Parameter(r, "gi"), c.guard, 4) \in 0..7
  <2>1. TextOr(FecOf, Parameter(r, "fec"), c.fec, 9) \in 1..12
    BY <1>1, FecTells
  <2>2. TextOr(RolloffOf, Parameter(r, "ro"), c.rolloff, 3) \in 0..3
    BY <1>1, RolloffTells
  <2>3. TextOr(PilotOf, Parameter(r, "plts"), c.pilot, 2) \in 0..2
    BY <1>1, PilotTells
  <2>4. TextOr(PolOf, Parameter(r, "pol"), c.pol, c.pol) \in 0..3
    BY <1>1, PolTells
  <2>5. TextOr(TransOf, Parameter(r, "tmode"), c.trans, 2) \in 0..6
    BY <1>1, TransTells
  <2>6. TextOr(GuardOf, Parameter(r, "gi"), c.guard, 4) \in 0..7
    BY <1>1, GuardTells
  <2> QED BY <2>1, <2>2, <2>3, <2>4, <2>5, <2>6
<1>8. /\ Given(Number(r, "plsm"), 1) % 4 \in 0..3
      /\ Given(Number(r, "plsc"), 0) % 262144 \in {n \in Nat : n < 262144}
  <2>1. Given(Number(r, "plsm"), 1) \in Nat /\ Given(Number(r, "plsc"), 0) \in Nat
    BY <1>3, <1>4
  <2>2. \A n \in Nat : n % 4 \in 0..3
    OBVIOUS
  <2>3. \A n \in Nat : n % 262144 \in Nat /\ n % 262144 < 262144
    BY SMT
  <2> QED BY <2>1, <2>2, <2>3, SMT
<1>9. /\ Given(Number(r, "specinv"), c.inversion) \in Nat
      /\ Given(Number(r, "bw"), c.bandwidth) \in Nat
      /\ Given(Number(r, "t2id"), c.t2id) \in Nat
      /\ Given(Number(r, "sm"), c.siso) \in Nat
  BY <1>1, <1>3, <1>4
<1>10. d.srate \in Nat /\ d.srate % 1000 = 0
  <2>1. \A n \in Nat : 1000 * n \in Nat /\ (1000 * n) % 1000 = 0
    OBVIOUS
  <2>2. d.srate = IF Number(r, "sr") = -1 THEN c.srate ELSE 1000 * Number(r, "sr")
    BY ParsedFields DEF d
  <2> QED BY <1>1, <1>3, <2>1, <2>2
<1>11. d.delsys \in Satellite \cup Terrestrial \cup CableTV \cup {"UNDEFINED"}
  <2>1. d.delsys = IF MsysParameter(r) = "UNDEFINED" THEN c.delsys ELSE MsysParameter(r)
    BY ParsedFields DEF d
  <2> QED BY <1>1, <1>5, <2>1
<1>12. /\ d.mod \in 0..6 \cup 9..12 /\ d.fec \in 1..12 /\ d.rolloff \in 0..3
       /\ d.inversion \in Nat /\ d.pilot \in 0..2 /\ d.src \in 1..255 /\ d.pol \in 0..3
       /\ d.isId \in Nat \cup {NO_STREAM_ID} /\ d.plsMode \in 0..3
       /\ d.plsCode \in {n \in Nat : n < 262144}
  <2>1. d.src \in 1..255
    <3>1. d.src = IF Number(r, "src") \in 1..255 THEN Number(r, "src") ELSE 1
      BY ParsedFields DEF d
    <3> QED BY <3>1
  <2> QED BY <1>3, <1>6, <1>7, <1>8, <1>9, <2>1, ParsedFields DEF d, NO_STREAM_ID
<1>13. /\ d.bandwidth \in Nat /\ d.trans \in 0..6 /\ d.guard \in 0..7
       /\ d.plp \in Nat \cup {NO_STREAM_ID} /\ d.t2id \in Nat /\ d.siso \in Nat
  BY <1>3, <1>7, <1>9, ParsedFields DEF d, NO_STREAM_ID
<1>14. d = [delsys |-> d.delsys, mod |-> d.mod, srate |-> d.srate, fec |-> d.fec,
            rolloff |-> d.rolloff, inversion |-> d.inversion, pilot |-> d.pilot, src |-> d.src,
            pol |-> d.pol, isId |-> d.isId, plsMode |-> d.plsMode, plsCode |-> d.plsCode,
            bandwidth |-> d.bandwidth, trans |-> d.trans, guard |-> d.guard, plp |-> d.plp,
            t2id |-> d.t2id, siso |-> d.siso]
  BY ParsedFields DEF d
<1>15. d \in ParsedChannels
  BY <1>10, <1>11, <1>12, <1>13, <1>14 DEF ParsedChannels
<1> QED BY <1>10, <1>15 DEF d

\* doInitialize(): a new channel is one that the frontend knows.
LEMMA NewChannelIs == NewChannel \in ParsedChannels /\ NewChannel.srate % 1000 = 0
<1>1. NewChannel.srate = 0
  BY DEF NewChannel
<1>2. 0 % 1000 = 0
  OBVIOUS
<1>3. NewChannel \in ParsedChannels
  BY DEF NewChannel, ParsedChannels, Satellite, Terrestrial, CableTV, NO_STREAM_ID
<1> QED BY <1>1, <1>2, <1>3

\* The channel is always one that the frontend knows.
LEMMA ChannelIsKept ==
  ASSUME ChannelTextAssumption
  PROVE  ChannelTextSpec => []ChannelTextTypeOK
<1>1. ChannelTextInit => ChannelTextTypeOK
  BY NewChannelIs DEF ChannelTextInit, ChannelTextTypeOK
<1>2. ChannelTextTypeOK /\ [ChannelTextNext]_channelTextVars => ChannelTextTypeOK'
  <2> SUFFICES ASSUME ChannelTextTypeOK, [ChannelTextNext]_channelTextVars
               PROVE  ChannelTextTypeOK'
    OBVIOUS
  <2>1. CASE UNCHANGED channelTextVars
    BY <2>1 DEF ChannelTextTypeOK, channelTextVars
  <2>2. ASSUME NEW r \in ChannelRequests, NEW from \in ParsedChannels, from.srate % 1000 = 0,
               ChannelRequest(r, from)
        PROVE  ChannelTextTypeOK'
    <3>1. channel' = ParsedStreamString(from, r) /\ api' = api
      BY <2>2, Zenon DEF ChannelRequest
    <3> QED BY <2>2, <3>1, ParsedIsChannel DEF ChannelTextTypeOK
  <2>3. CASE ChannelTextNext
    <3>1. PICK r \in ChannelRequests :
            ChannelRequest(r, channel) \/ ChannelRequest(r, NewChannel)
      BY <2>3, Zenon DEF ChannelTextNext
    <3> QED BY <2>2, <3>1, NewChannelIs DEF ChannelTextTypeOK
  <2> QED BY <2>1, <2>3
<1> QED BY <1>1, <1>2, PTL DEF ChannelTextSpec

-----------------------------------------------------------------------------

\* What a client asks for that asks for what DESCRIBE tells of a satellite channel.
LEMMA SatelliteTells ==
  ASSUME NEW c \in ParsedChannels, c.delsys \in Satellite, NEW r, r = AttributeDescribeString(c)
  PROVE  /\ MsysParameter(r) = c.delsys
         /\ Parameter(r, "mtype") = modtype_to_string(c.mod)
         /\ Parameter(r, "plts") = pilot_tone_to_string(c.pilot)
         /\ Parameter(r, "ro") = rolloff_to_string(c.rolloff)
         /\ Parameter(r, "fec") = fec_to_string(c.fec)
         /\ Parameter(r, "pol") = PolarizationChar(c.pol)
         /\ Number(r, "src") = c.src /\ Number(r, "sr") = c.srate \div 1000
         /\ Number(r, "isi") = -1 /\ Number(r, "plsm") = -1 /\ Number(r, "plsc") = -1
<1>1. r = [src |-> c.src, pol |-> PolarizationChar(c.pol), msys |-> delsys_to_string(c.delsys),
           mtype |-> modtype_to_string(c.mod), plts |-> pilot_tone_to_string(c.pilot),
           ro |-> rolloff_to_string(c.rolloff), sr |-> c.srate \div 1000,
           fec |-> fec_to_string(c.fec)]
  BY DEF AttributeDescribeString, Satellite, Terrestrial, CableTV
<1>2. c.src \in 1..255 /\ c.srate \div 1000 \in Nat
  BY DEF ParsedChannels
<1>3. Parameter(r, "msys") = delsys_to_string(c.delsys)
  BY <1>1 DEF Parameter
<1>4. MsysParameter(r) = c.delsys
  BY <1>3, SystemTells, Zenon DEF MsysParameter
<1> QED BY <1>1, <1>2, <1>4 DEF Parameter, Number

\* What a client asks for that asks for what DESCRIBE tells of a terrestrial channel.
LEMMA TerrestrialTells ==
  ASSUME NEW c \in ParsedChannels, c.delsys \in Terrestrial, NEW r, r = AttributeDescribeString(c)
  PROVE  /\ MsysParameter(r) = c.delsys
         /\ Parameter(r, "mtype") = modtype_to_string(c.mod)
         /\ Parameter(r, "fec") = fec_to_string(c.fec)
         /\ Parameter(r, "tmode") = transmode_to_string(c.trans)
         /\ Parameter(r, "gi") = guardinter_to_string(c.guard)
         /\ Number(r, "bw") = c.bandwidth /\ Number(r, "plp") = c.plp
         /\ Number(r, "specinv") = -1
<1>1. r = [bw |-> c.bandwidth, msys |-> delsys_to_string(c.delsys),
           tmode |-> transmode_to_string(c.trans), mtype |-> modtype_to_string(c.mod),
           gi |-> guardinter_to_string(c.guard), fec |-> fec_to_string(c.fec), plp |-> c.plp,
           t2id |-> c.t2id, sm |-> c.siso]
  BY DEF AttributeDescribeString, Satellite, Terrestrial, CableTV
<1>2. c.bandwidth \in Nat /\ c.plp \in Nat \cup {-1}
  BY DEF ParsedChannels, NO_STREAM_ID
<1>3. Parameter(r, "msys") = delsys_to_string(c.delsys)
  BY <1>1 DEF Parameter
<1>4. MsysParameter(r) = c.delsys
  BY <1>3, SystemTells, Zenon DEF MsysParameter
<1> QED BY <1>1, <1>2, <1>4 DEF Parameter, Number

\* What a client asks for that asks for what DESCRIBE tells of a cable channel.
LEMMA CableTells ==
  ASSUME NEW c \in ParsedChannels, c.delsys \in CableTV, NEW r, r = AttributeDescribeString(c)
  PROVE  /\ MsysParameter(r) = c.delsys
         /\ Parameter(r, "mtype") = modtype_to_string(c.mod)
         /\ Number(r, "bw") = c.bandwidth /\ Number(r, "sr") = c.srate \div 1000
         /\ Number(r, "specinv") = c.inversion
<1>1. r = [bw |-> c.bandwidth, msys |-> delsys_to_string(c.delsys),
           mtype |-> modtype_to_string(c.mod), sr |-> c.srate \div 1000, plp |-> c.plp,
           specinv |-> c.inversion]
  BY DEF AttributeDescribeString, Satellite, Terrestrial, CableTV
<1>2. c.bandwidth \in Nat /\ c.inversion \in Nat /\ c.srate \div 1000 \in Nat
  BY DEF ParsedChannels
<1>3. Parameter(r, "msys") = delsys_to_string(c.delsys)
  BY <1>1 DEF Parameter
<1>4. MsysParameter(r) = c.delsys
  BY <1>3, SystemTells, Zenon DEF MsysParameter
<1> QED BY <1>1, <1>2, <1>4 DEF Parameter, Number

\* What is told of a cable channel does not have its FEC.
LEMMA CableOmits ==
  ASSUME NEW c, c.delsys \in CableTV, NEW r, r = AttributeDescribeString(c)
  PROVE  Parameter(r, "fec") = ""
<1>1. r = [bw |-> c.bandwidth, msys |-> delsys_to_string(c.delsys),
           mtype |-> modtype_to_string(c.mod), sr |-> c.srate \div 1000, plp |-> c.plp,
           specinv |-> c.inversion]
  BY DEF AttributeDescribeString, Satellite, Terrestrial, CableTV
<1> QED BY <1>1 DEF Parameter

\* modtype_to_string(): every modulation has a text, the automatic one the empty.
LEMMA ModTexts ==
  /\ \A n \in {0, 1, 2, 3, 4, 5, 9, 10, 11, 12} : modtype_to_string(n) # ""
  /\ modtype_to_string(6) = ""
<1>1. /\ modtype_to_string(0) = "qpsk" /\ modtype_to_string(1) = "16qam"
      /\ modtype_to_string(2) = "32qam" /\ modtype_to_string(3) = "64qam"
      /\ modtype_to_string(4) = "128qam" /\ modtype_to_string(5) = "256qam"
      /\ modtype_to_string(9) = "8psk" /\ modtype_to_string(10) = "16apsk"
      /\ modtype_to_string(11) = "32apsk" /\ modtype_to_string(12) = "dqpsk"
  BY DEF modtype_to_string, Text
<1>2. modtype_to_string(6) = ""
  BY DEF modtype_to_string, Text
<1> QED BY <1>1, <1>2

\* What a description does not tell, where it is not the automatic one.
LEMMA UntoldTells ==
  ASSUME NEW c
  PROVE  /\ c.delsys \in Satellite =>
              /\ "stream" \notin Untold(c) => c.isId = NO_STREAM_ID
              /\ "scrambling" \notin Untold(c) => c.plsMode = 1 /\ c.plsCode = 0
              /\ "mod" \notin Untold(c) => c.mod # AutoMod
         /\ c.delsys \in Terrestrial /\ "inversion" \notin Untold(c) => c.inversion = 2
         /\ c.delsys \in CableTV /\ "fec" \notin Untold(c) => c.fec = 9
BY DEF Untold, Satellite, Terrestrial, CableTV

\* The modulation that is told is had again; one that is automatic is not told, and comes again
\* where the system has it guessed as automatic.
LEMMA ModulationTells ==
  ASSUME NEW c \in ParsedChannels, NEW r, NEW old,
         c.delsys \in Satellite \cup Terrestrial \cup CableTV, MsysParameter(r) = c.delsys,
         Parameter(r, "mtype") = modtype_to_string(c.mod),
         c.delsys \notin Satellite \/ c.mod # AutoMod
  PROVE  ModulationOf(r, old) = c.mod
<1>1. c.mod \in 0..5 \cup 9..12 \/ c.mod = 6
  BY DEF ParsedChannels
<1>2. CASE c.mod \in 0..5 \cup 9..12
  <2>1. TextOr(ModOf, Parameter(r, "mtype"), old, old) = c.mod
    BY <1>2, ModTells
  <2>2. Parameter(r, "mtype") # ""
    <3>1. c.mod \in {0, 1, 2, 3, 4, 5, 9, 10, 11, 12}
      BY <1>2
    <3> QED BY <3>1, ModTexts
  <2> QED BY <2>1, <2>2, Zenon DEF ModulationOf
<1>3. CASE c.mod = 6
  <2>1. modtype_to_string(6) = ""
    BY ModTexts
  <2>2. AutoMod = 6
    BY DEF AutoMod, NewChannel
  <2>3. MsysParameter(r) \in Terrestrial \cup CableTV
    BY <1>3, <2>2
  <2>4. MsysParameter(r) \in {"DVBT", "DVBT2", "DVBC"}
    BY <2>3 DEF Terrestrial, CableTV
  <2> QED BY <1>3, <2>1, <2>2, <2>3, <2>4 DEF ModulationOf
<1> QED BY <1>1, <1>2, <1>3

\* DVBS::setProperties(): the satellite channel that a client asks for by what is told of it.
LEMMA SatelliteTunes ==
  ASSUME NEW ch \in ParsedChannels, ch.srate % 1000 = 0, ch.delsys \in Satellite,
         NEW from \in {NewChannel, ch},
         NEW c, c = ParsedStreamString(from, AttributeDescribeString(ch))
  PROVE  /\ \A p \in DOMAIN SetProperties(ch) \ Untold(ch) :
              SetProperties(c)[p] = SetProperties(ch)[p]
         /\ c.src = ch.src /\ c.pol = ch.pol
<1> DEFINE r == AttributeDescribeString(ch)
<1> HIDE DEF r
<1>1. /\ ch.fec \in 1..12 /\ ch.rolloff \in 0..3 /\ ch.pilot \in 0..2 /\ ch.pol \in 0..3
      /\ ch.src \in 1..255 /\ ch.srate \in Nat
  BY DEF ParsedChannels
<1>2. /\ from.fec \in {ch.fec, 9} /\ from.rolloff \in {ch.rolloff, 3}
      /\ from.pilot \in {ch.pilot, 2}
  BY DEF NewChannel
<1>3. /\ MsysParameter(r) = ch.delsys
      /\ Parameter(r, "mtype") = modtype_to_string(ch.mod)
      /\ Parameter(r, "plts") = pilot_tone_to_string(ch.pilot)
      /\ Parameter(r, "ro") = rolloff_to_string(ch.rolloff)
      /\ Parameter(r, "fec") = fec_to_string(ch.fec)
      /\ Parameter(r, "pol") = PolarizationChar(ch.pol)
      /\ Number(r, "src") = ch.src /\ Number(r, "sr") = ch.srate \div 1000
      /\ Number(r, "isi") = -1 /\ Number(r, "plsm") = -1 /\ Number(r, "plsc") = -1
  BY SatelliteTells DEF r
<1>4. c = ParsedStreamString(from, r)
  BY DEF r
<1>5. c.delsys = ch.delsys
  <2>1. c.delsys = IF MsysParameter(r) = "UNDEFINED" THEN from.delsys ELSE MsysParameter(r)
    BY <1>4, ParsedFields
  <2> QED BY <1>3, <2>1 DEF Satellite, Terrestrial, CableTV
<1>6. ch.mod # AutoMod => c.mod = ch.mod
  BY <1>3, <1>4, ParsedFields, ModulationTells
<1>7. c.srate = ch.srate
  <2>1. c.srate = IF Number(r, "sr") = -1 THEN from.srate ELSE 1000 * Number(r, "sr")
    BY <1>4, ParsedFields
  <2>2. ch.srate \div 1000 \in Nat /\ 1000 * (ch.srate \div 1000) = ch.srate
    BY <1>1
  <2> QED BY <1>3, <2>1, <2>2
<1>8. c.fec = ch.fec /\ c.rolloff = ch.rolloff /\ c.pilot = ch.pilot /\ c.pol = ch.pol
  <2>1. /\ c.fec = TextOr(FecOf, Parameter(r, "fec"), from.fec, 9)
        /\ c.rolloff = TextOr(RolloffOf, Parameter(r, "ro"), from.rolloff, 3)
        /\ c.pilot = TextOr(PilotOf, Parameter(r, "plts"), from.pilot, 2)
        /\ c.pol = TextOr(PolOf, Parameter(r, "pol"), from.pol, from.pol)
    BY <1>4, ParsedFields
  <2>2. c.fec = ch.fec
    BY <1>1, <1>2, <1>3, <2>1, FecTells
  <2>3. c.rolloff = ch.rolloff
    BY <1>1, <1>2, <1>3, <2>1, RolloffTells
  <2>4. c.pilot = ch.pilot
    BY <1>1, <1>2, <1>3, <2>1, PilotTells
  <2>5. c.pol = ch.pol
    BY <1>1, <1>3, <2>1, PolTells
  <2> QED BY <2>2, <2>3, <2>4, <2>5
<1>9. c.src = ch.src
  <2>1. c.src = IF Number(r, "src") \in 1..255 THEN Number(r, "src") ELSE 1
    BY <1>4, ParsedFields
  <2> QED BY <1>1, <1>3, <2>1
<1>10. c.isId = NO_STREAM_ID /\ c.plsMode = 1 /\ c.plsCode = 0
  <2>1. /\ c.isId = Number(r, "isi") /\ c.plsMode = Given(Number(r, "plsm"), 1) % 4
        /\ c.plsCode = Given(Number(r, "plsc"), 0) % 262144
    BY <1>4, ParsedFields
  <2>2. Given(-1, 1) = 1 /\ Given(-1, 0) = 0
    BY DEF Given
  <2>3. 1 % 4 = 1 /\ 0 % 262144 = 0
    BY SMT
  <2> QED BY <1>3, <2>1, <2>2, <2>3, SMT DEF NO_STREAM_ID
<1>11. "stream" \notin Untold(ch) => StreamId(c) = StreamId(ch)
  <2>1. "stream" \notin Untold(ch) => ch.isId = NO_STREAM_ID
    BY UntoldTells
  <2>2. \A d : d.isId = NO_STREAM_ID => StreamId(d) = NO_STREAM_ID
    BY SMT DEF StreamId
  <2> QED BY <1>10, <2>1, <2>2
<1>12. "scrambling" \notin Untold(ch) => ScramblingIndex(c) = ScramblingIndex(ch)
  <2>1. "scrambling" \notin Untold(ch) => ch.plsMode = 1 /\ ch.plsCode = 0
    BY UntoldTells
  <2>2. \A d, e : d.plsMode = e.plsMode /\ d.plsCode = e.plsCode
                    => ScramblingIndex(d) = ScramblingIndex(e)
    BY SMT DEF ScramblingIndex
  <2> QED BY <1>10, <2>1, <2>2
<1>13. "mod" \notin Untold(ch) => ch.mod # AutoMod
  BY UntoldTells
<1>14. \A d : d.delsys \in Satellite =>
         SetProperties(d) = [delsys |-> d.delsys, mod |-> d.mod, srate |-> d.srate, fec |-> d.fec,
                             rolloff |-> d.rolloff, pilot |-> d.pilot, stream |-> StreamId(d),
                             scrambling |-> ScramblingIndex(d)]
  BY DEF SetProperties, Satellite, Terrestrial, CableTV
<1> HIDE DEF r
<1>15. \A p \in DOMAIN SetProperties(ch) \ Untold(ch) :
         SetProperties(c)[p] = SetProperties(ch)[p]
  BY <1>5, <1>6, <1>7, <1>8, <1>11, <1>12, <1>13, <1>14
<1> QED BY <1>8, <1>9, <1>15

\* DVBT::setProperties(): the terrestrial channel.
LEMMA TerrestrialTunes ==
  ASSUME NEW ch \in ParsedChannels, ch.delsys \in Terrestrial, NEW from \in {NewChannel, ch},
         NEW c, c = ParsedStreamString(from, AttributeDescribeString(ch))
  PROVE  \A p \in DOMAIN SetProperties(ch) \ Untold(ch) :
           SetProperties(c)[p] = SetProperties(ch)[p]
<1> DEFINE r == AttributeDescribeString(ch)
<1> HIDE DEF r
<1>1. /\ ch.fec \in 1..12 /\ ch.trans \in 0..6 /\ ch.guard \in 0..7
      /\ ch.bandwidth \in Nat /\ ch.inversion \in Nat
  BY DEF ParsedChannels
<1>2. /\ from.fec \in {ch.fec, 9} /\ from.trans \in {ch.trans, 2} /\ from.guard \in {ch.guard, 4}
      /\ from.inversion \in {ch.inversion, 2}
  BY DEF NewChannel
<1>3. /\ MsysParameter(r) = ch.delsys
      /\ Parameter(r, "mtype") = modtype_to_string(ch.mod)
      /\ Parameter(r, "fec") = fec_to_string(ch.fec)
      /\ Parameter(r, "tmode") = transmode_to_string(ch.trans)
      /\ Parameter(r, "gi") = guardinter_to_string(ch.guard)
      /\ Number(r, "bw") = ch.bandwidth /\ Number(r, "plp") = ch.plp
      /\ Number(r, "specinv") = -1
  BY TerrestrialTells DEF r
<1>4. c = ParsedStreamString(from, r)
  BY DEF r
<1>5. c.delsys = ch.delsys
  <2>1. c.delsys = IF MsysParameter(r) = "UNDEFINED" THEN from.delsys ELSE MsysParameter(r)
    BY <1>4, ParsedFields
  <2> QED BY <1>3, <2>1 DEF Terrestrial
<1>6. c.mod = ch.mod
  <2>1. ch.delsys \notin Satellite
    BY DEF Satellite, Terrestrial, CableTV
  <2> QED BY <1>3, <1>4, <2>1, ParsedFields, ModulationTells
<1>7. c.fec = ch.fec /\ c.trans = ch.trans /\ c.guard = ch.guard
  <2>1. /\ c.fec = TextOr(FecOf, Parameter(r, "fec"), from.fec, 9)
        /\ c.trans = TextOr(TransOf, Parameter(r, "tmode"), from.trans, 2)
        /\ c.guard = TextOr(GuardOf, Parameter(r, "gi"), from.guard, 4)
    BY <1>4, ParsedFields
  <2>2. c.fec = ch.fec
    BY <1>1, <1>2, <1>3, <2>1, FecTells
  <2>3. c.trans = ch.trans
    BY <1>1, <1>2, <1>3, <2>1, TransTells
  <2>4. c.guard = ch.guard
    BY <1>1, <1>2, <1>3, <2>1, GuardTells
  <2> QED BY <2>2, <2>3, <2>4
<1>8. c.bandwidth = ch.bandwidth /\ c.plp = ch.plp
  <2>1. c.bandwidth = Given(Number(r, "bw"), from.bandwidth) /\ c.plp = Number(r, "plp")
    BY <1>4, ParsedFields
  <2> QED BY <1>1, <1>3, <2>1 DEF Given
<1>9. "inversion" \notin Untold(ch) => c.inversion = ch.inversion
  <2>1. c.inversion = Given(Number(r, "specinv"), from.inversion)
    BY <1>4, ParsedFields
  <2>2. c.inversion = from.inversion
    BY <1>3, <2>1 DEF Given
  <2>3. "inversion" \notin Untold(ch) => ch.inversion = 2
    BY UntoldTells
  <2> QED BY <1>2, <2>2, <2>3
<1>10. \A d : d.delsys \in Terrestrial =>
         SetProperties(d) =
           [delsys |-> d.delsys, mod |-> d.mod, inversion |-> d.inversion,
            bandwidth |-> d.bandwidth, fec |-> d.fec, trans |-> d.trans, guard |-> d.guard,
            stream |-> IF d.delsys = "DVBT2" /\ api >= 1282 THEN d.plp ELSE NO_STREAM_ID]
  BY DEF SetProperties, Satellite, Terrestrial, CableTV
<1> QED BY <1>5, <1>6, <1>7, <1>8, <1>9, <1>10

\* DVBC::setProperties(): the cable channel.
LEMMA CableTunes ==
  ASSUME NEW ch \in ParsedChannels, ch.srate % 1000 = 0, ch.delsys \in CableTV,
         NEW from \in {NewChannel, ch},
         NEW c, c = ParsedStreamString(from, AttributeDescribeString(ch))
  PROVE  \A p \in DOMAIN SetProperties(ch) \ Untold(ch) :
           SetProperties(c)[p] = SetProperties(ch)[p]
<1> DEFINE r == AttributeDescribeString(ch)
<1> HIDE DEF r
<1>1. ch.srate \in Nat /\ ch.bandwidth \in Nat /\ ch.inversion \in Nat
  BY DEF ParsedChannels
<1>2. from.fec \in {ch.fec, 9}
  BY DEF NewChannel
<1>3. /\ MsysParameter(r) = ch.delsys
      /\ Parameter(r, "mtype") = modtype_to_string(ch.mod)
      /\ Number(r, "bw") = ch.bandwidth /\ Number(r, "sr") = ch.srate \div 1000
      /\ Number(r, "specinv") = ch.inversion
  BY CableTells DEF r
<1>4. Parameter(r, "fec") = ""
  BY CableOmits DEF r
<1>5. c = ParsedStreamString(from, r)
  BY DEF r
<1>6. c.delsys = ch.delsys
  <2>1. c.delsys = IF MsysParameter(r) = "UNDEFINED" THEN from.delsys ELSE MsysParameter(r)
    BY <1>5, ParsedFields
  <2>2. ch.delsys # "UNDEFINED"
    BY DEF CableTV
  <2> QED BY <1>3, <2>1, <2>2
<1>7. c.mod = ch.mod
  <2>1. ch.delsys \notin Satellite /\ ch.delsys \in Satellite \cup Terrestrial \cup CableTV
    BY DEF Satellite, Terrestrial, CableTV
  <2>2. c.mod = ModulationOf(r, from.mod)
    BY <1>5, ParsedFields
  <2> QED BY <1>3, <2>1, <2>2, ModulationTells
<1>8. c.srate = ch.srate
  <2>1. c.srate = IF Number(r, "sr") = -1 THEN from.srate ELSE 1000 * Number(r, "sr")
    BY <1>5, ParsedFields
  <2>2. ch.srate \div 1000 \in Nat /\ 1000 * (ch.srate \div 1000) = ch.srate
    BY <1>1
  <2> QED BY <1>3, <2>1, <2>2
<1>9. c.bandwidth = ch.bandwidth /\ c.inversion = ch.inversion
  <2>1. /\ c.bandwidth = Given(Number(r, "bw"), from.bandwidth)
        /\ c.inversion = Given(Number(r, "specinv"), from.inversion)
    BY <1>5, ParsedFields
  <2> QED BY <1>1, <1>3, <2>1 DEF Given
<1>10. "fec" \notin Untold(ch) => c.fec = ch.fec
  <2>1. c.fec = TextOr(FecOf, Parameter(r, "fec"), from.fec, 9)
    BY <1>5, ParsedFields
  <2>2. c.fec = from.fec
    BY <1>4, <2>1, Zenon DEF TextOr
  <2>3. "fec" \notin Untold(ch) => ch.fec = 9
    BY UntoldTells
  <2> QED BY <1>2, <2>2, <2>3
<1>11. \A d : d.delsys \in CableTV =>
         SetProperties(d) = [delsys |-> d.delsys, mod |-> d.mod, srate |-> d.srate, fec |-> d.fec,
                             bandwidth |-> d.bandwidth, inversion |-> d.inversion]
  BY DEF SetProperties, Satellite, Terrestrial, CableTV
<1> QED BY <1>6, <1>7, <1>8, <1>9, <1>10, <1>11

\* FrontendData: whatever the requests were, a client that asks for what DESCRIBE told it has the
\* frontend tuned as it is, but for what is not told.
THEOREM DescriptionAlwaysTunes ==
  ASSUME ChannelTextAssumption
  PROVE  ChannelTextSpec => []DescriptionTunes
<1>1. ChannelTextTypeOK => DescriptionTunes
  <2> SUFFICES ASSUME ChannelTextTypeOK, NEW from \in {NewChannel, channel},
                      channel.delsys # "UNDEFINED",
                      NEW c, c = ParsedStreamString(from, AttributeDescribeString(channel))
               PROVE  /\ \A p \in DOMAIN SetProperties(channel) \ Untold(channel) :
                           SetProperties(c)[p] = SetProperties(channel)[p]
                      /\ channel.delsys \in Satellite =>
                           c.src = channel.src /\ c.pol = channel.pol
    BY Zenon DEF DescriptionTunes
  <2>1. /\ channel \in ParsedChannels /\ channel.srate % 1000 = 0
        /\ channel.delsys \in Satellite \cup Terrestrial \cup CableTV
    BY DEF ChannelTextTypeOK, ParsedChannels
  <2>2. CASE channel.delsys \in Satellite
    BY <2>1, <2>2, SatelliteTunes
  <2>3. CASE channel.delsys \in Terrestrial
    <3>1. channel.delsys \notin Satellite
      BY <2>3 DEF Satellite, Terrestrial, CableTV
    <3> QED BY <2>1, <2>3, <3>1, TerrestrialTunes
  <2>4. CASE channel.delsys \in CableTV
    <3>1. channel.delsys \notin Satellite
      BY <2>4 DEF Satellite, Terrestrial, CableTV
    <3> QED BY <2>1, <2>4, <3>1, CableTunes
  <2> QED BY <2>1, <2>2, <2>3, <2>4
<1> QED BY <1>1, ChannelIsKept, PTL
=============================================================================
