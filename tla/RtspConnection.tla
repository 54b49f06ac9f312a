---------------------------- MODULE RtspConnection ----------------------------
(***************************************************************************)
(* One RTSP connection, over which also the stream goes (RTP/AVP/TCP): the *)
(* client's requests, which come in pieces and perhaps before the last one *)
(* was answered; the server thread, which puts them together and answers;  *)
(* and the streaming thread and the RTCP thread, which write their frames  *)
(* on the same socket.                                                     *)
(*                                                                         *)
(* Abstracted: the texts.  A request is a head of HeadLen bytes, of which  *)
(* the first FieldLen have the value of Content-Length, and a body.        *)
(* Replies and frames are so many pieces that the send buffer may hold.    *)
(* What the handlers do with a stream is in module StreamSession.          *)
(***************************************************************************)
EXTENDS Integers, Sequences

CONSTANTS
  HeadLen,       \* bytes of a request's head, with the empty line
  FieldLen,      \* bytes up to the value of Content-Length
  BodyLen,       \* bytes of the body of a request that has one
  Space,         \* pieces that the socket's send buffer holds
  FrameSize      \* pieces of a frame or reply

ASSUME RtspAssumption ==
  /\ HeadLen \in Nat /\ FieldLen \in 1..HeadLen-1 /\ BodyLen \in Nat \ {0}
  /\ Space \in Nat \ {0} /\ FrameSize \in Nat \ {0}

VARIABLES
  open,          \* the connection: "yes", "left" by the client, "no": closed by the server
  queue,         \* requests of which the client has begun to send something
  sent, raw,     \* how many bytes of them it has sent, and the server has in _msg
  actual, end,   \* actualSize and end of recv_recvfrom_httpc_message()
  server,        \* where the server thread is
  streaming, doomed,   \* the stream plays; selfDestruct() was called
  holder,        \* who has the StreamClient's mutex
  rest,          \* pieces that each writer has still to write of its frame or reply
  space,         \* free pieces of the send buffer
  hasty,         \* history: a request was taken for complete that was not
  wrapped,       \* history: actualSize was computed without a header's end
  overlapped,    \* history: the last reply was begun while the stream plays
  cut,           \* history: a write ended early
  mixed          \* history: a frame was broken by another one, or by a reply not overlapped

inVars == <<queue, sent, raw, actual, end, hasty, wrapped>>
outVars == <<holder, rest, space, cut, mixed>>
rtspVars == <<open, inVars, server, streaming, doomed, overlapped, outVars>>

Streamers == {"rtp", "rtcp"}
Writers == Streamers \cup {"reply"}

RtspRequests == [kind : {"play", "teardown", "other"}, body : {0}] \cup [kind : {"other"}, body : {BodyLen}]

Bytes(r) == HeadLen + r.body
Total == IF queue = <<>> THEN 0
         ELSE Bytes(queue[1]) + (IF Len(queue) = 2 THEN Bytes(queue[2]) ELSE 0)

RtspTypeOK ==
  /\ open \in {"yes", "left", "no"}
  /\ queue \in Seq(RtspRequests) /\ Len(queue) <= 2
  /\ sent \in 0..Total /\ raw \in 0..sent /\ actual \in Nat /\ end \in BOOLEAN
  /\ server \in {"poll", "recv", "reply"}
  /\ streaming \in BOOLEAN /\ doomed \in BOOLEAN
  /\ holder \in Streamers \cup {"none"}
  /\ rest \in [Writers -> 0..FrameSize] /\ space \in 0..Space
  /\ hasty \in BOOLEAN /\ wrapped \in BOOLEAN /\ cut \in BOOLEAN /\ overlapped \in BOOLEAN
  /\ mixed \in BOOLEAN

RtspInit ==
  /\ open = "yes" /\ queue = <<>> /\ sent = 0 /\ raw = 0 /\ actual = 0 /\ end = FALSE
  /\ server = "poll" /\ streaming = FALSE /\ doomed = FALSE
  /\ holder = "none" /\ rest = [w \in Writers |-> 0] /\ space = Space
  /\ hasty = FALSE /\ wrapped = FALSE /\ overlapped = FALSE /\ cut = FALSE /\ mixed = FALSE

-----------------------------------------------------------------------------
(* The client *)

ClientOnly ==
  UNCHANGED <<raw, actual, end, hasty, wrapped, server, streaming, doomed, overlapped>>

\* A client that the server has misunderstood asks nothing more.
Asks == open = "yes" /\ ~hasty

Ask(r) ==
  /\ Asks /\ queue = <<>>
  /\ queue' = <<r>> /\ sent' \in 1..Bytes(r)
  /\ UNCHANGED <<open, outVars>> /\ ClientOnly

SendMore ==
  /\ Asks /\ sent < Total
  /\ sent' \in sent+1..Total
  /\ UNCHANGED <<open, queue, outVars>> /\ ClientOnly

\* A further request is sent, all of it, before the first was read.
Pipeline(r) ==
  /\ Asks /\ Len(queue) = 1 /\ sent = Total
  /\ queue' = Append(queue, r) /\ sent' = sent + Bytes(r)
  /\ UNCHANGED <<open, outVars>> /\ ClientOnly

\* The client reads; it need not.
Drain ==
  /\ open = "yes" /\ space < Space /\ space' = space + 1
  /\ UNCHANGED <<open, queue, sent, holder, rest, cut, mixed>> /\ ClientOnly

Leave ==
  /\ open = "yes" /\ open' = "left"
  /\ UNCHANGED <<queue, sent, outVars>> /\ ClientOnly

-----------------------------------------------------------------------------
(* The server thread reads *)

\* getFieldParameter("Content-Length") when n bytes were read: the first that there is.
ContentLength(n) ==
  IF queue[1].body > 0 /\ n >= FieldLen THEN queue[1].body
  ELSE IF Len(queue) = 2 /\ n >= Bytes(queue[1]) + FieldLen THEN queue[2].body
  ELSE 0

\* Mutant: the empty line that ends the head is not counted.
ActualSize_NoEmptyLine(n) == ContentLength(n) + (IF n >= HeadLen THEN HeadLen - 1 ELSE 3)

\* headerSize + contentLength + 4, also while headerSize is npos, which is -1.
ActualSize(n) == ContentLength(n) + (IF n >= HeadLen THEN HeadLen ELSE 3)

SizeWith(n) == IF ~end /\ ContentLength(n) > 0 THEN ActualSize(n) ELSE actual

Done(n) ==
  IF ~end /\ ContentLength(n) = 0 THEN n >= HeadLen ELSE SizeWith(n) = n

\* recvfrom() takes what is there: poll() has reported it, or the loop has waited for it.
Arrives == open # "no" /\ server \in {"poll", "recv"} /\ raw < sent

ReadMore ==
  /\ Arrives /\ ~Done(sent)
  /\ raw' = sent /\ actual' = SizeWith(sent) /\ end' = (end \/ sent >= HeadLen)
  /\ server' = "recv"
  /\ UNCHANGED <<open, queue, sent, hasty, wrapped, streaming, doomed, overlapped, outVars>>

\* The message is complete and the request in it is handled: PLAY has started the stream and
\* TEARDOWN has ended it, with its threads, before the reply is begun.  Whatever else was
\* read is forgotten.
Process ==
  /\ Arrives /\ Done(sent)
  /\ LET kind == queue[1].kind IN
       /\ kind = "teardown" => holder = "none"
       /\ streaming' = (kind = "play" \/ (streaming /\ kind # "teardown"))
       /\ doomed' = (doomed /\ kind # "teardown")
  /\ hasty' = (sent < Bytes(queue[1]))
  /\ wrapped' = (~end /\ sent < HeadLen)
  /\ queue' = <<>> /\ sent' = 0 /\ raw' = 0 /\ actual' = 0 /\ end' = FALSE
  /\ server' = "reply" /\ rest' = [rest EXCEPT !["reply"] = FrameSize]
  /\ overlapped' = streaming'
  /\ UNCHANGED <<open, holder, space, cut, mixed>>

\* Mutant: within a message the server waits for ever.
Close_OnlyLeft ==
  /\ open = "left" /\ raw = sent /\ server \in {"poll", "recv"}
  /\ open' = "no" /\ server' = "poll"
  /\ queue' = <<>> /\ sent' = 0 /\ raw' = 0 /\ actual' = 0 /\ end' = FALSE
  /\ UNCHANGED <<hasty, wrapped, streaming, doomed, overlapped, outVars>>

\* recvfrom() has returned 0, or nothing for 500 ms within a message: closeFD().
Close ==
  /\ open # "no" /\ raw = sent
  /\ \/ server = "recv"
     \/ server = "poll" /\ open = "left"
  /\ open' = "no" /\ server' = "poll"
  /\ queue' = <<>> /\ sent' = 0 /\ raw' = 0 /\ actual' = 0 /\ end' = FALSE
  /\ UNCHANGED <<hasty, wrapped, streaming, doomed, overlapped, outVars>>

\* checkForSessionTimeout() tears the stream down, when its threads have ended.
EndSession ==
  /\ server = "poll" /\ doomed /\ holder = "none"
  /\ streaming' = FALSE /\ doomed' = FALSE
  /\ UNCHANGED <<open, inVars, server, overlapped, outVars>>

-----------------------------------------------------------------------------
(* The writers *)

\* Mutant: a frame is written without the mutex.
Frame_NoLock(w) ==
  /\ streaming /\ rest[w] = 0
  /\ holder' = w /\ rest' = [rest EXCEPT ![w] = FrameSize]
  /\ UNCHANGED <<open, inVars, server, streaming, doomed, overlapped, space, cut, mixed>>

\* writeHttpData() of an RTP or RTCP frame, which are written under the mutex.
Frame(w) ==
  /\ streaming /\ rest[w] = 0 /\ holder = "none"
  /\ holder' = w /\ rest' = [rest EXCEPT ![w] = FrameSize]
  /\ UNCHANGED <<open, inVars, server, streaming, doomed, overlapped, space, cut, mixed>>

\* The write of w returns.
Returns(w) ==
  /\ holder' = IF holder = w THEN "none" ELSE holder
  /\ server' = IF w = "reply" THEN "poll" ELSE server

Begun(w) == rest[w] \in 1..FrameSize-1

\* One piece goes into the send buffer; after a write that ended early all is out of step.
Write(w) ==
  /\ open = "yes" /\ rest[w] > 0 /\ space > 0
  /\ space' = space - 1 /\ rest' = [rest EXCEPT ![w] = @ - 1]
  /\ mixed' = \/ mixed
              \/ /\ ~cut
                 /\ \E v \in Writers \ {w} : Begun(v) /\ ("reply" \in {v, w} => ~overlapped)
  /\ IF rest[w] = 1 THEN Returns(w) ELSE UNCHANGED <<holder, server>>
  /\ UNCHANGED <<open, inVars, streaming, doomed, overlapped, cut>>

\* The buffer was full for 2 seconds, or the connection is closed: -1 if nothing was written.
\* Less than all counts as success.
WriteEnds(w) ==
  /\ rest[w] > 0 /\ (space = 0 \/ open # "yes")
  /\ rest' = [rest EXCEPT ![w] = 0]
  /\ cut' = (cut \/ Begun(w))
  /\ doomed' = (doomed \/ (w = "rtp" /\ ~Begun(w)))
  /\ Returns(w)
  /\ UNCHANGED <<open, inVars, streaming, overlapped, space, mixed>>

-----------------------------------------------------------------------------

ServerStep == ReadMore \/ Process \/ Close \/ EndSession
WriterStep(w) == Write(w) \/ WriteEnds(w)
StreamerStep == \E w \in Streamers : WriterStep(w)

RtspNext ==
  \/ \E r \in RtspRequests : Ask(r) \/ Pipeline(r)
  \/ SendMore \/ Drain \/ Leave \/ ServerStep
  \/ \E w \in Streamers : Frame(w)
  \/ StreamerStep \/ WriterStep("reply")

\* The server thread runs; a TEARDOWN is handled between two frames, as the threads are told
\* to end.  A write ends when the buffer has space or after 2 seconds.  The client need do
\* nothing.
RtspSpec ==
  /\ RtspInit /\ [][RtspNext]_rtspVars
  /\ SF_rtspVars(ServerStep)
  /\ WF_rtspVars(WriterStep("reply")) /\ WF_rtspVars(StreamerStep)

-----------------------------------------------------------------------------

\* Before a write ends early, no RTP frame has a piece of an RTCP frame inside or the other
\* way round, and no reply is mixed with them that was begun when the stream did not play:
\* that to a TEARDOWN, to a SETUP, or to a DESCRIBE.  (That to a PLAY may be.)
FramesNeverMix == ~mixed

\* A request that is handled came whole, except when its first part, without the end of the
\* header, happens to have 3 bytes more than the body.
WholeRequests == hasty => wrapped

\* HttpcSocket and the writers: what a connection carries stays whole in both directions.
NothingMixed == FramesNeverMix /\ WholeRequests

\* What was read belongs to the first request, and when its header was seen the size that is
\* waited for is that of the request, or all of it is there already.
ReadingInv ==
  /\ queue \in Seq(RtspRequests) /\ Len(queue) \in 0..2
  /\ sent \in Nat /\ raw \in Nat /\ raw <= sent /\ actual \in Nat /\ end \in BOOLEAN
  /\ Len(queue) = 0 => sent = 0
  /\ end => /\ Len(queue) > 0
            /\ actual = Bytes(queue[1]) \/ raw >= Bytes(queue[1])

\* Who writes: at most one of the streamers, and only while the stream plays; a reply that was
\* begun when it did not, alone.
WritingInv ==
  /\ rest \in [Writers -> 0..FrameSize]
  /\ holder \in Streamers \cup {"none"}
  /\ \A w \in Streamers : rest[w] > 0 => holder = w
  /\ ~streaming => holder = "none"
  /\ rest["reply"] > 0 => server = "reply" /\ (~overlapped => ~streaming)

\* The inductive invariant.
ConnectionInv == ReadingInv /\ WritingInv /\ NothingMixed

\* What a client comes to whose requests have arrived: they were handled, or it is
\* disconnected.
Attended == ~(open # "no" /\ queue # <<>> /\ sent = Total)
=============================================================================
