------------------------------- MODULE Replies -------------------------------
(***************************************************************************)
(* What the RTSP and the HTTP server answer: one request at a time, the    *)
(* stream it is about, what update() makes of it, and the reply, which     *)
(* SETUP and PLAY write before update() and replace when it fails.         *)
(*                                                                         *)
(* Abstracted: the wording; a stream has only its owner's slot, as module  *)
(* StreamSession proves, and what else a session is made of is there; a    *)
(* body is its length.                                                     *)
(***************************************************************************)
EXTENDS Integers, FiniteSets

CONSTANTS
  NumStreams,    \* the frontends, numbered from 1 (fe=)
  Transports,    \* of {"none", "tcp", "tcp;unicast", "unicast", "multicast"}
  Asked,         \* fe= or stream= of the requests; Absent: without
  Numbers,       \* CSeq of the requests; 0: without one
  MaxIDs         \* bound: session IDs that are given out

ASSUME RepliesAssumption ==
  /\ NumStreams \in Nat \ {0} /\ Asked \subseteq 0..NumStreams /\ Numbers \subseteq Nat
  /\ Transports \subseteq {"none", "tcp", "tcp;unicast", "unicast", "multicast"} /\ MaxIDs \in Nat

VARIABLES
  stream,    \* the streams: session (0: free), type, the CSeq of the slot
  given,     \* session IDs given out
  fitting,   \* history: every reply fitted its request
  toldIDs    \* history: the sessions whose ID a reply had, or whose connection has the stream

repliesVars == <<stream, given, fitting, toldIDs>>

Absent == 0
NoReply == [status |-> 0, cseq |-> 0, session |-> Absent, announced |-> 0, body |-> 0]
FreeStream == [session |-> Absent, type |-> "none", cseq |-> 0, described |-> FALSE]
Feeds == 1..NumStreams
Methods == {"OPTIONS", "DESCRIBE", "SETUP", "PLAY", "TEARDOWN", "GET", "HEAD", "OTHER"}

\* fe: the frontend that fe= or stream= asks for, or Absent, which does not matter to a session
\* that has its stream; params: there are transport parameters; good: the device can be
\* tuned to what is asked.
StreamRequests ==
  {r \in [method : Methods, session : 0..given, cseq : Numbers, params : BOOLEAN,
          fe : Asked, transport : Transports, good : BOOLEAN] :
     /\ r.fe # Absent => r.params
     /\ r.transport # "none" => r.method \in {"SETUP", "GET"}
     /\ r.method = "GET" => r.transport \in {"none", "multicast"} /\ r.params
     /\ r.method = "HEAD" => r.params
     /\ ~r.good => r.method \in {"SETUP", "PLAY"}
     /\ r.method \in {"TEARDOWN", "OPTIONS"} => ~r.params
     /\ r.session # Absent /\ r.method # "DESCRIBE" => r.fe = Absent}

StaticFiles == {"root", "data", "STOP", "substituted", "plain", "missing"}

ClientSlots == [session : 0..MaxIDs, type : {"none", "tcp", "unicast", "multicast", "http"},
          cseq : Numbers \cup {0}, described : BOOLEAN]

RepliesTypeOK ==
  /\ stream \in [Feeds -> ClientSlots]
  /\ given \in 0..MaxIDs /\ toldIDs \subseteq 1..MaxIDs
  /\ fitting \in BOOLEAN

-----------------------------------------------------------------------------
(* Text of the replies *)

\* One without content, or with content of so many octets after its header.
NoContent(status, cseq) == [NoReply EXCEPT !.status = status, !.cseq = cseq]
WithContent(status, cseq, octets) ==
  [NoReply EXCEPT !.status = status, !.cseq = cseq, !.announced = octets, !.body = octets]

\* The slot's CSeq is that of the request, when it has one.
methodSetup(s) ==
  [NoReply EXCEPT !.status = IF s.type \in {"tcp", "unicast", "multicast"} THEN 200 ELSE 461,
                  !.cseq = s.cseq,
                  !.session = IF s.type \in {"tcp", "unicast", "multicast"} THEN s.session ELSE Absent]
methodPlay(s) == [NoReply EXCEPT !.status = 200, !.cseq = s.cseq, !.session = s.session]
methodTeardown(r) == [NoReply EXCEPT !.status = 200, !.cseq = r.cseq, !.session = r.session]
methodOptions(r) == [NoReply EXCEPT !.status = 200, !.cseq = r.cseq, !.session = r.session]

\* getDescribeMediaLevelString(): of a frontend with something to describe.  A stream number
\* that no stream has is taken as none.
MediaLevel(f) == IF stream[f].described THEN 1 ELSE 0
SetUpStreams(fe) ==
  IF fe = Absent THEN Cardinality({f \in Feeds : MediaLevel(f) = 1}) ELSE MediaLevel(fe)
methodDescribe(r) ==
  LET setup == SetUpStreams(r.fe)
  IN IF setup # 0
     THEN [WithContent(200, r.cseq, 1 + setup) EXCEPT !.session = r.session]
     ELSE [NoContent(404, r.cseq) EXCEPT !.session = r.session]

-----------------------------------------------------------------------------
(* The stream of a request *)

\* findClientIDFor(): a new session takes a free stream, a session that is given its own.
Suits(f, r, new) == stream[f].session = (IF new THEN Absent ELSE r.session)

\* findStreamAndClientIDFor(): the frontend that was asked for, else the first that suits.
FindStream(r, new) ==
  LET fits == {f \in Feeds : Suits(f, r, new)}
  IN IF fits = {} \/ (r.session = Absent /\ ~r.params) THEN Absent
     ELSE IF r.fe \in fits THEN r.fe
     ELSE CHOOSE f \in fits : \A g \in fits : f <= g

\* The type of the stream is set once; "unicast" comes before the question for TCP.
TypeFor(s, r) ==
  IF s.type # "none" THEN s.type
  ELSE CASE r.method = "GET" -> IF r.transport = "multicast" THEN "multicast" ELSE "http"
         [] r.transport \in {"unicast", "tcp;unicast"} -> "unicast"
         [] r.transport = "multicast" -> "multicast"
         [] r.transport = "tcp" -> "tcp"
         [] OTHER -> "none"

\* Stream::processStreamingRequest()
Processed(s, r, session) ==
  [s EXCEPT !.session = session,
            !.cseq = IF r.cseq = 0 THEN @ ELSE r.cseq,
            !.type = TypeFor(s, r),
            !.described = @ \/ (r.params /\ r.method \in {"SETUP", "PLAY", "GET"})]

\* Stream::update(): without a type there is nothing to stream with.
Updates(s, r) == s.type # "none" /\ r.good

\* What the stream becomes, and the reply.
Outcome(s, result) == [stream |-> s, reply |-> result]

\* Without giving the stream back.
SetupOrPlay_Keeps(r, s, result) ==
  IF Updates(s, r)
  THEN Outcome(s, result)
  ELSE Outcome(s, NoContent(408, r.cseq))

\* SETUP and PLAY that cannot be carried out give the stream back.
SetupOrPlay(r, s, result) ==
  IF Updates(s, r)
  THEN Outcome(s, result)
  ELSE Outcome([FreeStream EXCEPT !.cseq = s.cseq], NoContent(408, r.cseq))

\* GET does not look at what update() returns.
Get(r, s) ==
  Outcome(s,
          IF r.transport = "multicast" THEN WithContent(200, 0, 1) ELSE NoContent(200, 0))

-----------------------------------------------------------------------------
(* HttpcServer::process() *)

Dispatch(r, s) ==
  CASE r.method = "SETUP" -> SetupOrPlay(r, s, methodSetup(s))
    [] r.method = "PLAY" -> SetupOrPlay(r, s, methodPlay(s))
    [] r.method = "GET" -> Get(r, s)
    [] r.method = "TEARDOWN" -> Outcome([FreeStream EXCEPT !.cseq = s.cseq], methodTeardown(r))
    [] r.method = "OPTIONS" -> Outcome(s, methodOptions(r))
    [] r.method = "DESCRIBE" -> Outcome(s, methodDescribe(r))
    [] OTHER -> Outcome(s, NoReply)

\* A reply to a numbered request carries its number, and the session that it was in; what it
\* announces is what it sends, but for HEAD.  Methods that the servers do not know have none.
Fits(r, result) ==
  \/ result = NoReply
  \/ /\ result.cseq = r.cseq \/ r.cseq = 0 \/ r.method = "GET"
     /\ (result.status \in {200, 404} /\ r.session # Absent /\ r.method # "GET"
          => result.session = r.session)
     /\ (result.body = result.announced \/ r.method = "HEAD")

OutsideSession(r) == r.session = Absent /\ r.method \in {"OPTIONS", "DESCRIBE"}

AnswerOutside(r) ==
  /\ OutsideSession(r)
  /\ \E result \in {IF r.method = "OPTIONS" THEN methodOptions(r) ELSE methodDescribe(r)} :
       fitting' = (fitting /\ Fits(r, result))
  /\ UNCHANGED <<stream, given, toldIDs>>

NoMoreFrontends(r) ==
  /\ ~OutsideSession(r) /\ FindStream(r, r.session = Absent) = Absent
  /\ fitting' = (fitting /\ Fits(r, WithContent(503, r.cseq, 1)))
  /\ UNCHANGED <<stream, given, toldIDs>>

\* A session is told with its reply, or has its stream on the connection.
ProcessStreamingRequest(r) ==
  LET f == FindStream(r, r.session = Absent)
      id == IF r.session = Absent THEN given + 1 ELSE r.session
  IN /\ ~OutsideSession(r) /\ f # Absent
     /\ given' = IF r.session = Absent THEN id ELSE given
     /\ \E out \in {Dispatch(r, Processed(stream[f], r, id))} :
          /\ stream' = [stream EXCEPT ![f] = out.stream]
          /\ fitting' = (fitting /\ Fits(r, out.reply))
          /\ toldIDs' = toldIDs \cup ({out.reply.session, IF r.method = "GET" THEN id ELSE Absent} \ {Absent})

HandleRequest ==
  \E r \in StreamRequests :
    /\ r.session # Absent \/ given < MaxIDs
    /\ AnswerOutside(r) \/ NoMoreFrontends(r) \/ ProcessStreamingRequest(r)

\* methodGet() of a file: what a substitution of @#1 makes of its length is sent and
\* announced; HEAD has no body.
FileLength(file) ==
  CASE file \in {"root", "data", "plain"} -> 2 [] file = "substituted" -> 3
    [] file = "missing" -> 1 [] OTHER -> 0
methodGet(file, head) ==
  LET status == CASE file = "root" -> 301 [] file = "STOP" -> 204 [] file = "missing" -> 404
                  [] OTHER -> 200
      n == FileLength(file)
  IN [WithContent(status, 0, n) EXCEPT !.body = IF head THEN 0 ELSE n]

\* methodPost(): what the page sends goes to the settings, module ConfigStore.
methodPost == WithContent(204, 0, 0)

PostSettings ==
  /\ fitting' = (fitting /\ Fits([method |-> "POST", cseq |-> 0, session |-> Absent], methodPost))
  /\ UNCHANGED <<stream, given, toldIDs>>

GetFile ==
  \E file \in StaticFiles, head \in BOOLEAN :
    /\ fitting' = (fitting /\ Fits([method |-> IF head THEN "HEAD" ELSE "GET", cseq |-> 0,
                                    session |-> Absent], methodGet(file, head)))
    /\ UNCHANGED <<stream, given, toldIDs>>

\* The watchdog ends a session.
TimeoutSession ==
  \E f \in Feeds :
    /\ stream[f].session # Absent
    /\ stream' = [stream EXCEPT ![f] = [FreeStream EXCEPT !.cseq = stream[f].cseq]]
    /\ UNCHANGED <<given, fitting, toldIDs>>

RepliesInit ==
  /\ stream = [f \in Feeds |-> FreeStream] /\ given = 0 /\ toldIDs = {}
  /\ fitting = TRUE

RepliesNext == HandleRequest \/ GetFile \/ PostSettings \/ TimeoutSession

RepliesSpec == RepliesInit /\ [][RepliesNext]_repliesVars

-----------------------------------------------------------------------------

\* Every reply carries the number and the session of its request and the content that it
\* announces.  And no stream is kept for a session that nobody knows: each one in use was told
\* to its client or streams on its client's connection, but for one without a transport, that
\* was begun by a method that the servers do not answer.
RepliesRight ==
  /\ fitting
  /\ \A f \in Feeds : stream[f].session # Absent =>
       stream[f].session \in toldIDs \/ stream[f].type = "none"

\* The streams that are free have lost their transport.
RepliesInv ==
  /\ RepliesTypeOK /\ RepliesRight
  /\ \A f \in Feeds : stream[f].session = Absent => stream[f].type = "none"
===============================================================================
