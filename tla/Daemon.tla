-------------------------------- MODULE Daemon --------------------------------
(***************************************************************************)
(* The life of the process: the options of the command line, the fork in   *)
(* daemonize() with the confirmation that the parent waits for, the signal *)
(* handler, the construction of SatPI with its three server threads, the   *)
(* loop that waits for the end, and the destruction of the members in the  *)
(* reverse of the order in which they are declared.                        *)
(*                                                                         *)
(* main is the process that becomes the daemon, parent the one that forked *)
(* it.  What a server thread does with a request is modelled elsewhere;    *)
(* here a request is the set of members of SatPI that it uses meanwhile.   *)
(***************************************************************************)
EXTENDS Integers, Sequences, SequencesExt

CONSTANTS CommandLines,  \* sequences of <<"option", name>>, <<"number", n>>, <<"text", t>>
          MaxSignals,    \* bound: signals that somebody sends
          MaxRequests    \* bound: requests while the daemon runs

VARIABLES main, parent, params,
          handlers,      \* the signal handler is installed
          exitApp,       \* the handler's flag in main
          exitPage,      \* Properties::_exitApplication
          alive,         \* how many of the members exist
          threads,       \* the server threads: "none", "idle", "busy" or "ended"
          using,         \* the members that the request of each thread uses
          cancelled, askedToStop, signals, requests

daemonVars == <<main, parent, params, handlers, exitApp, exitPage, alive, threads, using,
                cancelled, askedToStop, signals, requests>>

-----------------------------------------------------------------------------
(* The options *)

Ports(first) == first .. 65535

\* The options with a number, and what it may be.
Limits == [childpipe |-> 0 .. 25, httpport |-> Ports(1024), rtspport |-> Ports(554),
           ssdpttl |-> 1 .. 15]

\* The options with a text.
TextOptions == {"user", "dvbpath", "appdatapath", "ifacename", "httppath", "backtrace"}

FirstParams == [result |-> "run", wants |-> "none", ssdp |-> TRUE, daemon |-> TRUE,
                user |-> FALSE, unsecure |-> FALSE]

\* The usage is printed, or what was asked for, and the program ends.
Usage(s) == [s EXCEPT !.result = "end"]

\* The word is the value of the option before it, whatever it looks like.
TakeValue(s, word) ==
  IF s.wants \in DOMAIN Limits
  THEN IF word[1] = "number" /\ word[2] \in Limits[s.wants]
       THEN [s EXCEPT !.wants = "none"] ELSE Usage(s)
  ELSE [s EXCEPT !.wants = "none", !.user = @ \/ s.wants = "user",
                 !.result = IF s.wants = "backtrace" THEN "end" ELSE @]

TakeOption(s, word) ==
  IF word[1] # "option" THEN Usage(s)
  ELSE CASE word[2] = "nossdp" -> [s EXCEPT !.ssdp = FALSE]
         [] word[2] = "nodaemon" -> [s EXCEPT !.daemon = FALSE]
         [] word[2] = "unsecure" -> [s EXCEPT !.unsecure = TRUE]
         [] word[2] \in DOMAIN Limits \cup TextOptions -> [s EXCEPT !.wants = word[2]]
         [] OTHER -> Usage(s)  \* --version, --help, and what is unknown

TakeWord(s, word) ==
  IF s.result = "end" THEN s
  ELSE IF s.wants # "none" THEN TakeValue(s, word) ELSE TakeOption(s, word)

CheckOptions(words) ==
  LET s == FoldLeft(TakeWord, FirstParams, words)
  IN IF s.wants # "none" THEN Usage(s) ELSE s

-----------------------------------------------------------------------------
(* The members *)

\* In the order of their declaration.
Members == <<"interface", "streams", "properties", "http", "rtsp", "ssdp">>
Alive == {Members[i] : i \in 1 .. alive}
ServerThreads == {"http", "rtsp", "ssdp"}

\* What the requests of a thread use: a page, the settings as XML, a reply; the SSDP server
\* saves the settings when its boot ID changes.
Uses == [http |-> {{"properties", "streams"}, {"properties", "streams", "ssdp"}},
         rtsp |-> {{"streams"}},
         ssdp |-> {{"properties"}, {"properties", "streams", "ssdp"}}]

-----------------------------------------------------------------------------

DaemonInit ==
  /\ main = "start" /\ parent = "none" /\ params = FirstParams
  /\ handlers = FALSE /\ exitApp = FALSE /\ exitPage = FALSE
  /\ alive = 0 /\ threads = [s \in ServerThreads |-> "none"] /\ using = [s \in ServerThreads |-> {}]
  /\ cancelled = {} /\ askedToStop = FALSE /\ signals = 0 /\ requests = 0

keepsServers == UNCHANGED <<alive, threads, using, cancelled, exitPage, requests>>
keepsSignals == UNCHANGED <<handlers, exitApp, askedToStop, signals>>

\* main(): the options; a process whose parent is init is a daemon already, and gets no
\* handlers then either.
StartProgram(words, underInit) ==
  /\ main = "start"
  /\ \E s \in {CheckOptions(words)} :
       /\ params' = s
       /\ main' = IF s.result = "end" THEN "ended"
                  ELSE IF s.daemon /\ ~underInit THEN "daemonize" ELSE "build"
  /\ UNCHANGED parent /\ keepsServers /\ keepsSignals

\* daemonize(): the lock file and the user may fail; the handlers are installed before fork().
Prepare ==
  /\ main = "daemonize" /\ ~handlers
  /\ \/ handlers' = TRUE /\ UNCHANGED main
     \/ main' = "ended" /\ UNCHANGED handlers
  /\ UNCHANGED <<parent, params, exitApp, askedToStop, signals>> /\ keepsServers

Fork ==
  /\ main = "daemonize" /\ handlers
  /\ \/ main' = "child" /\ parent' = "alarm"
     \/ main' = "ended" /\ UNCHANGED parent
  /\ UNCHANGED params /\ keepsServers /\ keepsSignals

\* A signal that the parent handles ends its pause(); before pause() it is lost.
ToParent == parent' = IF parent = "pause" THEN "ended" ELSE parent

\* The child: the PID, the session, the standard files; it tells the parent, which sees
\* SIGCHLD when it fails.
BecomeDaemon ==
  /\ main = "child"
  /\ main' \in {"build", "ended"} /\ ToParent
  /\ UNCHANGED params /\ keepsServers /\ keepsSignals

Pause == parent = "alarm" /\ parent' = "pause" /\ UNCHANGED <<main, params>> /\ keepsServers /\ keepsSignals

\* After 2 seconds, which is after pause() was called.
AlarmRings == parent = "pause" /\ parent' = "ended" /\ UNCHANGED <<main, params>> /\ keepsServers /\ keepsSignals

-----------------------------------------------------------------------------
(* The constructor of SatPI, the loop of main(), and the destructor *)

\* The members, the devices and the settings; what is wrong in the settings file throws, and
\* what was constructed is destroyed.
MayConstruct == main = "build" /\ alive = 0
Construct ==
  /\ MayConstruct
  /\ alive' = Len(Members)
  /\ main' \in {"build", "destroy"}
  /\ UNCHANGED <<parent, params, threads, using, cancelled, exitPage, requests>> /\ keepsSignals

\* Whether or not the port could be bound, the thread runs.
MayStartServer(s) ==
  /\ main = "build" /\ alive = Len(Members) /\ threads[s] = "none"
  /\ s = "rtsp" => threads["http"] # "none"
  /\ s = "ssdp" => params.ssdp /\ threads["rtsp"] # "none"
StartServer(s) ==
  /\ MayStartServer(s)
  /\ threads' = [threads EXCEPT ![s] = "idle"]
  /\ UNCHANGED <<main, parent, params, alive, using, cancelled, exitPage, requests>> /\ keepsSignals

MayEnterLoop ==
  main = "build" /\ threads["rtsp"] # "none" /\ (params.ssdp => threads["ssdp"] # "none")

\* A flag that is reset once more where restartApp is.
EnterLoop_ResetsExit ==
  /\ MayEnterLoop
  /\ main' = "loop" /\ exitApp' = FALSE
  /\ UNCHANGED <<parent, params, handlers, askedToStop, signals>> /\ keepsServers
EnterLoop ==
  /\ MayEnterLoop
  /\ main' = "loop"
  /\ UNCHANGED <<parent, params>> /\ keepsServers /\ keepsSignals

MayLeaveLoop == main = "loop" /\ (exitApp \/ exitPage)
LeaveLoop ==
  /\ MayLeaveLoop
  /\ main' = "destroy"
  /\ UNCHANGED <<parent, params>> /\ keepsServers /\ keepsSignals

LastMember == Members[alive]

\* cancelThread(): of a thread that never started, this is a call with no thread at all: it
\* may be passed over or end the process.
MayCancel == main = "destroy" /\ alive > 0 /\ LastMember \in ServerThreads \ cancelled
Cancel ==
  /\ MayCancel
  /\ cancelled' = cancelled \cup {LastMember}
  /\ \/ UNCHANGED main
     \/ threads[LastMember] = "none" /\ main' = "ended"
  /\ UNCHANGED <<parent, params, alive, threads, using, exitPage, requests>> /\ keepsSignals

\* joinThread() where there was a thread, and the end of the member.
MayDestroy ==
  /\ main = "destroy" /\ alive > 0
  /\ LastMember \in ServerThreads => LastMember \in cancelled /\ threads[LastMember] \in {"none", "ended"}
Destroy ==
  /\ MayDestroy
  /\ alive' = alive - 1
  /\ UNCHANGED <<main, parent, params, threads, using, cancelled, exitPage, requests>> /\ keepsSignals

\* The process ends, with what is left of its threads.
MayReturn == main = "destroy" /\ alive = 0
ReturnFromMain ==
  /\ MayReturn
  /\ main' = "ended"
  /\ UNCHANGED <<parent, params>> /\ keepsServers /\ keepsSignals

-----------------------------------------------------------------------------
(* The server threads, and the signals *)

Running == main \notin {"start", "ended"}

\* A cancelled thread ends in its next poll(), before another request.
TakeRequest(s) ==
  /\ Running /\ threads[s] = "idle" /\ s \notin cancelled /\ requests < MaxRequests
  /\ \E u \in Uses[s] : using' = [using EXCEPT ![s] = u]
  /\ threads' = [threads EXCEPT ![s] = "busy"] /\ requests' = requests + 1
  /\ UNCHANGED <<main, parent, params, alive, cancelled, exitPage>> /\ keepsSignals

\* The page that stops the daemon sets the flag while its request is handled.
StopPage ==
  /\ Running /\ threads["http"] = "busy" /\ using["http"] = {"properties", "streams"} /\ ~exitPage
  /\ exitPage' = TRUE /\ askedToStop' = TRUE
  /\ UNCHANGED <<main, parent, params, alive, threads, using, cancelled, requests, handlers,
                 exitApp, signals>>

\* The end of a request, and that of a cancelled thread: also in the middle of a request,
\* wherever it reads or writes.
MayStep(s) == Running /\ (threads[s] = "busy" \/ (threads[s] = "idle" /\ s \in cancelled))
ThreadStep(s) ==
  /\ MayStep(s)
  /\ \/ threads[s] = "busy" /\ threads' = [threads EXCEPT ![s] = "idle"]
     \/ s \in cancelled /\ threads' = [threads EXCEPT ![s] = "ended"]
  /\ using' = [using EXCEPT ![s] = {}]
  /\ UNCHANGED <<main, parent, params, alive, cancelled, exitPage, requests>> /\ keepsSignals

\* child_handler() for TERM, HUP, INT and USR1; without it the signal ends the process.
child_handler ==
  IF handlers THEN exitApp' = TRUE /\ askedToStop' = TRUE /\ UNCHANGED main
  ELSE main' = "ended" /\ UNCHANGED <<exitApp, askedToStop>>

Signal ==
  /\ signals < MaxSignals /\ signals' = signals + 1
  /\ \/ main # "ended" /\ child_handler /\ UNCHANGED parent
     \/ parent \in {"alarm", "pause"} /\ ToParent /\ UNCHANGED <<main, exitApp, askedToStop>>
  /\ UNCHANGED <<params, handlers>> /\ keepsServers

MainStep ==
  \/ \E words \in CommandLines, underInit \in BOOLEAN : StartProgram(words, underInit)
  \/ Prepare \/ Fork \/ BecomeDaemon \/ Pause \/ AlarmRings
  \/ Construct \/ (\E s \in ServerThreads : StartServer(s)) \/ EnterLoop \/ LeaveLoop
  \/ Cancel \/ Destroy \/ ReturnFromMain

DaemonNext ==
  \/ MainStep \/ StopPage \/ Signal
  \/ \E s \in ServerThreads : TakeRequest(s) \/ ThreadStep(s)

DaemonSpec == DaemonInit /\ [][DaemonNext]_daemonVars

-----------------------------------------------------------------------------

DaemonTypeOK ==
  /\ main \in {"start", "daemonize", "child", "build", "loop", "destroy", "ended"}
  /\ parent \in {"none", "alarm", "pause", "ended"}
  /\ alive \in 0 .. Len(Members) /\ cancelled \subseteq ServerThreads
  /\ threads \in [ServerThreads -> {"none", "idle", "busy", "ended"}]
  /\ using \in [ServerThreads -> SUBSET {"properties", "streams", "ssdp"}]
  /\ {handlers, exitApp, exitPage, askedToStop} \subseteq BOOLEAN
  /\ params.result \in {"run", "end"} /\ signals \in 0 .. MaxSignals /\ requests \in 0 .. MaxRequests

\* The inductive invariant of UsedIsThere: a thread that may still take requests belongs to a
\* member that exists, and only the request that it handles uses anything.
DaemonInv ==
  /\ alive \in 0 .. Len(Members)
  /\ threads \in [ServerThreads -> {"none", "idle", "busy", "ended"}]
  /\ using \in [ServerThreads -> SUBSET {"properties", "streams", "ssdp"}]
  /\ \A s \in ServerThreads :
       /\ threads[s] \in {"idle", "busy"} => main = "ended" \/ s \in Alive
       /\ using[s] # {} => threads[s] = "busy" /\ using[s] \in Uses[s]

\* The inductive invariant of NobodyStuck: no handler before the fork, all the members or none
\* once they are built, and a flag for whatever asked for the end.
StoppingInv ==
  /\ main \in {"start", "daemonize", "child", "build", "loop", "destroy", "ended"}
  /\ main = "start" => ~handlers /\ ~askedToStop
  /\ main \in {"start", "daemonize", "child"} => alive = 0
  /\ main = "build" => alive \in {0, Len(Members)}
  /\ askedToStop => exitApp \/ exitPage

\* SatPI: while members are destroyed the server threads go on; what a request uses is still
\* there, but for the SSDP server, which goes first and which the settings page still reads.
UsedIsThere == main # "ended" => \A s \in ServerThreads : using[s] \ ({"ssdp"} \ {s}) \subseteq Alive

\* One of the threads has a next step; what StartProgram, Prepare, Fork and BecomeDaemon wait
\* for is no more than that it is their turn.
MainGoesOn ==
  \/ main = "start" /\ CommandLines # {}
  \/ main \in {"daemonize", "child"} \/ parent \in {"alarm", "pause"}
  \/ MayConstruct \/ (\E s \in ServerThreads : MayStartServer(s)) \/ MayEnterLoop \/ MayLeaveLoop
  \/ MayCancel \/ MayDestroy \/ MayReturn
SomebodyGoesOn == MainGoesOn \/ \E s \in ServerThreads : MayStep(s)

\* main(): when a signal was handled or the page was asked for, also while the daemon is still
\* being constructed, nobody waits for what never comes before the program has ended; nor does
\* the parent of the fork, also when the confirmation comes before its pause().
NobodyStuck ==
  (askedToStop /\ main # "ended") \/ parent \in {"alarm", "pause"} => SomebodyGoesOn
=============================================================================
