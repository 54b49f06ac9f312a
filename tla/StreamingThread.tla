---------------------------- MODULE StreamingThread ----------------------------
(***************************************************************************)
(* The life of one streaming object (output::StreamThreadBase): a Stream,  *)
(* which holds its lock, constructs, starts, pauses, restarts and destroys *)
(* it, against                                                             *)
(*                                                                         *)
(*  - the streaming thread, a base::ThreadBase: it loops while _run, and   *)
(*    reads and then writes the atomic StreamThreadBase::_state;           *)
(*  - the helpers, base::Thread objects: the device monitor, and for RTP   *)
(*    the RTCP sender.  Each loop reads its atomic _state in one step and  *)
(*    writes the successor in another, and so may overwrite what its       *)
(*    caller stored in between.                                            *)
(*                                                                         *)
(* A wait of the caller may give up: 2.5 seconds for a pause, 5 for a stop.*)
(* Abstracted: the packets and the sockets.                                *)
(***************************************************************************)
EXTENDS Naturals, FiniteSets

CONSTANTS
  Helpers,     \* {"monitor"} for HTTP, {"monitor", "rtcp"} for RTP
  CreateFails, \* whether pthread_create may fail
  MaxStarts    \* bound: threads created for one helper of one object

ASSUME HelpersAssumption == {"monitor"} \subseteq Helpers /\ Helpers \subseteq {"monitor", "rtcp"}
ASSUME CreateFailsAssumption == CreateFails \in BOOLEAN
ASSUME MaxStartsAssumption == MaxStarts \in Nat \ {0}

Loops == 1..MaxStarts

VARIABLES
  ctl,     \* where the Stream is in its calls of the object
  todo,    \* the helpers the call has yet to deal with
  active,  \* Stream::_streamActive
  paused,  \* what the last pauseStreaming returned; the Stream ignores it
  run,     \* ThreadBase::_run
  exit,    \* ThreadBase::_exit
  state,   \* StreamThreadBase::_state
  main,    \* the streaming thread
  hstate,  \* Thread::_state of each helper
  loop,    \* the threads of each helper, in the order they were created
  killed,  \* the threads that pthread_cancel was called for
  flaws    \* history: "pause", when one gave up, and "create", when that of a thread failed

callVars == <<ctl, todo, active, paused, flaws>>
mainVars == <<run, exit, state, main>>
helperVars == <<hstate, loop>>
vars == <<callVars, mainVars, helperVars, killed>>

Calls ==
  {"none", "idle", "on",
   "start", "started", "pause", "pausing", "update", "restart",
   "stop", "join", "stopHelpers", "helperStop", "helperJoin"}
State == {"Running", "Pause", "Paused"}
HelperState == {"Unknown", "Stopping", "Stopped", "Starting", "Started", "Pausing", "Paused"}

\* A thread: not created; at the top of its loop; about to write _state; in its
\* work; about to end; ended.  "saw" is the state that a helper's loop has read.
At == {"none", "top", "act", "work", "exit", "gone"}
NoThread == [at |-> "none", saw |-> "Unknown"]
NewThread == [at |-> "top", saw |-> "Unknown"]

\* Threads by name: "main", or a helper and the number of its loop.
Threads == {<<"main", 1>>} \cup (Helpers \X Loops)

TypeOK ==
  /\ ctl \in Calls /\ todo \subseteq Helpers
  /\ active \in BOOLEAN /\ paused \in BOOLEAN /\ flaws \subseteq {"pause", "create"}
  /\ run \in BOOLEAN /\ exit \in BOOLEAN
  /\ state \in State /\ main \in At
  /\ hstate \in [Helpers -> HelperState]
  /\ loop \in [Helpers -> [Loops -> [at : At, saw : HelperState]]]
  /\ killed \subseteq Threads

Alive(at) == at \notin {"none", "gone"}
LiveLoops(h) == {i \in Loops : Alive(loop[h][i].at)}

Init ==
  /\ ctl = "none" /\ todo = {} /\ active = FALSE /\ paused = FALSE /\ flaws = {}
  /\ run = FALSE /\ exit = FALSE /\ state = "Paused" /\ main = "none"
  /\ hstate = [h \in Helpers |-> "Unknown"]
  /\ loop = [h \in Helpers |-> [i \in Loops |-> NoThread]]
  /\ killed = {}

-----------------------------------------------------------------------------
(* The calls of the Stream.  The constructors come first.                     *)

\* Mutant: the object starts out waiting for its thread to pause.
Construct_Pause ==
  /\ ctl = "none" /\ ~Alive(main) /\ \A h \in Helpers : LiveLoops(h) = {}
  /\ ctl' = "idle" /\ active' = FALSE /\ paused' = FALSE /\ flaws' = {}
  /\ run' = FALSE /\ exit' = FALSE /\ state' = "Pause" /\ main' = "none"
  /\ hstate' = [h \in Helpers |-> "Unknown"]
  /\ loop' = [h \in Helpers |-> [i \in Loops |-> NoThread]]
  /\ killed' = {}
  /\ UNCHANGED todo

\* A new object, once no thread of the last one is left.
Construct ==
  /\ ctl = "none" /\ ~Alive(main) /\ \A h \in Helpers : LiveLoops(h) = {}
  /\ ctl' = "idle" /\ active' = FALSE /\ paused' = FALSE /\ flaws' = {}
  /\ run' = FALSE /\ exit' = FALSE /\ state' = "Paused" /\ main' = "none"
  /\ hstate' = [h \in Helpers |-> "Unknown"]
  /\ loop' = [h \in Helpers |-> [i \in Loops |-> NoThread]]
  /\ killed' = {}
  /\ UNCHANGED todo

Call(c) == ctl' = c /\ todo' = Helpers

\* The monitor is dealt with first, but destroyed last.
FirstHelper == IF "monitor" \in todo THEN "monitor" ELSE "rtcp"
LastHelper == IF "rtcp" \in todo THEN "rtcp" ELSE "monitor"
Done(h) == todo' = todo \ {h}

Created(fails) == fails \in (IF CreateFails THEN BOOLEAN ELSE {FALSE})

\* Stream::update starts an object whose streaming is not active.
StartStreaming ==
  /\ ctl \in {"idle", "update"} /\ ~active
  /\ \A h \in Helpers : loop[h][MaxStarts].at = "none"  \* bound
  /\ Call("start")
  /\ UNCHANGED <<active, paused, flaws, mainVars, helperVars, killed>>

\* Thread::startThread.  Without a monitor startStreaming gives up; without RTCP not.
StartHelper ==
  /\ ctl = "start" /\ todo # {}
  /\ LET h == FirstHelper
     IN  \E fails \in BOOLEAN, i \in Loops :
           /\ Created(fails)
           /\ loop[h][i].at = "none" /\ \A j \in Loops : j < i => loop[h][j].at # "none"
           /\ hstate' = [hstate EXCEPT ![h] = IF fails THEN "Unknown" ELSE "Starting"]
           /\ loop' = IF fails THEN loop ELSE [loop EXCEPT ![h][i] = NewThread]
           /\ ctl' = IF fails /\ h = "monitor" THEN "idle" ELSE ctl
           /\ flaws' = IF fails THEN flaws \cup {"create"} ELSE flaws
           /\ Done(h)
  /\ UNCHANGED <<active, paused, mainVars, killed>>

\* ThreadBase::startThread sets _run also when no thread could be created.
StartMain ==
  /\ ctl = "start" /\ todo = {}
  /\ run' = TRUE /\ exit' = FALSE
  /\ \E fails \in BOOLEAN :
       /\ Created(fails)
       /\ main' = IF fails THEN main ELSE "top"
       /\ ctl' = IF fails THEN "idle" ELSE "started"
       /\ flaws' = IF fails THEN flaws \cup {"create"} ELSE flaws
  /\ UNCHANGED <<todo, active, paused, state, helperVars, killed>>

\* The last step of startStreaming and of restartStreaming.
SetRunning ==
  /\ ctl = "started" \/ (ctl = "restart" /\ todo = {})
  /\ state' = "Running"
  /\ ctl' = "on" /\ active' = TRUE
  /\ UNCHANGED <<todo, paused, flaws, run, exit, main, helperVars, killed>>

\* A channel change: Stream::processStreamingRequest pauses, then updates the device.
PauseStreaming ==
  /\ ctl \in {"idle", "on"}
  /\ IF run THEN Call("pause") ELSE ctl' = "update" /\ UNCHANGED todo
  /\ paused' = TRUE
  /\ UNCHANGED <<active, flaws, mainVars, helperVars, killed>>

PauseHelper ==
  /\ ctl = "pause" /\ todo # {}
  /\ hstate' = [hstate EXCEPT ![FirstHelper] = "Pausing"]
  /\ Done(FirstHelper)
  /\ UNCHANGED <<ctl, active, paused, flaws, mainVars, loop, killed>>

SetPause ==
  /\ ctl = "pause" /\ todo = {}
  /\ state' = "Pause" /\ ctl' = "pausing"
  /\ UNCHANGED <<todo, active, paused, flaws, run, exit, main, helperVars, killed>>

\* Mutant: the caller does not wait for its thread.
PauseDone_NoWait ==
  /\ ctl = "pausing"
  /\ ctl' = "update" /\ paused' = TRUE
  /\ UNCHANGED <<todo, active, flaws, mainVars, helperVars, killed>>

PauseDone ==
  /\ ctl = "pausing" /\ state = "Paused"
  /\ ctl' = "update" /\ paused' = TRUE
  /\ UNCHANGED <<todo, active, flaws, mainVars, helperVars, killed>>

\* A wait gives up after its last sleep, without another look at what it waits for.
PauseGivesUp ==
  /\ ctl = "pausing"
  /\ ctl' = "update" /\ paused' = FALSE /\ flaws' = flaws \cup {"pause"}
  /\ UNCHANGED <<todo, active, mainVars, helperVars, killed>>

\* The device is updated: an active stream is restarted.
RestartStreaming ==
  /\ ctl = "update" /\ active
  /\ Call("restart")
  /\ UNCHANGED <<active, paused, flaws, mainVars, helperVars, killed>>

RestartHelper ==
  /\ ctl = "restart" /\ todo # {}
  /\ hstate' = [hstate EXCEPT ![FirstHelper] = "Starting"]
  /\ Done(FirstHelper)
  /\ UNCHANGED <<ctl, active, paused, flaws, mainVars, loop, killed>>

-----------------------------------------------------------------------------
(* Destruction: the streaming thread, then RTCP, then the monitor.            *)

\* Stream::teardown; also when the device update failed.  terminateThread does
\* nothing for a thread that was never started.
Destroy ==
  /\ ctl \in {"idle", "on", "update"}
  /\ Call(IF run THEN "stop" ELSE "stopHelpers")
  /\ run' = FALSE
  /\ UNCHANGED <<active, paused, flaws, exit, state, main, helperVars, killed>>

\* ThreadBase::stopThread waits for _exit...
StopDone ==
  /\ ctl = "stop" /\ exit
  /\ ctl' = "join"
  /\ UNCHANGED <<todo, active, paused, flaws, mainVars, helperVars, killed>>

\* Mutant: the thread that does not stop is not cancelled.
StopGivesUp_NoCancel ==
  /\ ctl = "stop"
  /\ ctl' = "join" /\ exit' = TRUE
  /\ UNCHANGED <<todo, active, paused, flaws, run, state, main, helperVars, killed>>

\* ...or cancels the thread.
StopGivesUp ==
  /\ ctl = "stop"
  /\ ctl' = "join" /\ exit' = TRUE
  /\ killed' = killed \cup {<<"main", 1>>}
  /\ UNCHANGED <<todo, active, paused, flaws, run, state, main, helperVars>>

Join ==
  /\ ctl = "join" /\ ~Alive(main)
  /\ ctl' = "stopHelpers"
  /\ UNCHANGED <<todo, active, paused, flaws, mainVars, helperVars, killed>>

\* Thread::terminateThread of the next helper.
StopHelper ==
  /\ ctl = "stopHelpers" /\ todo # {}
  /\ LET h == LastHelper
     IN  IF hstate[h] = "Unknown"
         THEN Done(h) /\ UNCHANGED <<ctl, hstate>>
         ELSE /\ hstate' = [hstate EXCEPT ![h] = "Stopping"]
              /\ ctl' = "helperStop" /\ UNCHANGED todo
  /\ UNCHANGED <<active, paused, flaws, mainVars, loop, killed>>

HelperStopped ==
  /\ ctl = "helperStop" /\ hstate[LastHelper] = "Stopped"
  /\ ctl' = "helperJoin"
  /\ UNCHANGED <<todo, active, paused, flaws, mainVars, helperVars, killed>>

\* The handle is that of the thread created last.
LastLoop(h, i) == loop[h][i].at # "none" /\ \A j \in Loops : j > i => loop[h][j].at = "none"

\* cancelThread makes the state Unknown, for which joinThread does nothing.
HelperGivesUp ==
  /\ ctl = "helperStop"
  /\ killed' = killed \cup {<<LastHelper, i>> : i \in {k \in Loops : LastLoop(LastHelper, k)}}
  /\ hstate' = [hstate EXCEPT ![LastHelper] = "Unknown"]
  /\ ctl' = "stopHelpers" /\ Done(LastHelper)
  /\ UNCHANGED <<active, paused, flaws, mainVars, loop>>

HelperJoin ==
  /\ ctl = "helperJoin"
  /\ \A i \in Loops : LastLoop(LastHelper, i) => ~Alive(loop[LastHelper][i].at)
  /\ ctl' = "stopHelpers" /\ Done(LastHelper)
  /\ UNCHANGED <<active, paused, flaws, mainVars, helperVars, killed>>

Destroyed ==
  /\ ctl = "stopHelpers" /\ todo = {}
  /\ ctl' = "none" /\ active' = FALSE
  /\ UNCHANGED <<todo, paused, flaws, mainVars, helperVars, killed>>

-----------------------------------------------------------------------------
(* The streaming thread: StreamThreadBase::threadEntry.                       *)

MainTop ==
  /\ main = "top"
  /\ main' = IF ~run THEN "exit"
             ELSE CASE state = "Running" -> "work"  \* readDataFromInputDevice
                    [] state = "Pause"   -> "act"
                    [] OTHER             -> "top"   \* sleeps
  /\ UNCHANGED <<callVars, run, exit, state, helperVars, killed>>

MainAct ==
  /\ main = "act"
  /\ state' = "Paused" /\ main' = "top"
  /\ UNCHANGED <<callVars, run, exit, helperVars, killed>>

\* A read of the device or a write to the client returns.
MainWorked ==
  /\ main = "work"
  /\ main' = "top"
  /\ UNCHANGED <<callVars, run, exit, state, helperVars, killed>>

MainExit ==
  /\ main = "exit"
  /\ exit' = TRUE /\ main' = "gone"
  /\ UNCHANGED <<callVars, run, state, helperVars, killed>>

\* Cancellation is asynchronous.
MainCancelled ==
  /\ <<"main", 1>> \in killed /\ Alive(main)
  /\ main' = "gone"
  /\ UNCHANGED <<callVars, run, exit, state, helperVars, killed>>

-----------------------------------------------------------------------------
(* A helper: Thread::threadEntryBase.                                         *)

LoopTop(h, i) ==
  /\ loop[h][i].at = "top"
  /\ loop' = [loop EXCEPT ![h][i] =
       [saw |-> hstate[h],
        at |-> CASE hstate[h] = "Started"               -> "work"
                 [] hstate[h] = "Stopped"               -> "gone"
                 [] hstate[h] \in {"Unknown", "Paused"} -> "top"
                 [] OTHER                               -> "act"]]
  /\ UNCHANGED <<callVars, mainVars, hstate, killed>>

Successor == [Starting |-> "Started", Pausing |-> "Paused", Stopping |-> "Stopped"]

LoopAct(h, i) ==
  /\ loop[h][i].at = "act"
  /\ hstate' = [hstate EXCEPT ![h] = Successor[loop[h][i].saw]]
  /\ loop' = [loop EXCEPT ![h][i] = NewThread]
  /\ UNCHANGED <<callVars, mainVars, killed>>

\* threadExecuteDeviceMonitor and threadExecuteFunction always return true.
LoopWorked(h, i) ==
  /\ loop[h][i].at = "work"
  /\ loop' = [loop EXCEPT ![h][i] = NewThread]
  /\ UNCHANGED <<callVars, mainVars, hstate, killed>>

LoopCancelled(h, i) ==
  /\ <<h, i>> \in killed /\ Alive(loop[h][i].at)
  /\ loop' = [loop EXCEPT ![h][i].at = "gone"]
  /\ UNCHANGED <<callVars, mainVars, hstate, killed>>

-----------------------------------------------------------------------------
\* The requests that begin a call come from clients; a call that is begun goes on.
BeginCall == Construct \/ StartStreaming \/ PauseStreaming \/ RestartStreaming \/ Destroy
GoOn ==
  \/ StartHelper \/ StartMain \/ SetRunning
  \/ PauseHelper \/ SetPause \/ PauseDone \/ PauseGivesUp \/ RestartHelper
  \/ StopDone \/ StopGivesUp \/ Join
  \/ StopHelper \/ HelperStopped \/ HelperGivesUp \/ HelperJoin \/ Destroyed

MainStep == MainTop \/ MainAct \/ MainExit
LoopStep(h, i) == LoopTop(h, i) \/ LoopAct(h, i) \/ LoopWorked(h, i)

Next ==
  \/ BeginCall \/ GoOn \/ MainStep \/ MainWorked \/ MainCancelled
  \/ \E h \in Helpers, i \in Loops : LoopStep(h, i) \/ LoopCancelled(h, i)

Spec == Init /\ [][Next]_vars

\* Threads are scheduled and every wait of the caller ends, at the latest when it
\* gives up.  A read or write that blocks need not return.
FairSpec ==
  /\ Spec
  /\ WF_vars(GoOn) /\ WF_vars(MainStep) /\ WF_vars(MainCancelled)
  /\ \A h \in Helpers, i \in Loops :
       WF_vars(LoopStep(h, i)) /\ WF_vars(LoopCancelled(h, i))

-----------------------------------------------------------------------------
\* While the device is set up anew after a pause that succeeded, and until the restart
\* is complete, the streaming thread neither reads the device nor is about to.
UpdateIsQuiet == ctl \in {"update", "restart"} /\ paused => main # "work"

\* What startStreaming and restartStreaming store is not overwritten by their thread,
\* unless a pause gave up before or a thread could not be created.
RunningNotLost == ctl = "on" /\ flaws = {} => state = "Running" /\ main # "act"

\* The helpers, and the sockets and packets after them, are destroyed only when the
\* streaming thread is gone, whether it stopped or was cancelled.
MainJoined ==
  ctl \in {"stopHelpers", "helperStop", "helperJoin", "none"} => ~Alive(main)

\* A destruction comes to its end, whatever blocks the threads.  (Not so when a start
\* failed after the monitor was created: the next start creates a second monitor loop,
\* and the state that the destructor waits for may be overwritten by either.)
DestroyEnds == ctl = "stop" /\ "create" \notin flaws ~> ctl = "none"

\* After a start or restart the thread reads the device, or another call begins.
ReadsAgain == ctl = "on" /\ flaws = {} ~> main = "work" \/ ctl # "on"

\* joinThread returns only when the thread has exited.
JoinWaits == ctl = "none" /\ flaws = {} => \A h \in Helpers : LiveLoops(h) = {}

-----------------------------------------------------------------------------
\* The inductive invariant of the streaming thread and its caller.  The thread exists
\* from the start on, or not at all; whoever sees state Paused knows that it is not at
\* work, since only the thread stores that state; and, as long as no pause gives up and
\* no start fails, only a thread that is asked to pause is about to store it.
CallInv ==
  /\ ctl \in Calls /\ state \in State /\ main \in At
  /\ ctl \in {"stopHelpers", "helperStop", "helperJoin", "none"} => ~Alive(main)
  /\ ctl \in {"idle", "start", "started"} => ~active
  /\ ctl \in {"on", "restart"} => active
  /\ ~active /\ ctl \in {"idle", "start", "pause", "pausing", "update"} => main = "none"
  /\ active /\ ctl \in {"on", "pause", "pausing", "update", "restart"} => run
  /\ ctl \in {"started", "pause", "pausing"} => run
StateInv ==
  /\ main = "work" => state # "Paused"
  /\ ctl \in {"update", "restart"} /\ paused /\ Alive(main) => state = "Paused"
  /\ flaws = {} =>
       /\ main = "act" => state = "Pause"
       /\ ctl = "on" => state = "Running"
       /\ ctl \in {"update", "restart"} => paused /\ state = "Paused"
       /\ ctl \in {"idle", "start", "started"} => state = "Paused"
       /\ ~active /\ ctl \in {"idle", "start", "pause", "pausing", "update"} => ~run
IInv == CallInv /\ StateInv
=============================================================================
