------------------------- MODULE StreamingThreadProofs -------------------------
(***************************************************************************)
(* Proofs about StreamingThread, for any helpers and any number of starts. *)
(***************************************************************************)
EXTENDS StreamingThread, TLAPS

USE DEF Calls, State, At, Alive

LEMMA InitInv == Init => IInv
  BY DEF Init, IInv, CallInv, StateInv

\* The calls of the Stream, up to the end of a start, a pause, a restart.
LEMMA CallsInv ==
  ASSUME IInv,
         \/ Construct \/ StartStreaming \/ StartHelper \/ StartMain \/ SetRunning
         \/ PauseStreaming \/ PauseHelper \/ SetPause \/ PauseDone \/ PauseGivesUp
         \/ RestartStreaming \/ RestartHelper
  PROVE  IInv'
<1> USE DEF IInv, CallInv, StateInv, callVars, mainVars, helperVars
<1>1. CASE Construct
  BY <1>1 DEF Construct
<1>2. CASE StartStreaming
  BY <1>2 DEF StartStreaming, Call
<1>3. CASE StartHelper
  BY <1>3 DEF StartHelper
<1>4. CASE StartMain
  BY <1>4 DEF StartMain
<1>5. CASE SetRunning
  BY <1>5 DEF SetRunning
<1>6. CASE PauseStreaming
  BY <1>6 DEF PauseStreaming, Call
<1>7. CASE PauseHelper
  BY <1>7 DEF PauseHelper
<1>8. CASE SetPause
  BY <1>8 DEF SetPause
<1>9. CASE PauseDone
  BY <1>9 DEF PauseDone
<1>10. CASE PauseGivesUp
  BY <1>10 DEF PauseGivesUp
<1>11. CASE RestartStreaming
  BY <1>11 DEF RestartStreaming, Call
<1>12. CASE RestartHelper
  BY <1>12 DEF RestartHelper
<1> QED
  BY <1>1, <1>2, <1>3, <1>4, <1>5, <1>6, <1>7, <1>8, <1>9, <1>10, <1>11, <1>12

\* The destruction of the object.
LEMMA DestroyInv ==
  ASSUME IInv,
         \/ Destroy \/ StopDone \/ StopGivesUp \/ Join \/ StopHelper
         \/ HelperStopped \/ HelperGivesUp \/ HelperJoin \/ Destroyed
  PROVE  IInv'
<1> USE DEF IInv, CallInv, StateInv, callVars, mainVars, helperVars
<1>1. CASE Destroy
  BY <1>1 DEF Destroy, Call
<1>2. CASE StopDone
  BY <1>2 DEF StopDone
<1>3. CASE StopGivesUp
  BY <1>3 DEF StopGivesUp
<1>4. CASE Join
  BY <1>4 DEF Join
<1>5. CASE StopHelper
  BY <1>5 DEF StopHelper
<1>6. CASE HelperStopped
  BY <1>6 DEF HelperStopped
<1>7. CASE HelperGivesUp
  BY <1>7 DEF HelperGivesUp
<1>8. CASE HelperJoin
  BY <1>8 DEF HelperJoin
<1>9. CASE Destroyed
  BY <1>9 DEF Destroyed
<1> QED
  BY <1>1, <1>2, <1>3, <1>4, <1>5, <1>6, <1>7, <1>8, <1>9

\* The threads themselves.
LEMMA ThreadsInv ==
  ASSUME IInv,
         \/ MainStep \/ MainWorked \/ MainCancelled
         \/ \E h \in Helpers, i \in Loops : LoopStep(h, i) \/ LoopCancelled(h, i)
  PROVE  IInv'
<1> USE DEF IInv, CallInv, StateInv, callVars, mainVars
<1>1. CASE MainTop
  BY <1>1 DEF MainTop
<1>2. CASE MainAct
  BY <1>2 DEF MainAct
<1>3. CASE MainExit
  BY <1>3 DEF MainExit
<1>4. CASE MainWorked
  BY <1>4 DEF MainWorked
<1>5. CASE MainCancelled
  BY <1>5 DEF MainCancelled
<1>6. ASSUME NEW h \in Helpers, NEW i \in Loops, LoopStep(h, i) \/ LoopCancelled(h, i)
      PROVE  IInv'
  BY <1>6 DEF LoopStep, LoopTop, LoopAct, LoopWorked, LoopCancelled
<1> QED
  BY <1>1, <1>2, <1>3, <1>4, <1>5, <1>6 DEF MainStep

LEMMA NextInv == IInv /\ [Next]_vars => IInv'
<1> SUFFICES ASSUME IInv, [Next]_vars PROVE IInv'
  OBVIOUS
<1>1. CASE UNCHANGED vars
  BY <1>1 DEF vars, callVars, mainVars, IInv, CallInv, StateInv
<1>2. CASE Next
  BY <1>2, CallsInv, DestroyInv, ThreadsInv DEF Next, BeginCall, GoOn
<1> QED
  BY <1>1, <1>2

\* The inductive invariant of StreamingThread holds in every reachable state.
THEOREM ThreadInvariant == Spec => []IInv
  BY InitInv, NextInv, PTL DEF Spec

\* After a pause that succeeded the device is set up while nobody reads it.
THEOREM UpdatesAreQuiet == Spec => []UpdateIsQuiet
<1>1. IInv => UpdateIsQuiet
  BY DEF IInv, CallInv, StateInv, UpdateIsQuiet
<1> QED
  BY <1>1, ThreadInvariant, PTL

\* As long as no pause gives up and no start fails, a start or restart is never lost.
THEOREM RunningIsNotLost == Spec => []RunningNotLost
<1>1. IInv => RunningNotLost
  BY DEF IInv, CallInv, StateInv, RunningNotLost
<1> QED
  BY <1>1, ThreadInvariant, PTL

\* The streaming thread is gone before anything it uses is destroyed.
THEOREM MainIsJoined == Spec => []MainJoined
<1>1. IInv => MainJoined
  BY DEF IInv, CallInv, MainJoined
<1> QED
  BY <1>1, ThreadInvariant, PTL
=============================================================================
