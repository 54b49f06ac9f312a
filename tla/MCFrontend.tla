------------------------------- MODULE MCFrontend -------------------------------
(***************************************************************************)
(* One DVB frontend, checked in one run: its PIDs or, in a behaviour of    *)
(* its own, its signal.  In the program the two share the descriptor of    *)
(* the frontend, which each module opens and closes for itself.            *)
(***************************************************************************)
EXTENDS MCPidFilters, SignalMonitor

VARIABLE part

\* A negative power in decibel, and values that the old calls scale down; and hardly a signal.
MCSignals ==
  {[lock |-> TRUE, level |-> 30000, quality |-> 20000, power |-> -4, cnr |-> 2],
   [lock |-> FALSE, level |-> 600, quality |-> 5000, power |-> -9, cnr |-> 0]}

\* The part that is not looked at has one initial state.
MCInit ==
  /\ part \in {"pids", "signal"}
  /\ Init
  /\ SignalMonitorInit /\ (part = "signal" \/ scale = "none")

\* The signal can be looked at no more when it has been stored so often; the PIDs go on for ever.
Bounded == part = "signal" /\ ~CanStore /\ UNCHANGED <<part, vars, monitorVars>>

MCNext ==
  \/ part = "pids" /\ UNCHANGED <<part, monitorVars>> /\ Next
  \/ part = "signal" /\ UNCHANGED <<part, vars>> /\ SignalMonitorNext
  \/ Bounded

MCSpec == MCInit /\ [][MCNext]_<<part, vars, monitorVars>>
=============================================================================
