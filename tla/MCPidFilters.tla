----------------------------- MODULE MCPidFilters -----------------------------
(***************************************************************************)
(* An instance of PidFilters for TLC: PID 0 is low and always added, 1 is  *)
(* one that clients and OSCam ask for, 2 stands for the full stream.       *)
(***************************************************************************)
EXTENDS PidFilters

Pid0 == {0}
Pid1 == {1}

Param(what, list, add) == <<[what |-> what, list |-> list, add |-> add]>>
Ask(freq, tune, params) == [freq |-> freq, play |-> TRUE, tune |-> tune, edits |-> params]

\* A channel with its PIDs, with none, or in full; more PIDs, fewer, or both; and a new
\* physical layer pipe without a frequency.
AllRequests ==
  {Ask(f, FALSE, e) :
    f \in {"same", "new"},
    e \in {Param("list", {1}, TRUE), Param("none", {}, TRUE), Param("all", {}, TRUE)}}
  \cup
  {Ask("absent", FALSE, e) :
    e \in {Param("list", {1}, TRUE), Param("list", {0, 1}, FALSE),
           Param("list", {0}, TRUE) \o Param("list", {1}, FALSE)}}
  \cup {Ask("absent", TRUE, Param("list", {1}, TRUE))}
=============================================================================
