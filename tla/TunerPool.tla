------------------------------ MODULE TunerPool ------------------------------
(***************************************************************************)
(* What the server promises about its tuners: a tuner is free or held by   *)
(* one session, a session holds one tuner at most, gets it only while it   *)
(* is free, keeps it until it is released, and never comes back after its  *)
(* end.  StreamSession implements this.                                    *)
(***************************************************************************)
EXTENDS Naturals

CONSTANTS
  Tuners,
  Sessions  \* 0 is none of them

VARIABLES
  holder,  \* the session that holds each tuner, 0 for none
  gone     \* the sessions that ended or were refused

poolVars == <<holder, gone>>

Init == holder = [s \in Tuners |-> 0] /\ gone = {}

\* A session nobody has seen yet gets a free tuner.
Claim(s, id) ==
  /\ holder[s] = 0
  /\ id \notin gone /\ \A r \in Tuners : holder[r] # id
  /\ holder' = [holder EXCEPT ![s] = id]
  /\ UNCHANGED gone

Refuse(id) ==
  /\ id \notin gone /\ \A r \in Tuners : holder[r] # id
  /\ gone' = gone \cup {id}
  /\ UNCHANGED holder

Release(s) ==
  /\ holder[s] # 0
  /\ gone' = gone \cup {holder[s]}
  /\ holder' = [holder EXCEPT ![s] = 0]

Next ==
  \/ \E s \in Tuners, id \in Sessions : Claim(s, id)
  \/ \E id \in Sessions : Refuse(id)
  \/ \E s \in Tuners : Release(s)

Spec == Init /\ [][Next]_poolVars
=============================================================================
