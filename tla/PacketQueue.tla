----------------------------- MODULE PacketQueue -----------------------------
(***************************************************************************)
(* What the ring of packet buffers promises: a queue of buffers, numbered  *)
(* in the order they were read, that leave it in that order and once; one  *)
(* buffer too many and all that wait are lost, the new one included.       *)
(* PacketRing implements this.                                             *)
(***************************************************************************)
EXTENDS Naturals, Sequences

CONSTANT Capacity

VARIABLES
  queue, \* the numbers of the buffers that wait, the oldest first
  next   \* the number of the buffer that is read next

queueVars == <<queue, next>>

Init == queue = <<>> /\ next = 1

Put ==
  /\ queue' = IF Len(queue) < Capacity THEN Append(queue, next) ELSE <<>>
  /\ next' = next + 1

Get ==
  /\ queue # <<>>
  /\ queue' = Tail(queue)
  /\ UNCHANGED next

Clear == queue' = <<>> /\ UNCHANGED next

Next == Put \/ Get \/ Clear

Spec == Init /\ [][Next]_queueVars
=============================================================================
