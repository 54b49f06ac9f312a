------------------------------- MODULE MCPackets -------------------------------
(***************************************************************************)
(* The buffers of one streaming thread, checked in one run: the ring of    *)
(* them or, in a behaviour of its own, one that an input without a         *)
(* frontend fills.  The ring takes whole buffers, which is what the other  *)
(* makes of the bytes of the input.                                        *)
(***************************************************************************)
EXTENDS PacketRing, TsInput

VARIABLE part

\* Buffers of two packets.  Those with the odd flag alone are left out: they are to odd
\* what the others are to even.
MCContents ==
  {<<"clear", "clear">>, <<"clear", "even">>, <<"even", "clear">>,
   <<"even", "even">>, <<"even", "odd">>, <<"odd", "even">>}

\* The part that is not looked at has one initial state.
MCInit ==
  /\ part \in {"ring", "input"}
  /\ Init
  /\ InputInit /\ (part = "input" \/ (filtering = FALSE /\ place = 0))

MCNext ==
  \/ part = "ring" /\ UNCHANGED <<part, inputVars>> /\ Next
  \/ part = "input" /\ UNCHANGED <<part, vars>> /\ InputNext

MCSpec == MCInit /\ [][MCNext]_<<part, vars, inputVars>>
=============================================================================
