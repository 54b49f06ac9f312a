--------------------------- MODULE MCStreamSession ---------------------------
(***************************************************************************)
(* Instances of StreamSession for TLC.                                     *)
(***************************************************************************)
EXTENDS StreamSessionInv

\* Every tuner can serve every request.
AllCapable == {Streams}

\* Besides, there are requests only the first tuner can serve.
MixedCapable == {Streams, {1}}

\* Besides, there are requests no tuner can serve.
OneOrNone == {Streams, {}}
=============================================================================
