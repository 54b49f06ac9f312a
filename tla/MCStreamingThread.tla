-------------------------- MODULE MCStreamingThread --------------------------
(***************************************************************************)
(* Instances of StreamingThread for TLC.                                   *)
(***************************************************************************)
EXTENDS StreamingThread

\* The streaming objects that have no RTCP, and those that have.
HttpHelpers == {"monitor"}
RtpHelpers == {"monitor", "rtcp"}
=============================================================================
