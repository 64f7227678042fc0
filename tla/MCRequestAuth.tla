---------------------------- MODULE MCRequestAuth ----------------------------
(***************************************************************************)
(* RequestAuth for TLC: a coordinator beside service calls and, on a       *)
(* panel, the arming connection.                                           *)
(***************************************************************************)
EXTENDS RequestAuth

None == {}
MCPollers == {"poll"}
TwoPollers == {"poll", "secondary"}
MCUsers == {"user"}
MCStreams == {"stream"}
=============================================================================
