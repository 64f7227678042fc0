-------------------------- MODULE MCSecurityRefresh --------------------------
(***************************************************************************)
(* SecurityRefresh for TLC: two of the four groups are enough to see a poll *)
(* read one of them before and the other after a change; partitions are    *)
(* pushed by the panel, zones are not.                                     *)
(***************************************************************************)
EXTENDS SecurityRefresh

MCGroups == {"partitions", "zones"}
MCOrder == <<"partitions", "zones">>
MCPushed == {"partitions"}
=============================================================================
