-------------------------- MODULE MCArmingListener --------------------------
(***************************************************************************)
(* ArmingListener for TLC: one restart, all the kinds of part, and plausible *)
(* slips of the code that its properties must notice.                      *)
(***************************************************************************)
EXTENDS ArmingListener

MCKinds == AllKinds
=============================================================================
