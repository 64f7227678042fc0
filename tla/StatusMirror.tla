---------------------------- MODULE StatusMirror ----------------------------
(***************************************************************************)
(* What a polled mirror of a panel promises: the abstract specification of *)
(* SecurityCoordinator.  A poll takes time; for every group of values it   *)
(* shows either what the panel reported at some moment between the poll's  *)
(* beginning and its end, or nothing.  Polls may overlap, and the one that *)
(* ends last is the one shown.                                             *)
(***************************************************************************)
EXTENDS Naturals

CONSTANTS
    Groups,     \* the groups of values a poll fetches, one request each
    Slots,      \* the polls that can be in flight together
    Missing     \* shown when the request of a group failed

VARIABLES
    status,     \* per group, the version the panel reports
    data,       \* per group, the version shown, or Missing
    floor       \* per slot, what the panel reported when its poll began

vars == <<status, data, floor>>

NotOpen == [g \in Groups |-> Missing]

Init ==
    /\ status = [g \in Groups |-> 0]
    /\ data = [g \in Groups |-> 0]
    /\ floor = [s \in Slots |-> NotOpen]

\* the panel reports a newer version of a group
Report ==
    \E g \in Groups :
        /\ status'[g] > status[g]
        /\ status' = [status EXCEPT ![g] = status'[g]]
        /\ UNCHANGED <<data, floor>>

Begin(s) ==
    /\ floor[s] = NotOpen
    /\ floor' = [floor EXCEPT ![s] = status]
    /\ UNCHANGED <<status, data>>

End(s) ==
    /\ floor[s] # NotOpen
    /\ floor' = [floor EXCEPT ![s] = NotOpen]
    /\ \A g \in Groups : data'[g] = Missing \/ data'[g] \in floor[s][g] .. status[g]
    /\ DOMAIN data' = Groups
    /\ UNCHANGED status

Next == Report \/ \E s \in Slots : Begin(s) \/ End(s)

Spec == Init /\ [][Next]_vars
=============================================================================
